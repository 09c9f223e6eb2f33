# TLA+ models and proofs of talmorGo

talmorGo takes links (from a web page or a Telegram bot), expands playlists into
jobs, downloads the jobs with yt-dlp on a pool of workers, and keeps a library
of what was downloaded. The state of the program is a SQLite database, a media
directory, a staging directory and a handful of in-memory registries. Many
goroutines meet at that state; almost every operation is several SQL statements
and file operations in a row, without a transaction around them. The models are
about what may happen between those steps.

Paths below are relative to the repository; `pool.go` is
`internal/worker/pool.go`, `job.go` is `internal/repo/job.go`, `service.go` is
`internal/queue/service.go`, `expander.go` is `internal/playlist/expander.go`.

## Files

| module | what it is |
|---|---|
| `JobTable` | the table `jobs` and every statement of `job.go` that changes it, each a function from table to table |
| `DownloadQueue` | the queue: requests, resolvers, workers, process start, crash, the two registries; extends `JobTable` |
| `RetryWindow` | what the queue has to know of the retry window; extended by `DownloadQueue` |
| `RetryBackoff` | the arithmetic of `handleFailure` on instants, for one row and the copies workers have of it |
| `OpsWorker` | the background operations: table, two lanes, bells, registry, requests, start, stop, crash |
| `MediaLibrary` | files on disk against rows of `items`: workers saving files, scanner, file check, requests and operations on files, restart |
| `JobLifecycle` | abstract specification: the statuses of a job and the only ways between them |
| `Ids` | ids are numbers in the order of creation; the oldest of a set |
| `Settings` | the overrides of the settings: the table, the copy everybody reads, its mutex |
| `CookieJar` | cookies: the table and the file yt-dlp reads, rewritten from it |
| `Labels` | tags, collections and the prune of both |
| `LibraryPages` | the listing of the library, its count and the show-more button |
| `Links` | permanent links: creation, revocation, resolution |
| `BotMessages` | the messages of the Telegram bot against the rows, workers and expansions they are about |
| `Fetch` | one run of yt-dlp: process, pipes, readers, deadline, channel, and the pool that receives |
| `EventHub` | publications, the window, channels of subscribers, the page that listens |
| `MCDownloadQueue`, `MCOpsWorker`, `MCMediaLibrary` | symmetry for TLC |
| `MCQueueLive` | the bounds of `queue_live` |
| `MCServices`, `MCStreams` | the small components for TLC, one at a time |
| `IdsProofs` | a least id exists |
| `DownloadQueueTypes` | lemmas about the statements of `JobTable`; type correctness of the queue, proved |
| `DownloadQueueProofs` | safety of the queue, proved |
| `DownloadQueueFates` | what becomes of a job: fates in the table against work in memory, and the refinement of `JobLifecycle`, proved |
| `OpsWorkerProofs` | type correctness and safety of the operations, proved |
| `MediaLibraryProofs` | type correctness and safety of the media library, proved |
| `ServicesProofs` | safety of the settings, the cookies file, labels, the pages of the library and the bot's messages, proved |
| `StreamsProofs` | safety of permanent links, the event hub, a run of yt-dlp and the retries, proved |
| `*.cfg` | one per run, named as in `PROJECT.json` |

`PROJECT.json` lists the runs with their properties, the source lines of every
definition, the hazards of the code with the property that covers each, and, for
every property, a plausible slip of the code (a definition with a suffix, such as
`ClaimableTwice` beside `Claimable`) under which the property fails.

    tlc -workers 2 -config queue_core.cfg MCDownloadQueue.tla
    tlapm DownloadQueueProofs.tla

## Inventory

**Job table** (`repo/job.go`, `model/model.go`). State: one row per job: status,
retry_count, first_failure_at, next_retry_at, hidden, and display data. About
twenty statements change it; `ClaimNext`, `Cancel`, `ConfirmSingle`,
`DeleteChecking`, `ResetFailed`, `ResetStale`, `Purge` carry a condition on the
status in their WHERE clause, `Update` and `Redownload` do not. All writes go
through one connection, so a statement is atomic and two are not. *Correct when*
a row is never in a status nobody will take it out of, a deleted row stays
deleted, the retry count stays in its window.

**Queue service** (`queue/service.go`). State: `resolving`, a map from job id to
the cancel function of its playlist check. Operations: Prepare, Resolve, Add,
RecoverChecking, Cancel, CancelAll, Retry, Redownload. Called by HTTP handlers
and the bot, concurrently. *Hard*: every operation but Retry is several steps;
entries are removed by id, whoever they belong to. *Correct when* cancelling one
job never stops another, a cancellation reaches what can still be cancelled, and
every job in `checking` has somebody who will decide it.

**Playlist expander** (`playlist/expander.go`, `downloader/playlist.go`). Probes
a link with yt-dlp under a timeout; a single video confirms the placeholder, a
playlist deletes it and creates one job per entry. *Hard*: a crash or
cancellation between the deletion and the last entry. *Correct when* a link is
expanded once and completely, or not at all.

**Worker pool** (`worker/pool.go`). State: `cancelFuncs` per job id, a wake-up
channel, the staging directory. Goroutines claim a row, register a cancel
function, download, save files one by one, write the verdict back without a
condition, and run deferred clean-ups by job id. *Hard*: the windows between
claim and registration, and between verdict and clean-up; failure and automatic
retry; restart. *Correct when* one job is downloaded by one worker, a cancelled
row has no live download, and nothing is left in the staging directory.

**Process life cycle** (`cmd/talmor/main.go`). HTTP starts first, then the pool
(which resets stale rows) and the recovery of interrupted checks side by side.

**Background operations** (`ops/worker.go`, `ops/ops.go`, `repo/operation.go`).
State: table `operations`, two lanes with a wake-up channel each and a registry of
cancel functions. *Hard*: cancel and dismiss against claim and registration,
re-running interrupted operations, retention, a lane without a timer. *Correct
when* an operation runs in one lane, an interrupted one is finished, and a
dismissed one was not running.

**Media files and their items** (`repo/item.go`, `worker/dir_scanner.go`,
`worker/inflight.go`, `worker/checker.go`, `filecheck`, `storage`, `audio`).
State: files on disk, rows of `items`, the set of names in flight. The scanner,
the periodic file check, downloads, renames, deletions and audio extraction all
read a set of paths and act on it later. *Correct when* every file has one item,
every item not marked lost has its file, and no file is replaced by another.

**Library service** (`library/service.go`, `repo/media_query.go`,
`repo/collection.go`, `repo/tag.go`, `repo/token.go`). Hide, purge, tags,
collections, permanent links, the listing. *Hard*: purge reads the hidden flag and
deletes files before the row; tags are pruned while being attached, and a collection
is a row and a tag held together by a name; a link is looked up and then inserted;
a page and its count are two queries. *Correct when* a label is lost only on request,
a revoked address never works again, and paging shows what is there.

**Downloader** (`downloader/ytdlp.go`, `proc_unix.go`). Four goroutines, a process
group, two pipes and a channel per run. *Hard*: a deadline or a cancellation while any
of them is full; output that cannot be read. *Correct when* every run ends and
nothing is lost in silence.

**Settings and cookies** (`settings/provider.go`, `repo/settings.go`,
`repo/cookie.go`, `api/handler/settings.go`). A copy of the overrides filled on first
use and dropped after each write, and a cookies file rewritten from the table.
*Hard*: a reader that loads while somebody writes; failed statements; two rewrites.
*Correct when* readers see what was saved, and the file ends with what the table says.

**Event hub** (`sse/hub.go`, `api/server.go`, `main.js`). Topics coalesced over a
window, bounded channels per client. *Correct when* a page shows old data only while
news of it is on the way.

**Telegram bot** (`bot/bot.go`, `bot/handlers.go`). State: `pendingMsgs`, and the id of
a message in the row of its job. *Hard*: message, row, check and worker are created in
a row of steps while buttons are pressed, and while the recovery and the web may have the
same link checked. *Correct *Correct when* a link has one message, which
its attempts edit, and which stops offering to stop it once it is a playlist.

**Database** (`db/db.go`), **HTTP API**, **web pages**: one writer connection;
translation of requests into the calls above; which row actions a page offers and when
it offers more rows (`media.templ`), which the models use.

The hazards at their lines, 40 of them, are in `PROJECT.json`.

## How the model corresponds to the code

A step of `DownloadQueue` is what runs without another goroutine seeing the
middle of it: one SQL statement, or one critical section of a mutex. A process
keeps between its steps exactly the local values the code keeps.

| variable | in the code |
|---|---|
| `table`, `unused`, `stored` | rows of `jobs`; ids not generated yet; jobs with a row in `items`, as far as the queue decides it |
| `worker[w]` | a goroutine of `Pool.runWorker`/`process`: program counter, the claimed copy of the row (`job`, `retries`), whether its context is alive (`live`), whether a file was recorded (`got`), whether the staging directory was made (`dir`), and the decided status |
| `cancelFuncs`, `resolving` | the two registries; an entry is the process it would cancel |
| `staging` | whose files lie in `StagingDir/<job id>` |
| `resolver[r]` | a goroutine of `Service.Resolve` with the ids of the entries its probe found |
| `request[c]` | a handler between two statements: its job, or the ids `CancelAll` listed |
| `phase`, `recovery` | the two halves of the start: `pool.Start` and `RecoverChecking` |

Workers: `Claim` (ClaimNext) → `Register` (the cancel function; or MkdirAll
failed) → `TakeFile`/`SaveFile` any number of times → `EndDownload` (the outcome
is judged on the local copy) → `WriteVerdict` (Update) → `Release` (the deferred
calls). Resolvers: `ProbeSingle`/`ProbePlaylist` → `Confirm`, or `Expand`/
`ExpandRefused` → `CreateEntry`… → `FinishResolve`. Requests: `BeginOnRow`
takes what a page offers on the row it shows; since other processes move on
before the first statement, pages are stale in the model as they are in life.
`Cancel` is `CancelPool`, `CancelRow`, `CancelCheck`; `CancelAll` is
`ListRunning`, `StopRunning`…, `CancelRows`; `Redownload` is `DropItems`,
`RedownloadRow`, `Resolve`.

Abstractions, and why they lose nothing the properties ask for:

- *Ids are numbers in the order of creation* (`created_at` decides claims). The
  ids of playlist entries are taken when the probe ends, so that they are
  consecutive as in `CreateJobs`; unused ones go back to the supply.
- *Polling.* A worker claims whenever it is idle and a row is claimable: the ten
  second timer makes this so, the wake-up channel only makes it sooner.
- *Time.* `Elapse(j)` is the moment `next_retry_at` passes, at any time.
  `MaxAttempts` bounds the backoffs that fit in the retry window; below it
  whether another one fits is left open, as it depends on time spent
  (`RetryWindow`). That the arithmetic of `handleFailure` decides so is
  `VerdictsFollowWindow` of `RetryBackoff`.
- *Downloads and probes* give any outcome they can give. A cancelled context
  makes the next statement under it fail, where the code passes that context;
  the verdict of `process` is written under the pool's context and does not fail.
- *Rows of files.* `SaveFile` gives the job a row; the row that has the path already is taken
  over from its job, whichever that is, and may have been its only one (`Recorded`). Paths are
  not in the model, so any job may lose its row to any other. What scanner, file check,
  deletion and renaming do to rows is in `MediaLibrary` only, where rows have paths.
- *Joined steps.* Registering and making the staging directory; the two deferred
  calls of `process`; naming and moving a file. `purge` and `cleanup` are one
  step on the rows. Their files, and the steps of saving one, are `MediaLibrary`.
- *Left out.* Refused input (a link that is no URL), requests abandoned between
  two statements, database errors other than those of an ended context, titles,
  logs, chat ids. Tags are in `Labels`, message ids in `BotMessages`.

### Operations

| variable of `OpsWorker` | in the code |
|---|---|
| `ops` | rows of `operations`; the field `applied` is no column: it says whether anything came of the operation so far, which is what `done` is about |
| `lane[l]` | the goroutine of `runLane`: where it is in `drainPending` and `runOne`, its operation, whether the operation's context has ended (`early` by cancellation or timeout, `stop` by SIGTERM), whether a part of the payload succeeded (`ok`), and what `exec` returned |
| `bell[l]` | whether the channel of capacity one holds a signal |
| `cancels` | `Worker.cancels`, an entry being the lane whose context it cancels |
| `request[c]` | a handler of `library.Service` between two steps |
| `phase` | process down; HTTP up but `Start` not run; running; SIGTERM received |
| `faults` | failed claims, failed verdicts and panics in this life of the process, bounded by `MaxFaults` |

Lanes: `Wake` (receive from the channel) → `ClaimOp` or `LaneRests` (ClaimNext) →
`RegisterOp` → `ExecUnit`… → `EndExec` (what the seven kinds may return, given
what succeeded and whether the context ended) → `FinishOp` (SetDone, SetFailed)
→ `DropHidden` (reindex and cleanup leave no row) → `Unregister` → `ClaimOp`.
`Fault` is a failed claim, a failed verdict or a panic. `Enqueue`/`Ring` and
`Cancel`/`LookBeforeRemoving`/`Remove` are the two and four steps of `enqueue` and
`CancelOperation`. A payload is not modelled: a unit of work is one file, one job
or one statement of it. Dismissing is one step: the page offers it for finished
rows, which nothing revives.

### Media library

| variable of `MediaLibrary` | in the code |
|---|---|
| `disk` | what lies at each path: nothing, an empty or unfinished file (`Part`), a user's file (`Foreign`), or the file of a job. A path is the output directory or the directory of tracks in it (`AudioDir`), and a name |
| `jobs` | status and `hidden` of the rows of `jobs`; `queued` stands for checking, pending and retrying, whose differences are `DownloadQueue`'s |
| `items` | rows of `items`: path, job, deleted, lost |
| `inFlight` | `InFlightPaths` |
| `loader[l]` | a goroutine in the event loop of `process`: where it is with the file it is saving, and whether one was recorded |
| `scan` | `DirScanner.scan`: directories still to be listed, the known paths as they were read (`there` available, `gone` not), entries still to be looked at |
| `check[c]` | `filecheck.Run`: the rows as they were read and the mark about to be written, for the timer (`checker.go`) or a reindex |
| `request[a]` | a handler, or the operation of the heavy lane, between two of its steps |

Saving a file is `Reserve` (O_EXCL) → `Announce` → `MoveFile` or `MoveFails` →
`StatFile` → `RecordFile` (the upsert, refused if the job is gone) → `Forget`,
any number of times, then `Verdict`. A scan is `ScanStart` (KnownPaths) →
`ScanList` (a directory) and `ScanLook` (one entry) → `ScanRestore`, or
`ScanImportJob` → `ScanImportItem`. A check is `CheckStart` → `CheckLook` (stat)
→ `CheckMark`. Deleting, purging, redownloading and cleaning up read rows,
`Unlink` one path after another and end with their statements; a rename is
`RenameStub` → `RenameFile` → `RenameRow`, or `RenameBack` when the unique path
refuses; an extraction is `Encode` → `Encoded` (ffmpeg wrote all of the track or
left a part) → `RecordTrack`. `PutFile` and `TakeFile` are the user in the media
directory, `Restart` a crash at any moment and the start after it.

Left out: a file-system error of `Storage.Delete`, the columns of tags, names and
sizes, writing tags into a file (`update_meta`), tags of jobs. The look at `inFlight`
and the `Info` after it are one step. What a download is called is any free name:
`reserveFreePath` counts up from the title.

### Settings and cookies

| variable | in the code |
|---|---|
| `Settings.table`, `cache` | rows of `settings`; `Provider.cache` and `loaded`, with the ghost `failed`: the SELECT behind this copy failed |
| `mutex` | who holds `Provider.mu` in write mode over a SELECT; the short critical sections are one step and wait for it |
| `proc[p]` | a request or a worker in the provider: a save goes `WriteKey` → `DropCopy` per key, a read `CheckCopy` → `TakeMutex` → `LoadTable` → `StoreCopy` |
| `CookieJar.jar`, `file` | rows of `cookies`; the file, by what its text was merged from (`Mixed` is a torn text) |
| `client[c]` | an import or a deletion: statements per domain, then `Merge` → `Open` (truncates) → `Write`, or `Remove` |

`DownloadOptions` reads the copy once per key, so a save may fall between two of its
options; the form reads it once. What a value is good for is reduced to "is a number",
which decides whether an override wins. Two system calls of `os.WriteFile` are two steps,
because the second request may truncate between them.

### Tags, links and the listing

`Labels` keeps `tags`, `job_tags` and `collections` as tables; a step is a statement or a
transaction. Tagging is `InsertTag` → `SelectTag` → `Attach`, an expansion attaches the tag
it selected once to each job it creates, the prune is three statements
(`PruneLinks`, `PrunePlain`, `PruneRows`). `Links` keeps `tokens` and the state of items; `given`,
`revoked` and `since` are no state of the code: they remember what was answered to whom and
whether a revocation has overtaken a request. `LibraryPages` has the two halves of the listing
with their own conditions (`FileRows`, `WaitingRows`), the window of a page, the count that is
asked for only if the page is full, and a reader who goes on to the next page. `created_at` is
kept as an order: `older[r]` are the stored rows older than `r`, and a row is in the window of an offset if
as many rows of the listing as the window allows are newer (`Above`). `owed` is no state of the
code: it remembers which rows of the list as it was opened the reader has not been shown, and is
emptied when a row has left the list or a count has failed.

### Bot

| variable of `BotMessages` | in the code |
|---|---|
| `row` | status and `tg_message_id` of the rows of `jobs` |
| `chat` | what each message says, with its buttons, and the job named in the buttons |
| `pending` | `Bot.pendingMsgs` |
| `handler[j]`, `click[c]` | goroutines of `handleURL` and of `handleCallback` between two steps |
| `check[j][q]` | the goroutine of `Service.Resolve` that checks row `j` for `q`: the bot, the recovery, or a Redownload; up to the observer's `OnExpanded` |
| `recovery` | what a start has still to do: `ResetStale`, and the rows `RecoverChecking` lists and takes up one by one |
| `marred[j]` | no state of the code: whether somebody else began a check of the link, or a crash hit it, "early" (its message not stored yet) or "late" |
| `worker[w]` | `Pool.process` with the message id of the row as it was claimed |

The queue is reduced to what the chat can tell apart: a cancellation stops the worker that
holds the job or marks the row, and which of the registries it found is left to
`DownloadQueue`. The recovery runs beside the bot from the first start on, as in
`main.go:128-137`: it may list a placeholder `handleURL` has only just created. Checks of one
row run side by side, and the guards of ConfirmSingle and DeleteChecking decide between
them; each of them calls `OnExpanded`, which takes the entry of `pendingMsgs`, and only the one
that has expanded the row writes the summary. A cancelled check is one whose statement fails
(`CheckFails`). `Purge` stands for `PurgeJob` and the cleanup, for a row of any status, since
hiding needs none. Editing and deleting a message may fail, and does when it is gone.

### Retries

`RetryBackoff` has the three columns the decision of `handleFailure` rests on, of one row: `retry_count`,
`first_failed_at` and `next_retry_at`, and the copy of them each worker took when it claimed the row. An instant is kept as
its distance from now (`age`, `wait`), and `Tick` lets time pass between any two steps, so that an
attempt lasts as long as it likes. The statements of `job.go` on these columns are `Claim`, `Update`,
`Cancel`, `Reset` and `Restart`; a last `Update` that fails (`UpdateFails`) leaves the row as it was. Two workers
with copies of one row are a job that was restarted while an earlier attempt went on. Instants are
compared as such; the table compares their text, in which only a fraction of a second that ends in zeros
sorts differently.

### Downloader and event hub

`Fetch` has the process (`PrintLine`, `Complain`, `Exit`, all of it the external program), a reader
per pipe, `wg.Wait` and `cmd.Wait` (`Wait`), the log and the verdict on the channel, the
deadline, the cancellation and the kill of the process group. `stdout` holds lines of three
kinds: the path of a file, anything else, and a line longer than the scanner's buffer, which
ends the reading. `EventHub` separates the change of the data from the `Publish` that follows it,
and has the window (`armed`), a channel of capacity `Cap` per page, and the page's connection,
its reconnection and its fetches. `stale`, `missed` and `skipped` are no state of the code: what
the page shows and no longer holds, and what was sent when it could not take it.

## What the runs show

| run | instance | shows |
|---|---|---|
| `queue_core` | 3 jobs, 2 workers, 2 resolvers, 1 client with 2 requests (add, cancel, retry) | exclusive downloads, cancellation hits its job, cancelled is stopped, the retry window, and that the queue implements `JobLifecycle` |
| `queue_full` | 1 job left over, 2 workers, 1 resolver, 2 clients, 3 requests of all nine kinds, 2 starts | no deleted job back and no file for one, with purge, cleanup and Redownload meeting a running download; no staged file without an attempt that will remove it, also after a crash |
| `queue_live` | 3 jobs, 5 while one link is read twice, 1 worker, 2 resolvers, 1 client with 2 requests (add, cancel, retry), 2 starts | across a crash: running and checking rows are attended to, expansion once, every job comes to rest |
| `ops` | 2 operations, both in one lane or one in each, one of them hidden, 1 client, 2 starts, 1 fault | no lost wake-up, no running row without a lane (but for faults), late cancellations hit nothing else, nothing active is pruned, done means something was done, each lane drains on its own |
| `library_files` | 2 names, 2 workers, 2 downloads, scanner, 1 change from outside, hide or retry, 1 restart | namesakes lie side by side, an empty file is being used unless a crash left it, an announcement is taken back |
| `library_heals` | 2 names (one in the library, one deleted), 1 worker, scanner, file check, 1 request of the ten kinds, 1 restart | one row for a path, no row without its job, rows and files come to agree |
| `services` | `Settings` (2 keys, 3 processes, 1 fault), `CookieJar` (2 domains, 2 requests, 2 faults), `Labels` (2 jobs, tags and names, 1 collection, 2 tasks), `LibraryPages` (2 jobs, 2 files, 1 row per page, 2 filters), `BotMessages` (1 link, 1 worker, the recovery beside the bot; an entry and 2 messages; or a crash, with the requests of users and purges; or a crash, with Redownload and purges) | copies follow their tables, a lone rewrite settles the file, labels are kept, paging misses nothing, attempts edit the link's message and summaries replace its button |
| `streams` | `Links` (2 items, 2 addresses, 2 requests), `Fetch` (3 files, pipes of 2 lines, a channel of 1), `EventHub` (2 topics, 1 page, a channel of 2, 1 lost connection or restart), `RetryBackoff` (2 workers, a window of 12 bases, the shift capped at 2) | revoked links stay dead, nothing is lost in silence, every run ends, pages catch up, failures are retried as the queue's model has it |

`services` and `streams` hold components that share no variable with one another: the
first state chooses one, which moves while the others stay where they start. Their product
would only multiply states in which nothing new can happen.

Bounds. Three jobs are a placeholder and a playlist of two, the smallest
expansion with an order in it. The hazards of one job do not need a second one, so
`queue_full` spends its states on kinds of request instead. Two workers are one
attempt and the one that follows it. Two resolvers are a check started by a
request and the same check resumed by the recovery; for both of them to hold a
playlist of that link takes five ids, which `queue_live` has. `MCQueueLive` lets
a check take the last two of them only in that case; its bounds are on new links
and on what is behind a link, so no step the fairness asks for is held up. Two requests are a
cancellation or retry after an addition; three, with two clients at once, are
what the violations below need at most. Two starts are one crash; it empties all
memory, so `queue_live` needs no second worker, while `queue_core` has one
start, in which requests already meet the pool's reset and the recovery; `queue_full` has two,
with two workers whose files the sweep of the second start must find. The
passing runs have between 0.1 and 2.1 million distinct states and take at most four minutes. `MaxAttempts =
2` gives one retry and one final failure. `MaxRequests` and `MaxBoots` bound the
environment, never the program. A finished system stops, so deadlock is not
checked.

In `ops` two operations are what a lane and its successor, or two lanes, need;
`bulk_tag` stands for the kinds that stand or fall with what they did and
`cleanup` for the hidden ones in the heavy lane; one fault separates what holds
without any from what holds in spite of one; two starts are one crash or stop.

In the `library` runs two names are a file and the neighbour it may collide
with, two workers the two downloads of one title. A deleted name at the start
is a row whose path is free, which renames and downloads run into. `library_heals`
has one request at a time, so that what it meets is the worker, the scan, the check
and the crash; that the tables stay sound under any number of requests is proved
(`TablesAlwaysSound`). The supply of ids (`Jobs`, `Items`) is one more than what a run uses at one
time; an id nobody refers to any more may be generated again, which stands for a
fresh one.

In `services` three processes are a writer, a loader and a reader that meets both;
two keys are a save with another between its writes. Two domains make an import of more than
one statement, and two requests the overlap that disturbs a file. With one row per page
every page is full and every row a page of its own; which rows match the filter is fixed, with a
job whose own text matches, one whose file's does, and one of neither; that larger pages and
other filters change nothing is proved (`ReadersMissNothing`). Two
messages of the bot are the one for the link and one a worker may send. The bot comes in three
instances: without a crash, with a playlist and the stop button; with a crash and everything
users ask for but a second download; and with a crash, Redownload and purges. In the last two the link's
only message suffices; in all of them the recovery of the first start runs. In `streams` a
channel and pipes this small are full after a line or two, which is when goroutines wait for
each other; three files do not fit in them together. The hub's channel holds two sets instead of
eight: a third flush finds it full. A window of 12 bases holds backoffs of 1, 2, 4 and 4, the
last of them capped, and not a fifth (`MaxAttempts` is 5).

Four runs check what the repository says of the program and find a behaviour
that contradicts it; each is a finding in `PROJECT.json` with the line it quotes.

| run | what happens |
|---|---|
| `cancel_all` | `CancelAll` marks a job cancelled that was claimed after it listed the running ones; its worker goes on |
| `lost_entries` | a crash after the placeholder is deleted loses entries of the playlist |
| `scan_steals` | a scan that read the known paths before a download was recorded imports its file: the row passes to the imported job |
| `ghost_jobs` | a deleted file's row passes to the next download of that name; the first job is done without rows and shown nowhere |

Each is checked on the smallest instance that shows the behaviour, and the passing
runs say where the corresponding promise does hold: without CancelAll a cancelled
row is stopped, and however rows pass between jobs no file stays without one.

The models also contain, without a run of their own:

- a cancellation between `ClaimNext` and the registration of the cancel function
  (`pool.go:242`) is refused and the download goes on; the clean-up of an attempt
  (`pool.go:246`) removes the entry of the attempt that follows it, which cannot be
  cancelled from then on;
- the same clean-up removes the staging directory by the id of the job (`pool.go:271`), and with
  it the files of the attempt that follows: that one saves no more of them, and fails or is
  done with fewer files than it has downloaded;
- a download takes over the row of a job that is done (`item.go:48`), so that `done` does not
  mean that a job has a row in `items`: `ghost_jobs` shows one way there, without a race;
- a cancellation that cancelled nothing (`service.go:175`) ends the check a
  Redownload has just started, and the row stays in `checking` until a restart;
- SIGTERM ends a running operation's context and its row is written as failed, so
  that the next start does not queue it again (`ops/worker.go:221`);
- a lane claims an operation between the look of `CancelOperation` and its deletion
  (`library/service.go:307`) and runs it without a record;
- ffmpeg writes a track over whatever has its name (`audio/extract.go:50`), the
  rollback of a rename moves the file over what has taken its old name
  (`library/service.go:177`), and a purge or a cleanup deletes files by paths it
  read before (`library/service.go:243`, `ops/worker.go:520`): the reason why
  `NamesakesSurvive` is checked without these requests;
- a failed SELECT of the overrides is cached as an empty map, also when only its
  request had gone (`provider.go:68`): until the next save, or the end of the
  process, everybody runs on the values of the environment. Both properties of `Settings` exclude copies that come of a failure;
- two rewrites of the cookies file that overlap, or a crash after the table was changed,
  leave an older or a torn file until the next rewrite (`settings.go:137`);
- the attachment of a tag that was pruned after it was selected is refused, and the jobs
  of that playlist stay without it (`tag.go:127`, `expander.go:45`);
- a topic skipped by a full channel is not caught up by publications of other topics
  (`hub.go:103`), and what is sent between the loading of a page and its first connection
  does not reach it: `onopen` fetches everything on later connections only;
- the recovery lists the placeholders when the bot serves already (`main.go:131`, `137`), and
  Redownload restarts a row at any time: either may begin to check a link before its message is
  stored. A worker then claims it without a message, its attempts send one of their own and the first one
  stays "queued", which the comment on Prepare (`service.go:96`) says cannot happen. Without its
  exception for such links (`marred[j] # "early"`) `AttemptsUseTheLinksMessage` fails in
  `services` after five steps;
- of two checks of one link the one that finds the placeholder gone calls `OnExpanded` all the
  same (`queue/service.go:125`, `bot/handlers.go:188`) and may take the entry of `pendingMsgs` first: the
  other has expanded the link and finds no message to turn into a summary, so that one goes on offering
  to stop a job that is gone. The same comes of a crash, which empties `pendingMsgs`, and of an edit Telegram
  refuses. `SummariesReplaceButtons` excepts these links (`marred`), and fails without the exception;
- a link that is cancelled from the web or purged keeps its message with the stop button: nobody
  tells the chat, and pressing it finds nothing to cancel. An edit of a message the user has
  stopped fails, and with it the news of a failure (`bot.go:184`);
- a row that leaves the list between two pages moves the others up and one is skipped, and a
  failed count ends the paging early (`library/service.go:75`): `PagesMissNothing` excludes both.

Fairness (`FairSpec` of `DownloadQueue`, used by `queue_live` only). Weak fairness on the steps of
workers, resolvers and requests: they are goroutines that run to their end, and
the download and the probe run under timeouts. Strong fairness on `EndDownload`:
yt-dlp may go on handing over one more file, but its process is killed at the
timeout. Weak fairness on `Elapse` (time passes) and on the start of a stopped
process (it is run by a supervisor, `docker-compose.yml`). In `OpsWorker` the
fairness of a lane is a premise of `LanesAreIndependent` itself, one lane at a
time, so that the other may hang for ever; `FairSpec` adds that handlers run to
their end and that a stopped process exits and is started again. A stuttering
lane is not excluded by anything else, and a panic or a failed claim may leave
work waiting for the next bell, which the premise names. In
`MediaLibrary` the worker, the scanner, the file check, handlers begun and the lane
are weakly fair: they are goroutines, and the timers of the scanner and the check
fire again. `LibraryHeals` itself assumes that requests and downloads come to an
end. Nothing is assumed about users, about files being found, or about crashes.
In `Fetch` the goroutines of the run and of the pool are weakly fair, the deadline passes
and SIGKILL ends the process group; nothing is asked of yt-dlp, which may print for ever or
fall silent. In `EventHub` a publisher that has changed data goes on to its `Publish`, the timer of
the window fires, and a page that stays open connects, reads and fetches; it may be closed at
any time, and `PagesCatchUp` then has nothing left to show.

## What is proved

For any set of jobs, workers, resolvers, clients and kinds of request, without
the bounds of the runs, from the assumptions named in the modules (ids are
positive numbers, the backlog is older than what is created later, bounds are
natural numbers, at least one attempt, `None` is no process):

| theorem | property | needs |
|---|---|---|
| `TypeCorrect` | `TypeOK` | `Assigned` |
| `RunningAlwaysOwned` | `RunningIsOwned` | `Assigned` |
| `CancelAlwaysHitsItsJob` | `CancelHitsItsJob` | `Assigned` |
| `ItemsAlwaysHaveJob` | `ItemsHaveJob`, which no run checks | `Assigned` |
| `DeletedJobsStayDeleted` | `DeletedStaysDeleted` | `Assigned`, `ItemsHaveJob` |
| `RetriesAlwaysInWindow` | `RetriesStayInWindow` | `RetriesInHand` |
| `AlwaysExpandedOnce` | `ExpandedOnce` | `FreshIds` |
| `DownloadsExclusive` | `ExclusiveDownload`, if Redownload is not offered | `FreshIds`, `OneWorkerPerJob` |
| `CancelledAlwaysStopped` | `CancelledMeansStopped`, if neither Redownload nor CancelAll is offered | `OneWorkerPerJob`, `NoCancelAll`, `RunningWork` |
| `StagingAlwaysSwept` | `StagingIsSwept` | `Assigned` |
| `ChecksAlwaysAttended` | `CheckingIsAttended`, if Redownload is not offered | `FreshIds`, `CancelHitsItsJob`, `CalledOffLast` |
| `LifecycleFollowed` | `FollowsLifecycle` (refinement), if neither Redownload nor CancelAll is offered | `FreshIds`, `OneWorkerPerJob`, `RunningWork` |
| `OpsTypeCorrect` | `OpsTypeOK` | `Orderly` |
| `CancellationsHit` | `CancelHitsItsOperation` | `Orderly` |
| `DoneIsEffective` | `DoneHasEffect` | `Orderly` |
| `WakeupsReachLanes` | `NoLostWakeup` | `Orderly` |
| `ActiveRowsAreKept` | `ActiveLeavesByCancel` | `Orderly` |
| `RunningRowsHaveLanes` | `RunningHasLane` | `Orderly`, `OrphansAreCounted` |
| `LibraryTypeCorrect` | `LibraryTypeOK` | `Sound` |
| `TablesAlwaysSound` | `TablesAreSound` | `Sound` |
| `AnnouncedAlwaysHeld` | `AnnouncedPathsAreHeld` | `Sound` |
| `NamesakesAlwaysSurvive` | `NamesakesSurvive`, if only hide, retry and changes from outside are requested | `Sound`, `NamesAreTaken` |
| `PartsAlwaysHaveMakers` | `PartsHaveMakers`, if nobody renames or extracts | `Sound`, `NoRenaming` |
| `CopiesFollow` | `CopyFollowsTable` | `CopyInv` |
| `CalmReadersSee` | `CalmReadersSeeTheTable` | `CopyInv`, `CalmInv` |
| `LoneRewritesSettle` | `LoneRewriteSettles` | `JarInv` |
| `TagsAlwaysMatch` | `TagsMatchCollections` | `LabelInv` |
| `LabelsAlwaysKept` | `LabelsAreKept` | `LabelInv`, `TaggedAreNamed`, `CollectionsDistinct` |
| `ReadersMissNothing` | `PagesMissNothing` | `PageInv` |
| `PendingAlwaysTaken` | `PendingIsTaken` | `BotInv` |
| `AttemptsAlwaysUseTheMessage` | `AttemptsUseTheLinksMessage` | `BotInv` |
| `SummariesAlwaysReplaceButtons` | `SummariesReplaceButtons` | `BotInv` |
| `RevocationHolds` | `RevokedLinksStayDead` | `LinkInv` |
| `StalePartsAlwaysAnnounced` | `StalePartsAreAnnounced` | `HubInv` |
| `SilenceAlwaysComplete` | `SilenceMeansComplete` | `FetchInv` |
| `FailuresFollowWindow` | `VerdictsFollowWindow` | `RetryInv` |
| `RetriesEndInTime` | `BackoffsFitWindow`, which no run checks | `RetryInv` |

The argument. `TypeOK` is not inductive: a step of a worker uses `worker[w].job`
as an id and its verdict as a status, so `Assigned` adds that whoever is at work
has a job and a worker about to write has a verdict. `DownloadQueueProofs` then
states once what each kind of process may do to a row and to the others' work
(`RequestTable`, `RequestWork`, `ClaimEffect`, `WorkingEffect`, `VerdictEffect`,
`ReleaseEffect`, `ResolverTable`, `ResolverWork`), and the theorems use these
lemmas instead of the thirty-odd actions. `RetriesInHand` is needed because a
worker carries a copy of the count and writes it back later. `FreshIds` says
that an id without a row yet is in the supply or in one playlist, once, and that
nobody works for it; it rules out that a job created later collides with a
worker or a resolver still holding a deleted one. `OneWorkerPerJob` adds in which
statuses the row of a job in work may be (running, cancelled, deleted): none of
them can be claimed. Redownload breaks exactly this, because it resets a row
whatever its status is when the statement runs.

`DownloadQueueFates` is about what the table says a job has come to. Most of its theorems
are about an interface without the requests that break them, and the hypothesis of each names
these: Redownload resets a row in any status, CancelAll marks
the rows of workers it has not stopped (`cancel_all` shows the latter). `RunningWork` says that
the row of a worker's job is never cancelled under it: a cancellation reaches a job at work
through the registry, and the worker writes the row itself, as its last step. `StagingIsSwept`
needs no hypothesis and no other invariant: no worker runs between a start and its sweep, and a
worker has a directory from `Register` to `Release`. `CalledOffLast` says that
a resolver is called off only after its row has left "checking", so that a cancellation does
not leave a placeholder behind. For the refinement an id counts as new until
it has a row: `IdsAreNotLost` shows that it stays in the supply or in a playlist until then,
`RowMoves` and `BornRow` go through the statements, and `SeenMoves` puts them together, one
way of `JobLifecycle` for what is seen of one id.

`Orderly` is the invariant of the operations: what a lane knows of its operation
agrees with the row as long as there is one (`LaneInOrder`), so that its verdict
is not written over a row of another lane; two lanes never share a row because
the class of a kind decides its lane (`OneLanePerRow`). `LaneMoves` and
`OthersMove` say once what a step of a lane, or of anybody else, must leave alone;
`RowMoves` says how a row may change, from which the wake-up and the orphan
theorems follow. `OrphansAreCounted` adds that the set counted in
`RunningHasLane` is finite, which any number of operations needs.

`Sound` is the invariant of the library: the tables have their shape, and whoever
is between two steps holds the row, the path and the job it will use next (a
`CHOOSE` over an empty set of rows would say nothing about a type). What a
statement does to the tables is proved once (`UpsertKeeps`, `DeleteItemsKeeps`,
`DeleteJobsKeeps`, `JobsChange`, `MarksChange`), and each kind of process uses these
(`LoaderKeeps`, `ScanKeeps`, `CheckKeeps`, `BeginKeeps`, `WorkKeeps`,
`RestartKeeps`). `NamesAreTaken` says that where a worker is about to move its file
lies the stub it created, and that no two workers hold one name; without it the move
might meet a file. `PartsHaveMakers`
is nearly inductive by itself; `NoRenaming` keeps out the requests that reserve a name or leave
a partial file of ffmpeg, of which the property does not speak.
Besides the constants being what they are named, the proofs
assume that there are ids enough for the rows of the start (`ThereAreEnoughIds`).

`CopyInv` holds what makes the copy safe: the mutex is held by exactly the one who loads
(`HolderLoads`), and what is about to be stored is the table, or a writer has still to
invalidate (`StoredCopyIsCurrent`), which it cannot do before the loader has let go of the
mutex. `CalmInv` adds that beside a calm reader nobody is between a write and its
invalidation (`NoWriterBehind`), so that each field it has taken so far is that of the table
(`TaskInOrder`).

`LinkInv` says what an address can be: one that was answered leads to the item it was answered
for or nowhere (`GivenKeepsItem`), a revoked one was answered and is nowhere
(`RevokedAreDead`), two requests about to answer one address do so for one item
(`AnswersAgree`), and a request works with one address (`OneAddress`) of which it still knows the
item unless it has been overtaken (`ClientInOrder`). So a revocation finds every address given
out for its item among the rows it deletes, however many requests raced to insert one.

`JarInv` follows a request nobody overlaps (`LoneInOrder`): what it merged is still the table
when it opens the file, the file is empty when it writes, and an empty table is what makes it
remove the file. The others are idle meanwhile, which is what "nobody overlaps" has to mean at
each step.

`LabelInv` adds to `TagsMatchCollections` that the tag of a collection has a name
(`CollectionsAreNamed`), so that it cannot be taken for a row that is not there.
For `LabelsAreKept` a tag with jobs has a name as well (`TaggedAreNamed`) and no two
collections share one (`CollectionsDistinct`); `TagFates` says once which steps let a tag lose its
row, and the theorem needs nothing else of the statements.

`PageInv` is about order. `created_at` orders the stored rows (`NewestFirst`), and the rows of a
listing have as many rows above them as there are places before them: the ranks 0, 1, ... up to
their number (`RankIsBijection`, from the library's facts on finite sets and bijections, as there is no
induction to count with). So a page that is not full is the last, and the number of rows says how many there
are behind a full one (`WindowSize`). What is owed lies beyond what was shown (`OwedLiesAhead`): a row that arrives
comes on top and moves the owed ones down (`InsertKeeps`), one that is deleted without having been
listed moves nothing (`RemoveKeeps`), and one that leaves the list ends what is owed. When there
is no button, no rank is left beyond what was shown, and nothing is owed.

`RetryInv` says of the row and of every copy of it (`InWindow`) that the age of the first failure is at least
the sum of the backoffs since, which goes through every write of a stale copy because such a copy has
the count and the instant of the same attempt. The sum is a closed form
(`Units`), and `UnitsStep` is all that is needed of it; it rests on 2^(n+1) = 2^n + 2^n (`PowerDoubles`), which the provers,
who have no axioms for powers, know through the library's fact on the number of subsets.
`InstanceConstants` asks that `MaxAttempts` be the attempt at which the sum outgrows the window;
there is one whenever the base is positive.

The bot. `BotInv` says three kinds of things. Of everybody: whoever holds the id of a message, a row, a
worker, a button or `pendingMsgs`, holds one of its own job (`MessagesNameTheirJob`), so that no
edit turns the message of another job into one with a stop button; and only a link has an entry in
`pendingMsgs`, while its handler or the bot's own check is under way (`EntryHasItsCheck`). Of a
link that is not marred early: until the message is stored nobody checks it and no worker has
it (`LinkWaits`), and afterwards its row and its workers have that message (`LinkIsStored`). Of
one that is not marred at all: the bot alone checks it (`OneCheck`), `pendingMsgs` leads to its
message until that check takes it (`EntryIsTheMessage`), and as long as the row is a
placeholder or expanded no other message offers to stop it (`FreshIsUntouched`); so the one
that is to become the summary is the only one. Crashes, purges, cancellations and any number of later
checks are in the specification of the theorems; what they break is what `marred` records.

`HubInv` needs besides the property only that what is gathered has a timer and that a page
without a connection has no channel and one that is not open shows nothing.

`FetchInv` counts. What was printed is in the pipe or was read; what was read is in the reader's
hand, in the channel or with the pool, unless the job was cancelled (`FilesConserved`; the lemmas `FilesInAppend` and
`FilesInTail` do the counting with the library's facts on cardinality). A reader that stopped before
the end of its pipe, and a process killed by its deadline, have an error in the channel or told before
the channel is closed (`FailuresReported`).

The type invariants of the small modules are part of these invariants; no run spends a property on them.

The constants of the small components are those of `MCServices` and `MCStreams`, so that a theorem
about a component holds for any of their values that satisfies `InstanceConstants`; TLC takes
them from `services.cfg` and `streams.cfg`.

Only model-checked: `RunEnds`, `PagesCatchUp`, `QueueDrains`, `LanesAreIndependent` and
`LibraryHeals`, since liveness under fairness is out of the prover's reach. Every other property of a passing run
is stated by a theorem, some of them under the hypotheses of the table.

## What is not modelled

- *Database.* Migrations run before anything else does; that one writer connection makes a
  statement atomic is what all modules assume.
- *HTTP API and authentication.* Decoding of requests, a signed session cookie, headers:
  stateless. Handlers that make several calls are modelled with the component they call.
- *Rendering, the command line of yt-dlp, log texts, formatting of messages*: no guard reads them.
- *Of modelled components*: database errors inside `process` (but for its last statement, in `RetryBackoff`) and in the bot; requests given up
  by their client between two statements; the wait of `cmd.Wait` for grandchildren that keep a
  pipe open (`WaitDelay`); yt-dlp writing back the cookies file it was given, and which lines of
  an import are comments; the tag cloud and the lists of hidden and deleted entries, `/last` and `/search` of
  the bot, which only read; file cards; metadata written into a file.

## Plan

1. Requests abandoned between two statements and failing statements in
   `DownloadQueue`, for Redownload and the last Update of `process`.
2. Proofs: the composition of the queue's refinement with the messages of the bot, whose
   statuses are those of `JobLifecycle`.
