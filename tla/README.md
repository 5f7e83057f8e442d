# A formal model of open-ffmpeg-transcoder

TLA+ modules of the job system of this repository, TLC configurations that
check them on small instances, and TLAPS proofs of the main safety results for
every size of the system.  Paths below are relative to the repository.

## 1. Inventory

| Part | State it keeps | Operations | Talks to |
|---|---|---|---|
| Job API (`internal/api/handlers/jobs.go`) | none | Create, List, Get, Delete, Retry | jobs table, task queue |
| Upload management (`handlers/media.go`) | none | Uploads, DeleteUpload, Share, players, HLS proxy | jobs table, S3 |
| Jobs table (`internal/database`) | one row per job: status, progress, error, times | INSERT, UPDATE and DELETE by id, each its own statement | everybody |
| Task queue (asynq on Redis, external; `worker.EnqueueJob`) | tasks: queued, active with a lease, done, archived | enqueue, deliver, retry, archive, recover, requeue | API, scanner, workers |
| Worker (`internal/worker`) | a handler goroutine per delivery; `TEMP_DIR/<job>` on its own node | `HandleTranscode`: read, mkdir, download, thumbnail, transcode, upload, settle, webhook, cleanup | all of the above, ffmpeg, storage |
| FFmpeg (`internal/transcoder`) | a child process, a goroutine that reads its progress | Run, Thumbnail, argument builders | worker (callback) |
| Storage (`internal/storage`) | objects or files | Download, Upload (one object after the other), DeletePrefix, ListObjects | worker, media, scanner |
| Bucket scanner (`internal/scanner`) and source upload (`handlers/system.go`) | one loop per node, none of its own | list, check the table, insert, enqueue | S3, jobs table, queue |
| Webhooks (`internal/notify`) | none | SendWebhook with retries | worker |
| Rate limiter (`api/middleware/ratelimit.go`) | a map from address to count and time, a cleaner goroutine | RateLimit, cleanupVisitors | every request |
| Migrations (`database.Migrate`) | `schema_migrations` | run by every process that starts | PostgreSQL |
| Settings (`internal/appsettings`, `internal/config`) | `app_settings` rows over environment values | Load, Save | API, scanner, workers |
| Presets (`handlers/presets.go`) | rows of `presets` | create, read, update, delete | worker, which reads one when a job runs |
| Dashboard, sessions, analyzer, probe | cookies, measurements | rendering, checking, scoring | - |

What makes the system hard: nothing ties its actors together but the row of a job.  Every
statement changes it by id alone (`WHERE id = $1`), requests read it once and act on
what they saw, a handler reads it when it starts and not again before its webhook,
errors of most statements are ignored, the queue delivers a task again after a crash, a
missed deadline or a shutdown while the first handler may still be running, and the two
handlers then share a directory, or, on another node, know nothing of each other's.  A
process that ends takes all its handlers and requests with it.  Around the jobs, several
nodes scan one bucket and migrate one database without a lock of their own, settings
change under running scans, requests save overlapping ones, and webhooks are goroutines
nobody waits for.  The hazards, each at its line, are in `PROJECT.json`.

What makes each part correct:

- rows: the columns agree; a deleted row stays deleted; an active row always
  has somebody who will move it on; every active row is settled in the end;
- output: completed means that all of the output is there and that the row says
  100 percent; working directories do not pile up on any node; what is shown as
  playable plays, with sound, and with nothing of an earlier run in it;
- deletion: a video that was deleted stays away, source and output, and nothing of
  another video goes with it;
- all of it: a job that was accepted is owed an end until it has one, and only a
  fault can make the system lose it, and no fault more jobs than one process has in
  hand;
- scanner: every video gets a job in the end, none gets two, no output is taken
  for a source;
- migrations: each takes effect once and in order, a process serves only the
  schema of its binary, colliding processes all get there;
- settings: the table is always one whole form, a secret is never lost, every
  request ends although rows are locked in random order;
- rate limiter: no minute serves more than the limit, the map does not grow;
- webhooks: all attempts are made, none of them is needless, each goroutine ends;
- clients: what the documentation says of all this; not all of it holds
  (section 5).

## 2. Modules

| Module | Models |
|---|---|
| `JobTable` | a row of `jobs` and the statements of `database.go` on it |
| `TaskQueue` | the asynq queue as the code uses it |
| `JobLifecycle` | requests, handlers, faults; composes the two above |
| `JobContract` | abstract: what is owed to who submits a job; `JobLifecycle` implements it |
| `UploadCleanup` | `DeleteUpload` against scans, handlers and other deletions; the keys of the outputs |
| `HlsOutput` | settings, presets and ladders, the files of a run, the player |
| `Scanner` | scans, uploads, job creation on several nodes |
| `ScannerContract` | abstract: who may make a job for a video does so once; `Scanner` implements it |
| `Webhook` | `SendWebhook`, receivers and the end of the process |
| `Migrations` | `Migrate` on several nodes |
| `Settings` | `Load`, `Save` and `UpdateSettingsMap` |
| `RateLimit` | the middleware and its sweep, with discrete time |
| `MC...` | instances for TLC, where they need symmetry sets or other definitions |
| `JobLifecycleProofs`, `HlsOutputProofs`, `UploadCleanupProofs`, `ScannerProofs`, `WebhookProofs`, `MigrationsProofs`, `SettingsProofs`, `RateLimitProofs` | theorems |

A definition whose comment begins with "Mutant" is no part of a model.  It is
a plausible mistake in the operator that follows it; with it the property named
in `PROJECT.json` fails, which shows that the property sees that code.

### JobLifecycle

Each statement, storage call and queue call of a request or a handler is a step of its
own; `pc[h]` is the next statement of handler `h`, `reqPc[r]` of request `r`.  A job is a
model value; its row is `jobs[j]`, what its output URL holds `stored[j]` (none, partial,
full).  `Host` says which process of `main`, a node, a handler or request belongs to; a
node has at most `Reach` of them (`MAX_WORKERS` handlers, and the requests it
serves).  `work[<<n, j>>]` is the directory of job `j` under the `TEMP_DIR` of node `n`
(absent, empty, input, partial, output): handlers on one node share it, those on others
do not see it.  `attached[h]` says whether the queue still waits for the handler; after a
deadline or a shutdown it does not, and the handler goes on, because `HandleTranscode`
ignores the context it is given.  `mishap`, `events` and `deserted`, the directories
whose handler was killed and to which no later one has come, are history variables that
no action reads.

| Code | Actions |
|---|---|
| `JobHandler.Create` | `Create`, `CreateEnqueue`, `CreateFail` |
| `CreateJobForKey`, `UploadSource`, `scanOnce` (row, then task) | `Create`, `AutoEnqueue` |
| `JobHandler.Delete` | `DeleteRead`, `DeleteCancel`, `DeleteRow` |
| `MediaHandler.DeleteUpload` | `DeleteRead`, `DeleteCancel`, `PurgeOutput`, `DeleteRow` |
| `JobHandler.Retry` | `RetryRead`, `RetryPending`, `RetryProgress`, `RetryEnqueue` |
| `Handler.HandleTranscode`, `failJob` | `RunRead` ... `RunReturn` in the order of the code |
| `FFmpeg.Run`, `parseProgress` | `RunTranscode`, `RunEncoded`, `ReportProgress`, `ReadingEnds` |
| asynq | `Dispatch`, `Deadline`, `Recover`, and what a return does to the task |
| `Worker.Stop` | `Shutdown`: all unfinished tasks of the node are put back |
| end of a process | `ProcessEnds`: all handlers and requests of the node are gone, its directories stay |

An ignored database error is the second disjunct of `Write`.  A storage,
ffmpeg or file error needs no fault budget: the failing branch of each step can
always be taken.  `ReportProgress` is the callback of the goroutine that reads
ffmpeg's output.  `Run` starts it and does not wait for it, so that it may report
when its handler is done with encoding, or with the job; `mishap` then has "late".

### JobContract

A job has a phase: unborn, owed, settled, lost or gone.  `Phase` in JobLifecycle is the
refinement mapping: a row is settled when its status is, gone when it is deleted, and an
active row is owed while somebody will move it on (a task that will run, a handler at
work, a request about to enqueue) and lost otherwise. `KeepsContract` says that each
step of a request, a handler, the queue or the recoverer is one move of one job, or
none, and that owed turns into lost only by a fault (`Upset`), of as many jobs at most
as a process has in hand.  `EventuallySettled` is the liveness of the contract,
`DebtsArePaid`, under the fairness of section 4.

### UploadCleanup

`bucket` holds objects with the video they were made of, since two videos may lead
to one key.  A key is a sequence of atoms: `outputPrefixForKey` composes it from the
prefix, the cleaned file name and the hash, or from a template, and `Under` is what
`DeletePrefix` lists, which trims the slash that ends the prefix.  A request lists
and deletes page by page (`passed`), but for keys S3 refuses to delete, which
nothing in the code notices; it then deletes the source, then the row, and its
answer may carry a warning.  A scan works through the list it has fetched; a handler
looks at the status once, downloads, and puts one object after the other; what else
happens to rows is one step each (JobLifecycle has the whole of it).  `disturbed`
and `gone` are history.  A deletion is disturbed when a handler of the video was
past its look at the status, when a settled job still had a task, when a job of
the video started during the purge, or when S3 refused a key: nothing in the code
tells a handler that its video is being deleted, or a request what S3 has refused.

### HlsOutput

One job, run after run.  `settings` is what `Resolve` makes of the row and of the preset,
which `UpdatePreset` may change or remove at any moment; `Probe` puts the number of
audio streams in or fails without effect; `Encode` adds the files of `BuildArgs` to
`local`; `Upload` sends them one by one to `stored`.  A file is a folder and a name, its
content the run that wrote it, the files it names, whether it has sound and whether it
is whole.  The name of a rendition is a word (small letters, digits, `-` and `_`) and a
spelling, which `cleanRenditionName` loses; variants that meet in one folder (`Shared`)
overwrite each other's files, and none of these is whole.  `Picture` captures the
thumbnail, names it in `output_info` (`info`) and sends it early; each of these may fail
without an effect on the run. `Crash` leaves `local` behind, `Fail` and `Complete`
remove it as the deferred `RemoveAll` does.  `PlayerAsksFor` follows the playlists the
HLS handlers serve from `master.m3u8` on.  The walk of the directory follows the names:
the order of files within a folder is the code's, that of folders is left open, since
the model does not spell their names out. What ffmpeg writes for given arguments is
external.

### Scanner

`bucket` holds sources and, as generation 1, segments of outputs, each at a place.
`settings` is an output prefix and a template, which `ChangeSettings` may replace at any
moment; an actor goes on with those it has loaded (`using`).  A prefix is a list of path
elements: `Covers` compares it with a place as it stands, as `HasPrefix` does,
`outputPrefixForKey` cleans it first, as `path.Join` does.  A scan is `ScanStart` (load,
list, `shouldProcess`), then `ScanCheck` per object (ask `HasScannerJobForSource`),
`CreateJobForKey` and `EnqueueJob`, each a step, with a failing branch that goes on with
the next object or ends the scan as the code does.  `UploadSource` is the same from the
upload on.  What the workers and the API do to rows meanwhile (`Start`, `Complete`,
`Fail`, `Cancel`, `Delete`, `Retry`, and `Overlap` for a second handler of the same
task) is reduced to the status; JobLifecycle has the whole of it.  `revived` marks rows
that were live again after they had failed by something other than a scan; `past`, all
settings so far, is history.

### ScannerContract

A job that counts for `HasScannerJobForSource` is a claim to a video by whoever made
it.  `Claim` in Scanner is the refinement mapping: a live row is a first claim, or one
that was brought back, and any other row none.  The contract has no lists, queries,
tasks or program counters: a maker that has no claim to a video, of those it may take
(`MayClaim`: sources, its own file for an upload, and outputs only where some settings
do not exclude them), makes one; a job ends, or is brought back, by an incident; nothing else
happens.  `KeepsContract` in Scanner says that every step of the loops, uploads, workers
and clients is one of these moves or none.

### Webhook

`pc[e]` is a goroutine of `SendWebhook`; `wire`, `arrived` and `accepted` are
requests on their way, got and answered with 2xx.  An answer may come too late, be
lost or never be given; the sender cannot tell these apart, which is why `NoAnswer`
is always possible.  Durations are left out: a timer may fire at any time.

### Migrations

`schema` and `recorded` are what is committed; `Execute`, `Record` and `Commit` are
the three statements of a transaction.  A second process waits for the locks of
the first (`Holds`) and then fails, or finds an idempotent script done.  A COMMIT
may take effect although its answer is lost.  `Start` picks a binary; `Fatal` ends
a process and docker restarts it.

### Settings

A request takes its form's keys in any order, waits for rows other requests have
locked, and commits or rolls back; a COMMIT may take effect although its answer is
lost.  PostgreSQL ends one request of a deadlock.
A key is a text, a number, the secret or the ladder, by what its default and its
treatment of blanks are; the secret is stored untrimmed.  A ladder is the set of its
rungs, each with its place; `normalizeLadder` drops those without a size or a video
bitrate, puts an audio bitrate in where it is blank, and takes the default when nothing
is left.  `Load` is what a reader of the settings makes of the table.

### RateLimit

`now` counts ticks, `Minute` of them to a minute; `log` records the answers and is
read by no action.

## 3. Runs

The passing runs finish, and between them every action is taken.  A run with
fairness checks its safety properties in the same pass.

| Run | Bounds | Shows |
|---|---|---|
| `lifecycle` | 1 job, 2 tasks, 2 handlers on one node, the requests on another; 2 requests and any 1 of: lost statement, refused enqueue, shutdown, end of a node; or 3 requests and no fault (`Bounds`) | rows agree and are driven; completed means all output and 100 percent; the handlers of a job take turns; deleted stays deleted; the contract is kept |
| `worker_stops` | 1 job, 1 task with 1 retry, 2 handlers on two nodes, any 2 of: lost statement, missed deadline, end of a node; fairness | a worker that stops step by step while its task is delivered again, there or elsewhere; directories are removed, but for those of killed handlers; debts are paid: every job that is owed an end is settled, removed or lost to a fault |
| `cleanup` | 2 videos of one name in two directories, 2 deletions, 1 handler, 2 jobs, 2 parts, any 1 incident of 7 kinds | a deletion nothing has disturbed is final, and no deletion takes anything of another video |
| `scanner` | 2 nodes, the video of 1 upload, 3 jobs, 3 settings (the default, a template under the same prefix, a prefix that is cleaned), any 2 incidents of 10 kinds | one node makes one job; outputs are no sources while every prefix covers them; the contract is kept |
| `scanner_liveness` | 2 nodes, 1 video, 4 jobs, 2 settings, 2 incidents; fairness | no video is overlooked |
| `hls_output` | every ladder of up to 2 renditions of 6 kinds (no name, odd, `720p`, `720P`, one like an index; one without a size), and of 3 whose first is dropped and whose last has the name of an index; 32 requests, 3 states of the preset; 2 runs | what is shown as playable plays, with sound and with the picture promised; renditions whose names and heights differ are whole and apart |
| `migrations` | 3 nodes, 3 versions, 2 incidents; fairness | once, in order, served only when done; all nodes serve |
| `settings` | 2 requests, 4 keys, 8 forms, ladders of up to 3 rungs, 2 incidents (a request cut off, a lost answer); fairness | one form, which is what is loaded; the secret; every request ends |
| `webhook` | 2 events with 2 retries; fairness | attempts end for a reason, duplicates follow failures, every notification ends |
| `rate_limit` | 2 clients, 5 requests, limit 2, a minute of 2 ticks, 7 ticks | the limit, the sweep |
| `doc_event`, `doc_merge` | as small as they can be | two statements that do not hold (section 5) |

Why these bounds are enough to see what can go wrong: jobs share nothing but the queue's
slots and the process that may end, so one job with several requests, tasks and handlers
has every interleaving on a row and a directory (what the end of a process does to
several jobs at once is proved for every number of them); two handlers are the least
that overlap, one node for both the least where they share a directory (`lifecycle`),
two the least where one does not see the other's (`worker_stops`), a second task the
least that a double retry makes, three requests the least for a create and two that
race; with a fault there is a create and one more.  Two tasks with one retry give four
deliveries.  After a fault `lifecycle` takes a handler that reports late only where the
report can still matter (`Bounds`), and its states leave out `events` (`AllButEvents`),
which no action and no property of that run reads.  Missed deadlines are left to
`worker_stops`.  In `cleanup` two videos are the least for a purge that hits the wrong
one, two jobs the least for a second one of the same video, two parts the least for a
listing that has passed the key of the part a handler puts next; two incidents and two
handlers with a single deletion leave nothing else to find (1.7 million states, checked
once), nor do videos whose names only begin alike (`Videos <- BeginAlike`).  Two scanners
are the least that collide; four jobs leave room for two incidents after the first
two.  Three nodes are the least where one waits, one fails and one commits.  Two rows are
the least for a deadlock of two requests.  Three settings are one that is left, one that
leads to another place under the same prefix, and one whose outputs its own scans do not
exclude.  Two runs are the least for old files to meet new ones, and a third rendition
matters only after one that is dropped, where positions shift.  All counters that the
code does not bound itself (faults, incidents, runs of HlsOutput, the clock, requests)
are bounded by a constant named so in its module.  Deadlock is not checked: requests are
served once and counters end, so all of these models stop.

## 4. Fairness

- `JobLifecycle`: requests that have begun and handlers go on (goroutines of a
  running process; a crash ends them as an action of its own), free workers fetch
  tasks, asynq recovers tasks whose lease ran out.  Nobody has to send requests,
  and no fault has to happen.
- `Scanner`: the ticker goes on and so do workers.  Nobody has to upload or retry.
- `Webhook`: goroutines run and the client's timeout of 30 seconds ends every wait.
  Receivers need not answer.
- `Migrations`: a process runs, and `docker/docker-compose.yml` restarts one that ended.
- `Settings`: a request whose statement can run runs it, and PostgreSQL finds deadlocks.

All of it is weak fairness: each such step stays enabled until it is taken.

## 5. What does not hold

Each of these runs checks one sentence of the documentation or of a comment, and
TLC shows a behaviour of the code against it.  `PROJECT.json` quotes the sentence.

| Run | What happens |
|---|---|
| `doc_event` | a failed run sends `job.completed` when a retry comes before the handler reads the row again |
| `doc_merge` | a job with a preset loses its own HLS ladder |

What the documentation says of `job.completed` does hold of a job that no second
request touches, whose handlers do not overlap and whose settling statements reach the
database: section 6 proves it (`NewsOfOneRunIsTrue`).  No run checks that one, since
the view of `lifecycle` leaves the events out.

Others were met in the source while the models were written.  No run checks them;
the actions named here show them.

| Documentation | Code |
|---|---|
| `docs/API.md`:170: DELETE cancels a running job | nothing tells the handler, which transcodes and uploads on (`RunRead` is the only step that looks for cancelled) |
| `docs/API.md`:399: a cancelled job sends a webhook | no code does (`DeleteCancel` adds no event) |
| `docs/API.md`:178: a retry resets progress to 0 | a late `ReportProgress` of an earlier handler sets it again |
| `docs/ARCHITECTURE.md`:146-150: the order of statuses | `RunSetDownloading` sets a job that was cancelled after the read to downloading |
| `README.md`:16: new videos are transcoded once | two scanners, or a scanner and an upload, may both find no job (`ScanCheck`, then `CreateJobForKey`) |
| `README.md`:160: skips what is queued or completed | it also skips a row whose enqueue failed (`EnqueueJob`) |
| `docs/ARCHITECTURE.md`:129: a finished job sends a POST | main may return before the goroutine has posted (`Shutdown` in Webhook) |
| `README.md`:180: one folder per rendition | `720P` and `720p`, or `HD 720` and `HD720`, share one and overwrite each other's segments (`cleanRenditionName`, `Shared`) |
| `docs/ARCHITECTURE.md`:167: working directories are removed after completion | that of a worker that crashed stays on its node when the task is delivered to another one (`ARCHITECTURE.md`:175 adds nodes), though the job completes there (`ProcessEnds`, `RunMkdir`; `deserted`) |
| `README.md`:182: settings can be changed in the dashboard | a value that is cleared comes back from the environment (`Load`); rungs of a ladder without a size or a bitrate are dropped, and a ladder that cannot be read is replaced by the default, without a word (`normalizeLadder`); after a change of the output prefix the segments below the old one are taken for videos (`ChangeSettings`, `Covers`) |
| `docs/ARCHITECTURE.md`:164: 300 requests a minute | a client that stays below that but never pauses for a minute is refused in the end (`RateLimit`) |
| `README.md`: the scanner writes `index.m3u8` | it writes `master.m3u8`, as another place of the README says |
| `media.go` `Thumbnail`, `thumbnail_ready` | a capture that failed may leave an empty or broken file, which is taken for the thumbnail at the end (`Picture`, `Encode`) |
| `web/static/js/app.js`:198: deleting removes source, output and record | the record goes even when objects could not be deleted, or are still being put, and the page does not show the warning; keys that S3 refuses to delete (`s3.go`:318 drops the `Errors` of the answer) are counted as deleted and not even warned of (`PurgePage`, `DeleteSource`, `RunPut`) |
| `docs/API.md`:178: a cancelled job can be retried | its handler may still be at work and complete the retried row; the task of the retry stays queued and `DeleteUpload` does not cancel it (`StillQueued`) |
| `README.md`:184: `trailer.mp4` is stored at `trailer/hls` | so is every other `trailer`: the later output overwrites the earlier one, and deleting either removes both (`OthersKeepTheirOutput` fails with `Template <- NamedPlaces`) |

With outputs in the scanned bucket and prefix, only the output prefix of the settings
keeps a scan from taking their `.ts` segments for videos.  A template such as the
README's `file_base_name/hls/*` leads around it; so does a prefix with an empty or dot
element, which `path.Join` cleans and the comparison does not; and a new prefix no longer
covers what was put below the old one.  `OutputsAreNoSources` is therefore stated for
settings of which each, so far, has covered where each, so far, has put outputs
(`Contained`); TLC shows a segment transcoded again when that condition is left out.

## 6. Proofs

TLAPS checks these for every value of the constants, from the named assumptions
of the modules (sets that are disjoint, bounds that are natural numbers, ladders
that are sequences of renditions, each handler and request on one node and no more than
`Reach` of them on any) and, for some of them, from an assumption in the
theorem itself.  Three are about names: `DistinctKeys` (no key is
that of two sources, or of a source and an output), `KeptApart` (no purge lists the
output of another video) and `UniqueNames` (no template, no two keys with one hash,
no file name that contains another's hash).  The last one implies the second, and
all of them hold in the instance of `cleanup`.  `LossesAreBounded` assumes that the set
of jobs is finite, `DuplicatesAreBounded` that of nodes.  `CompletedIsDelivered` is
about systems whose tasks neither run into their deadline nor are put back by a
shutdown (`FaultKinds` without these two); all other faults may happen, as often as
`MaxFaults` says.

| Theorem | Says | Along |
|---|---|---|
| `JobLifecycleProofs!TypeCorrect` | `TypeOK` | inductive with `Wiring`: which task, job and handler refer to each other |
| `!NoJobForgotten` | `ActiveJobsAreDriven` | `Wiring` and the property together; `Stranded` never ends once it holds, and each step hands a driven row on to another driver, settles it or strands it |
| `!RowsAlwaysAgree` | `RowsAgree` | rows change only through the statements of `JobTable`, and each of these keeps the columns in agreement |
| `!NoResurrection` | `DeletedStaysDeleted` | the same: no statement inserts but `CreateJob`, and that one takes a new id |
| `!CompletedIsThere` | `CompletedHasOutput` | what a handler has put stays until a purge; a run that overlaps another fails it or puts all of it again |
| `!DirectoriesDoNotPileUp` | `DirectoriesAreRemoved` | `RemovalDeferred`, `NoneIsLeft`: who makes a directory, or makes it again after another handler's removal, has deferred its removal and stays on its node; only the end of the process skips it, and the next handler there takes it over |
| `!CompletedSaysAll` | `CompletedIsFull` | `Excused`: a completed row below 100 has a handler that will set it, a driver, or a mishap; reports of a handler at work never make it wrong |
| `!ImplementsContract` | `KeepsContract` | one move per action; `Wiring` says whose task or handler a step concerns, so that no other job's phase changes |
| `!LossesAreBounded` | no more jobs are lost at any time than faults have struck times `Reach` | from the contract alone, through the refinement, which needs that the jobs a process has in hand are no more than its handlers and requests (`ConcernedAreFew`) |
| `!TurnsAreTaken` | `HandlersTakeTurns` | `Provenance`: every task was enqueued by a request about its job, and no request enqueues two; two attached handlers have two tasks, hence two requests |
| `!CompletedIsDelivered` | `LeftAloneIsDelivered`: a completed job that no second request has touched has all of its output, however its workers crash and are replaced | `Awaited`: without deadlines and shutdowns the queue waits for every handler, so that two of them never overlap by `TurnsAreTaken`; `Explained`: the mishaps that excuse missing output do not happen then |
| `!NewsOfOneRunIsTrue` | `NewsIsTrue`: what is left of the documentation's `job.completed` (`doc_event`): the event of a job that is left to itself tells its outcome, unless its submitter was told that the queue had refused it | `RowsSayOutcome`: from the settling statement to the notice nothing rewrites the row, since `Alone` and `Provenance` leave only this handler and the submitter; `Refusals`: the submitter fails a job only after the queue's error |
| `UploadCleanupProofs!DeletionIsFinal` | `DeletedVideosStayAway`, given `DistinctKeys` | `FinalInv`: in a purge nothing disturbed and of whose keys none was refused, nobody is at work on the video, what the listing has passed stays empty, and a listing without a warning has passed all of it |
| `!PurgesSpareOthers` | `OthersKeepTheirOutput`, given `KeptApart` | `PutsStay`, `OutputsStay`: what is put stays put while its job is at work, and then while it is completed |
| `!UniqueFoldersKeepApart` | `UniqueNames` implies `KeptApart` | a folder whose name is a prefix of another's would have the hash in the middle of it |
| `ScannerProofs!NoDuplicatesOfOneNode` | `OneJobPerMaker` | `NoneYet`: an actor about to insert has no live job for the object |
| `!OneScannerTranscodesOnce` | the README's "once", with one scanner, no uploads, retries or overlaps | `NoRevivals` besides |
| `!DuplicatesAreBounded` | with any number of scanners a video has no more live jobs than there are nodes, uploads of it and incidents | `OwnVideo`, `RevivalsCounted`: live jobs that were never revived have different makers, and each revival was an incident of its own |
| `!OutputsIgnored` | `OutputsAreNoSources`, whatever settings follow each other | `OnlyEligible`: what is listed, current or in a row is of generation 0, or some settings do not cover it and `Contained` has been lost; outputs lie where some settings so far have led |
| `!ImplementsContract` | `KeepsContract` | one move per action, with all of the invariants above: `NoneYet` makes an insertion a first claim, `OwnVideo` and `OnlyEligible` make it, and what a retry brings back, one that may be made |
| `HlsOutputProofs!SizedRenditionsAreKept` | of a ladder of any length, `validRenditions` keeps those with a size, each once and in order | `SetInduction`: a set of numbers that holds 0 and with each number the next holds them all, from the least element it would lack |
| `!PlayableVideosPlay`, `!NoSoundIsLost`, `!RenditionsStayApart` | `PlayableIsPlayed`, `SoundIsKept`, `NamedApart` | `Delivered`, `SettingsFit`: from the end of encoding on, `local` and then `stored` hold every file of this run's ladder with its content; `FollowedFrom`: a player that starts at `master.m3u8` asks for no other; `FoldersDiffer`: renditions that can be told apart have different folders, so that none is shared |
| `!PromisedPictures` | `PictureIsThere` | `PictureComes`: an announced picture is stored, or still to be sent with the directory |
| `WebhookProofs!AllAttemptsAreMade`, `!DuplicatesFollowFailures` | `EndsForAReason`, `NoNeedlessDuplicate` | `Orderly`: failed attempts are those before the current one |
| `MigrationsProofs!MigrationsApplyOnce`, `!MigrationsInOrder`, `!MigratedBeforeServing` | `AppliedOnce`, `RecordedInOrder`, `ServesMigrated` | `OneHolder`, `CommitIsFirst`, `Reached`, `UpIsDone`, `RunsAreCommits`: locks leave one transaction per version, and a node is past what is recorded |
| `SettingsProofs!FormsDoNotMix`, `!FormIsLoaded`, `!SecretStays` | `OneForm`, `SavedIsLoaded`, `SecretIsKept` | `LastIsSaved`: the form the table shows belongs to a request that has committed and does not change any more; `LadderKeepsRungs`: what `normalizeLadder` keeps of a ladder |
| `RateLimitProofs!NeverOverLimit`, `!MapIsSwept` | `LimitHolds`, `VisitorsForgotten` | `MapAgrees`, `Numbered`, `Swept`: requests of a client that lie within a minute have different numbers of its counter |

Each of the modules from `UploadCleanupProofs` on also proves its `TypeOK`.  The safety
invariants are not inductive as they stand, because a request acts on what it read some
steps ago; the strengthenings named above say what is still true of it then.

`validRenditions` is a recursive function over a ladder, and the library's induction
theorems take an operator that the provers cannot instantiate.  `HlsOutputProofs`
does its inductions over a set instead, from the well-foundedness of `<` on the
natural numbers.

Only model-checked: all liveness (`EventuallySettled`, `EveryVideoIsTranscoded`,
`EveryNodeServes`, `SavesEnd`, `SendEnds`), since TLAPS has no fairness and no
`ENABLED`, and the statements of section 5.  Every safety invariant and action
property the runs check is also proved.

## 7. Not modelled

Storage protocols, ffprobe, HTTP routing, rendering, sessions and API keys, the
analyzer's measurements, presigned and CDN addresses, codecs and bitrates: they
keep no state that several steps could bring into disorder, or they are I/O whose
outcome the models leave open.  `PROJECT.json` lists every part with its reason.

Of the presets, the rows are left out: creating and deleting one is a single
statement, and an update is one UPDATE of the columns the request names.  What a job
sees of them is in `HlsOutput`.  Some hazards in `PROJECT.json` have a note instead
of a property: the order of webhooks, forms that undo each other, notifications
that are lost when main returns, deletions that warn or are refused a key, places that
a template gives to two videos, and links of playlists and presets that are not the
expected ones.  The code promises nothing there that could fail.  A negative
`WEBHOOK_RETRY`, with which nothing is sent, is left out, and `RateLimit` is about one
process: each has a map of its own, which a restart empties.

## 8. Plan

Done: the modules of section 2 and the proofs of section 6.  Next:

1. JobLifecycle composed with Webhook, so that the order of events at the receiver
   can be stated over several runs of a job.
2. Pure functions: `thumbnailTimestamp`, `parseProgress`, `doubleBitrate`,
   the address rules of `childStorageURL` and `safeHLSAssetPath`.
