------------------------------ MODULE Scanner -------------------------------
(***************************************************************************)
(* The bucket scanner (internal/scanner): one loop on every node that runs *)
(* workers lists the bucket, asks the jobs table about each video it       *)
(* finds, inserts a row and enqueues a task, all without a lock or a       *)
(* uniqueness constraint.  POST /uploads (handlers/system.go UploadSource) *)
(* puts an object where the scanners look and then inserts and enqueues a  *)
(* job for it too.  Of the workers only what the scanner sees is modelled: *)
(* a job with a task runs, completes or fails; JobLifecycle has the rest.  *)
(***************************************************************************)
EXTENDS Integers, SequencesExt

CONSTANTS
  Nodes,          \* processes with a scanner
  Uploads,        \* calls of UploadSource, each with a key of its own
  Dropped,        \* videos others put into the bucket
  Jobs,           \* job ids
  NoJob,          \* no job id, no object
  MaxGeneration,  \* how often an output may be taken for a source: a bound
  OutputsListed,  \* do the outputs lie in the scanned bucket and prefix?
  Settings,       \* what the dashboard may set: records of ScannerOutputPrefix
                  \* and ScannerOutputTemplate, as path elements
  FirstSettings,
  IncidentKinds,  \* what may go wrong, and
  MaxIncidents    \* how often: a bound

ASSUME ActorsAssumption    == Nodes \cap Uploads = {}
ASSUME NoJobAssumption     == NoJob \notin Jobs
ASSUME SettingsAssumption  == FirstSettings \in Settings
ASSUME BoundsAssumption    == MaxGeneration \in Nat /\ MaxIncidents \in Nat

Actors == Nodes \cup Uploads

normalizedOutputPrefix(p) == IF p \in {<<>>, <<".">>} THEN <<"hls">> ELSE p

(* What path.Join makes of a path.                                         *)
Clean(p) ==
  LET Join(q, e) == CASE e \in {"", "."} -> q
                      [] e = ".." /\ q # <<>> /\ Last(q) # ".." -> Front(q)
                      [] OTHER -> Append(q, e)
  IN  FoldLeft(Join, <<>>, p)

(* Under what the outputs go; each has a folder of its own there.          *)
outputPrefixForKey(s) ==
  IF s.template = <<>> THEN Clean(normalizedOutputPrefix(s.prefix)) ELSE s.template

(* Generation 0 is a source, n + 1 a segment of an HLS output made from    *)
(* generation n, under what its row said.  Videos come without a path.     *)
Places == {<<>>} \cup {outputPrefixForKey(s) : s \in Settings}
Objects == [name: Dropped \cup Uploads, generation: 0 .. MaxGeneration, at: Places]
Source(name) == [name |-> name, generation |-> 0, at |-> <<>>]

VARIABLES
  bucket,     \* the objects
  jobs,       \* the jobs table, as far as the scanner reads or writes it
  settings,   \* the settings table
  past,       \* all that it has ever said (history)
  pc,         \* next step of each actor
  listed,     \* objects a scan has still to look at
  current,    \* the object an actor creates a job for
  created,    \* the job it has inserted and not enqueued yet
  using,      \* the settings it has loaded
  incidents

settingsVars == <<settings, past>>
actorVars == <<pc, listed, current, created, using>>
vars == <<bucket, jobs, settingsVars, actorVars, incidents>>

Status == {"unborn", "pending", "running", "completed", "failed", "cancelled", "deleted"}

(* output: under what its output goes.  task: is there a task for the job? *)
(* maker: who inserted the row.  revived: has something other than a scan  *)
(* made a failed row live again?                                           *)
Row == [status: Status, source: Objects \cup {NoJob}, output: Places, task: BOOLEAN,
        maker: Actors \cup {NoJob}, revived: BOOLEAN]

NoRow(why) == [status |-> why, source |-> NoJob, output |-> <<>>, task |-> FALSE,
               maker |-> NoJob, revived |-> FALSE]

TypeOK ==
  /\ bucket \subseteq Objects
  /\ jobs \in [Jobs -> Row]
  /\ past \subseteq Settings /\ {FirstSettings, settings} \subseteq past
  /\ pc \in [Actors -> {"idle", "scan", "create", "enqueue", "done"}]
  /\ listed \in [Actors -> SUBSET Objects]
  /\ current \in [Actors -> Objects \cup {NoJob}]
  /\ created \in [Actors -> Jobs \cup {NoJob}]
  /\ using \in [Actors -> past]
  /\ incidents \in 0 .. MaxIncidents
  /\ \A a \in Actors :
       /\ pc[a] \in {"create", "enqueue"} => current[a] \in Objects
       /\ pc[a] = "enqueue" => created[a] \in Jobs
  /\ \A j \in Jobs : jobs[j].status \notin {"unborn", "deleted"} =>
       jobs[j].source \in Objects /\ jobs[j].maker \in Actors

Init ==
  /\ bucket = {}
  /\ jobs = [j \in Jobs |-> NoRow("unborn")]
  /\ settings = FirstSettings
  /\ past = {FirstSettings}
  /\ pc = [a \in Actors |-> "idle"]
  /\ listed = [a \in Actors |-> {}]
  /\ current = [a \in Actors |-> NoJob]
  /\ created = [a \in Actors |-> NoJob]
  /\ using = [a \in Actors |-> FirstSettings]
  /\ incidents = 0

Incident(kind) ==
  /\ kind \in IncidentKinds
  /\ incidents < MaxIncidents
  /\ incidents' = incidents + 1

Goto(a, from, to) ==
  /\ pc[a] = from
  /\ pc' = [pc EXCEPT ![a] = to]

-----------------------------------------------------------------------------
(* Objects appear and settings change.                                     *)

(* Somebody copies a video into the bucket.                                *)
Drop(name) ==
  /\ Source(name) \notin bucket
  /\ bucket' = bucket \cup {Source(name)}
  /\ UNCHANGED <<jobs, settingsVars, actorVars, incidents>>

(* An administrator saves other settings.                                  *)
ChangeSettings(s) ==
  /\ s # settings
  /\ Incident("settings")
  /\ settings' = s
  /\ past' = past \cup {s}
  /\ UNCHANGED <<bucket, jobs, actorVars>>

(* UploadSource loads the settings and puts the file under a key with a    *)
(* time stamp.                                                             *)
UploadSource(u) ==
  /\ Goto(u, "idle", "create")
  /\ using' = [using EXCEPT ![u] = settings]
  /\ bucket' = bucket \cup {Source(u)}
  /\ current' = [current EXCEPT ![u] = Source(u)]
  /\ UNCHANGED <<jobs, settingsVars, listed, created, incidents>>

-----------------------------------------------------------------------------
(* A scan.                                                                 *)

Listed == {o \in bucket : o.generation = 0 \/ OutputsListed}

(* Mutant: the output prefix is not excluded.                              *)
shouldProcessAll(o, s) == TRUE

(* Directories and other extensions aside, everything but what lies under  *)
(* the prefix of these settings, which is not cleaned as the paths of      *)
(* outputs are, and excludes nothing when it is empty.                     *)
Covers(s, place) == s.prefix # <<>> /\ IsPrefix(normalizedOutputPrefix(s.prefix), place)
shouldProcess(o, s) == ~Covers(s, o.at)

(* Mutant: the query ignores completed jobs too.                           *)
HasActiveJobForSource(o) ==
  \E j \in Jobs : jobs[j].source = o /\ jobs[j].status \in {"pending", "running"}

(* Mutant: the query counts failed jobs.                                   *)
HasAnyJobForSource(o) == \E j \in Jobs : jobs[j].source = o

(* A row for the object that is not failed.                                *)
Live(j) == jobs[j].status \notin {"unborn", "deleted", "failed"}
HasScannerJobForSource(o) == \E j \in Jobs : jobs[j].source = o /\ Live(j)

(* The settings are loaded anew for each scan.                             *)
ScanStart(n) ==
  /\ Goto(n, "idle", "scan")
  /\ using' = [using EXCEPT ![n] = settings]
  /\ listed' = [listed EXCEPT ![n] = {o \in Listed : shouldProcess(o, settings)}]
  /\ UNCHANGED <<bucket, jobs, settingsVars, current, created, incidents>>

(* One turn of the loop: the object is skipped when it has a job or when   *)
(* the query fails.                                                        *)
ScanCheck(n) ==
  \E o \in listed[n] :
    /\ listed' = [listed EXCEPT ![n] = @ \ {o}]
    /\ \/ /\ ~HasScannerJobForSource(o)
          /\ Goto(n, "scan", "create")
          /\ current' = [current EXCEPT ![n] = o]
          /\ UNCHANGED incidents
       \/ /\ (HasScannerJobForSource(o) /\ UNCHANGED incidents) \/ Incident("check")
          /\ Goto(n, "scan", "scan")
          /\ UNCHANGED current
    /\ UNCHANGED <<bucket, jobs, settingsVars, created, using>>

ScanEnd(n) ==
  /\ listed[n] = {}
  /\ Goto(n, "scan", "idle")
  /\ using' = [using EXCEPT ![n] = FirstSettings]
  /\ UNCHANGED <<bucket, jobs, settingsVars, listed, current, created, incidents>>

-----------------------------------------------------------------------------
(* What a scan and UploadSource both do.                                   *)

(* A scanner goes on with the next object, an upload answers.              *)
Continue(a) == IF a \in Nodes THEN "scan" ELSE "done"

NewRow(a) ==
  [status |-> "pending", source |-> current[a], output |-> outputPrefixForKey(using[a]),
   task |-> FALSE, maker |-> a, revived |-> FALSE]

(* Mutant: the error is ignored.                                           *)
CreateJobForKeyUnchecked(a) ==
  /\ Goto(a, "create", "enqueue")
  /\ \/ \E j \in Jobs :
          /\ jobs[j].status = "unborn"
          /\ jobs' = [jobs EXCEPT ![j] = NewRow(a)]
          /\ created' = [created EXCEPT ![a] = j]
          /\ UNCHANGED incidents
     \/ Incident("create") /\ UNCHANGED <<jobs, created>>
  /\ UNCHANGED <<bucket, settingsVars, listed, current, using>>

(* CreateJobForKey inserts the row, or fails.                              *)
CreateJobForKey(a) ==
  /\ \/ \E j \in Jobs :
          /\ jobs[j].status = "unborn"
          /\ jobs' = [jobs EXCEPT ![j] = NewRow(a)]
          /\ Goto(a, "create", "enqueue")
          /\ created' = [created EXCEPT ![a] = j]
          /\ UNCHANGED <<current, incidents>>
     \/ /\ Goto(a, "create", Continue(a))
        /\ Incident("create")
        /\ current' = [current EXCEPT ![a] = NoJob]
        /\ UNCHANGED <<jobs, created>>
  /\ UNCHANGED <<bucket, settingsVars, listed, using>>

(* Mutant: after an error all of it is tried again.                        *)
EnqueueJobRestarts(a) ==
  /\ \/ /\ Goto(a, "enqueue", Continue(a))
        /\ jobs' = [jobs EXCEPT ![created[a]].task = TRUE]
        /\ current' = [current EXCEPT ![a] = NoJob]
        /\ UNCHANGED incidents
     \/ Goto(a, "enqueue", "create") /\ Incident("enqueue") /\ UNCHANGED <<jobs, current>>
  /\ created' = [created EXCEPT ![a] = NoJob]
  /\ UNCHANGED <<bucket, settingsVars, listed, using>>

(* EnqueueJob; its error is logged or answered and the row stays.          *)
EnqueueJob(a) ==
  /\ Goto(a, "enqueue", Continue(a))
  /\ \/ /\ jobs' = [jobs EXCEPT ![created[a]].task = TRUE]
        /\ UNCHANGED incidents
     \/ Incident("enqueue") /\ UNCHANGED jobs
  /\ current' = [current EXCEPT ![a] = NoJob]
  /\ created' = [created EXCEPT ![a] = NoJob]
  /\ UNCHANGED <<bucket, settingsVars, listed, using>>

(* The process ends; a scanner starts again, a request is gone.            *)
Crash(a) ==
  /\ pc[a] \notin {"idle", "done"}
  /\ Incident("crash")
  /\ pc' = [pc EXCEPT ![a] = IF a \in Nodes THEN "idle" ELSE "done"]
  /\ listed' = [listed EXCEPT ![a] = {}]
  /\ current' = [current EXCEPT ![a] = NoJob]
  /\ created' = [created EXCEPT ![a] = NoJob]
  /\ using' = [using EXCEPT ![a] = FirstSettings]
  /\ UNCHANGED <<bucket, jobs, settingsVars>>

-----------------------------------------------------------------------------
(* The rest of the system as the scanner sees it.                          *)

Start(j) ==
  /\ jobs[j].status = "pending" /\ jobs[j].task
  /\ jobs' = [jobs EXCEPT ![j].status = "running", ![j].task = FALSE]
  /\ UNCHANGED <<bucket, settingsVars, actorVars, incidents>>

(* The HLS output consists of .ts segments, videos themselves.             *)
Complete(j) ==
  LET o == jobs[j].source IN
  /\ jobs[j].status = "running"
  /\ jobs' = [jobs EXCEPT ![j].status = "completed"]
  /\ bucket' = IF o.generation < MaxGeneration
               THEN bucket \cup {[name |-> o.name, generation |-> o.generation + 1,
                                  at |-> jobs[j].output]}
               ELSE bucket
  /\ UNCHANGED <<settingsVars, actorVars, incidents>>

Fail(j) ==
  /\ jobs[j].status = "running"
  /\ Incident("fail")
  /\ jobs' = [jobs EXCEPT ![j].status = "failed"]
  /\ UNCHANGED <<bucket, settingsVars, actorVars>>

(* DELETE /jobs/:id cancels an active job in a statement of its own, and   *)
(* the worker skips its task.                                              *)
Cancel(j) ==
  /\ jobs[j].status \in {"pending", "running"}
  /\ Incident("cancel")
  /\ jobs' = [jobs EXCEPT ![j].status = "cancelled", ![j].task = FALSE]
  /\ UNCHANGED <<bucket, settingsVars, actorVars>>

(* It then deletes the row; the object stays in the bucket.                *)
Delete(j) ==
  /\ jobs[j].status \notin {"unborn", "deleted"}
  /\ Incident("delete")
  /\ jobs' = [jobs EXCEPT ![j] = NoRow("deleted")]
  /\ UNCHANGED <<bucket, settingsVars, actorVars>>

Retry(j) ==
  /\ jobs[j].status \in {"failed", "cancelled"}
  /\ Incident("retry")
  /\ jobs' = [jobs EXCEPT ![j].status = "pending", ![j].task = TRUE, ![j].revived = TRUE]
  /\ UNCHANGED <<bucket, settingsVars, actorVars>>

(* A handler that is still at work when a client cancels its job, or when  *)
(* another handler of the same task (JobLifecycle: a deadline, a lost      *)
(* lease) fails it, sets its next status over that.                        *)
Overlap(j) ==
  /\ jobs[j].status \in {"failed", "cancelled"}
  /\ Incident("overlap")
  /\ jobs' = [jobs EXCEPT ![j].status = "running", ![j].revived = TRUE]
  /\ UNCHANGED <<bucket, settingsVars, actorVars>>

Work(j) ==
  Start(j) \/ Complete(j) \/ Fail(j) \/ Cancel(j) \/ Delete(j) \/ Retry(j) \/ Overlap(j)

scanOnce(n) ==
  ScanStart(n) \/ ScanCheck(n) \/ CreateJobForKey(n) \/ EnqueueJob(n) \/ ScanEnd(n)

Upload(u) == UploadSource(u) \/ CreateJobForKey(u) \/ EnqueueJob(u)

Next ==
  \/ \E name \in Dropped : Drop(name)
  \/ \E s \in Settings : ChangeSettings(s)
  \/ \E n \in Nodes : scanOnce(n)
  \/ \E u \in Uploads : Upload(u)
  \/ \E a \in Actors : Crash(a)
  \/ \E j \in Jobs : Work(j)

Spec == Init /\ [][Next]_vars

(* The loops and the workers go on; nobody has to upload or retry.         *)
Fairness ==
  /\ \A n \in Nodes : WF_vars(scanOnce(n))
  /\ \A u \in Uploads : WF_vars(CreateJobForKey(u) \/ EnqueueJob(u))
  /\ \A j \in Jobs : WF_vars(Start(j)) /\ WF_vars(Complete(j) \/ Fail(j))

FairSpec == Spec /\ Fairness

-----------------------------------------------------------------------------
(* Properties.                                                             *)

(* Nothing is locked between the query and the insert, so two nodes may    *)
(* both insert a job for a video; one node never does, however its scans   *)
(* are cut off by errors and restarts and whatever the workers and clients *)
(* do to its jobs: two live jobs for one object come from two actors, or   *)
(* one of them had failed and was brought back by a retry or a second      *)
(* handler (scanner.go scanOnce, database.go HasScannerJobForSource).      *)
OneJobPerMaker ==
  \A i, j \in Jobs :
    /\ Live(i) /\ Live(j)
    /\ jobs[i].source = jobs[j].source /\ jobs[i].maker = jobs[j].maker
    /\ ~jobs[i].revived /\ ~jobs[j].revived
    => i = j

(* Has each prefix so far covered where any settings so far have put the   *)
(* outputs?                                                                *)
Contained == \A s, t \in past : Covers(s, outputPrefixForKey(t))

(* No segment is taken for a source, even when outputs lie where scans     *)
(* look, unless some settings have put outputs where these or other        *)
(* settings do not exclude them: a new prefix makes videos of what lies    *)
(* under the old one, a template or a prefix that path.Join cleans leads   *)
(* around it.  Scans and uploads may go on for long with settings that are *)
(* no longer those of the table (scanner.go Start, shouldProcess,          *)
(* outputPrefixForKey).                                                    *)
OutputsAreNoSources ==
  (OutputsListed => Contained) => \A j \in Jobs : Live(j) => jobs[j].source.generation = 0

(* A row that nobody will ever enqueue, and one a client has cancelled.    *)
Stranded(j) ==
  /\ jobs[j].status = "pending" /\ ~jobs[j].task
  /\ \A a \in Actors : created[a] # j
Cancelled(j) == jobs[j].status = "cancelled"

(* No video is overlooked: failed queries and inserts, failed jobs,        *)
(* deleted rows and restarts are all made good by a later scan, and only   *)
(* a row without a task and a cancelled one keep a video from being        *)
(* transcoded (scanner.go Start, scanOnce; HasScannerJobForSource).        *)
EveryVideoIsTranscoded ==
  \A name \in Dropped \cup Uploads :
    Source(name) \in bucket ~>
      \E j \in Jobs : /\ jobs[j].source = Source(name)
                      /\ jobs[j].status = "completed" \/ Stranded(j) \/ Cancelled(j)

-----------------------------------------------------------------------------
(* The contract that all of this implements.                               *)

(* Scanners for what is no output, unless some settings do not exclude it, *)
(* and uploads for their own file.                                         *)
MayClaim ==
  {c \in Objects \X Actors :
     /\ c[2] \in Uploads => c[1] = Source(c[2])
     /\ \/ c[1].generation = 0
        \/ OutputsListed /\ \E s \in Settings : ~Covers(s, c[1].at)}

Claim(j) ==
  IF Live(j)
  THEN [standing |-> IF jobs[j].revived THEN "again" ELSE "first",
        video |-> jobs[j].source, by |-> jobs[j].maker]
  ELSE [standing |-> "none", video |-> NoJob, by |-> NoJob]

Contract == INSTANCE ScannerContract
              WITH claim <- [j \in Jobs |-> Claim(j)], Nobody <- NoJob

(* However many scanners and uploads look at one bucket, each makes at     *)
(* most one job for a video, of those it may take, and a job once made     *)
(* stays until it fails or is deleted; retries and second handlers bring   *)
(* back what there was and never make a claim of their own (scanner.go     *)
(* scanOnce, system.go UploadSource, database.go HasScannerJobForSource).  *)
KeepsContract == Contract!Spec

-----------------------------------------------------------------------------
(* README.md, Features: the scanner transcodes new video objects once.     *)
(* Then no two live jobs would have the same source.  It holds for one     *)
(* scanner (ScannerProofs) and not for two, which may both find no job.    *)
TranscodedOnce ==
  \A i, j \in Jobs :
    Live(i) /\ Live(j) /\ jobs[i].source = jobs[j].source => i = j
=============================================================================
