----------------------------- MODULE UploadCleanup -----------------------------
(***************************************************************************)
(* DELETE /uploads/:id (handlers/media.go DeleteUpload) against everything *)
(* else that puts objects into the buckets or takes videos from them: the  *)
(* scanner, the handlers that download, transcode and upload, and other    *)
(* deletions.                                                              *)
(*                                                                         *)
(* The request purges the output by key prefix, then deletes the source,   *)
(* then the row, and nothing but the row's status tells a handler of it.   *)
(* The names of the outputs, which outputPrefixForKey makes, decide whose  *)
(* objects a prefix hits.  JobLifecycle has the rows in full, Scanner the  *)
(* scans of several nodes.                                                 *)
(***************************************************************************)
EXTENDS Integers, SequencesExt

CONSTANTS
  Videos,         \* videos: [key, dir, base, hash], each a sequence of atoms
  OutputPrefix,   \* ScannerOutputPrefix and ScannerOutputTemplate as such
  Template,       \* sequences; an empty template is one that is not set
  InputBucket, OutputBucket,
  Parts,          \* the objects of one output
  Jobs, NoJob,
  Runs,           \* handler goroutines
  Requests,       \* calls of DeleteUpload, each served once
  IncidentKinds,  \* what else may happen, and
  MaxIncidents    \* how often: a bound

ASSUME NoJobAssumption == NoJob \notin Jobs
ASSUME BoundAssumption == MaxIncidents \in Nat

-----------------------------------------------------------------------------
(* Where objects go.                                                       *)

Token(t, v) ==
  CASE t = "file_base_name" -> v.base
    [] t = "source_hash"    -> v.hash
    [] t = "source_dir"     -> v.dir
    [] OTHER                -> <<t>>

(* Mutant: the folder is named for the file alone.                         *)
uniqueFolderByName(v) == v.base

uniqueFolder(v) == v.base \o v.hash

outputPrefixForKey(v) ==
  IF Template = <<>> THEN OutputPrefix \o uniqueFolder(v)
  ELSE FlattenSeq([i \in DOMAIN Template |-> Token(Template[i], v)])

Output(v)        == <<OutputBucket>> \o outputPrefixForKey(v)
SourceKey(v)     == <<InputBucket>> \o v.key
OutputKey(v, p)  == Append(Output(v), p)
Keys(v)          == {SourceKey(v)} \cup {OutputKey(v, p) : p \in Parts}
AllKeys          == UNION {Keys(v) : v \in Videos}

(* What DeletePrefix lists for the output of v.  It trims the slash that   *)
(* ends the prefix, so that names that only begin alike match too.         *)
Under(v) == {k \in AllKeys : IsPrefix(Output(v), k)}

-----------------------------------------------------------------------------
VARIABLES
  bucket,     \* the objects of both buckets: [key, of]
  jobs,       \* the jobs table and the tasks of each job
  listed,     \* the videos that a scan has listed and not looked at yet
  pc,         \* next statement of each handler
  runJob,     \* the job it runs
  left,       \* the parts it has still to put
  reqPc,      \* next statement of each request
  reqJob,     \* the job it is about
  passed,     \* the keys its listing has passed
  warned,     \* does its answer carry a warning or an error?
  disturbed,  \* history: what no answer says: did a handler get hold of
              \* its video nevertheless, or S3 refuse one of its keys?
  gone,       \* history: videos whose output and source were deleted without either
  incidents

runVars == <<pc, runJob, left>>
requestVars == <<reqPc, reqJob, passed, warned, disturbed>>
vars == <<bucket, jobs, listed, runVars, requestVars, gone, incidents>>

Active == {"pending", "running"}
Status == {"unborn", "completed", "failed", "cancelled", "deleted"} \cup Active
NoVideo == [key |-> <<>>, dir |-> <<>>, base |-> <<>>, hash |-> <<>>]
Row == [status: Status, video: Videos \cup {NoVideo}, tasks: Nat]
Object == [key: AllKeys, of: Videos]

Exists(j)     == jobs[j].status \notin {"unborn", "deleted"}
RunVideo(h)   == jobs[runJob[h]].video
ReqVideo(r)   == jobs[reqJob[r]].video
PastRead      == {"begin", "download", "upload", "fail"}
Purging       == {"purge", "source"}

TypeOK ==
  /\ bucket \subseteq Object
  /\ jobs \in [Jobs -> Row]
  /\ listed \subseteq Videos
  /\ pc \in [Runs -> {"idle", "read"} \cup PastRead]
  /\ runJob \in [Runs -> Jobs \cup {NoJob}]
  /\ left \in [Runs -> SUBSET Parts]
  /\ reqPc \in [Requests -> {"idle", "cancel", "row", "done"} \cup Purging]
  /\ reqJob \in [Requests -> Jobs \cup {NoJob}]
  /\ passed \in [Requests -> SUBSET AllKeys]
  /\ warned \in [Requests -> BOOLEAN]
  /\ disturbed \in [Requests -> BOOLEAN]
  /\ gone \subseteq Videos
  /\ incidents \in 0 .. MaxIncidents
  /\ \A j \in Jobs : jobs[j].status # "unborn" => jobs[j].video \in Videos
  /\ \A h \in Runs : pc[h] # "idle" =>
       runJob[h] \in Jobs /\ jobs[runJob[h]].status # "unborn"
  /\ \A r \in Requests : reqPc[r] # "idle" =>
       reqJob[r] \in Jobs /\ jobs[reqJob[r]].status # "unborn"
  /\ \A j \in Jobs : jobs[j].tasks > 0 => jobs[j].status # "unborn"

Init ==
  /\ bucket = {}
  /\ jobs = [j \in Jobs |-> [status |-> "unborn", video |-> NoVideo, tasks |-> 0]]
  /\ listed = {}
  /\ pc = [h \in Runs |-> "idle"]
  /\ runJob = [h \in Runs |-> NoJob]
  /\ left = [h \in Runs |-> {}]
  /\ reqPc = [r \in Requests |-> "idle"]
  /\ reqJob = [r \in Requests |-> NoJob]
  /\ passed = [r \in Requests |-> {}]
  /\ warned = [r \in Requests |-> FALSE]
  /\ disturbed = [r \in Requests |-> FALSE]
  /\ gone = {}
  /\ incidents = 0

Incident(kind) ==
  /\ kind \in IncidentKinds
  /\ incidents < MaxIncidents
  /\ incidents' = incidents + 1

(* PutObject replaces the object of that key.                              *)
Put(key, v) == {o \in bucket : o.key # key} \cup {[key |-> key, of |-> v]}

(* UpdateJobStatus, of a row that may be gone.                             *)
UpdateJobStatus(j, status) ==
  jobs' = IF Exists(j) THEN [jobs EXCEPT ![j].status = status] ELSE jobs

-----------------------------------------------------------------------------
(* The scanner.                                                            *)

(* A video is put into the bucket, by UploadSource or by others; the same  *)
(* key only now and then once more.                                        *)
Drop(v) ==
  /\ \A o \in bucket : o.key # SourceKey(v)
  /\ IF \E j \in Jobs : jobs[j].video = v THEN Incident("again") ELSE UNCHANGED incidents
  /\ bucket' = Put(SourceKey(v), v)
  /\ gone' = gone \ {v}
  /\ UNCHANGED <<jobs, listed, runVars, requestVars>>

(* ListObjects and shouldProcess: the outputs lie under the output prefix  *)
(* or in a bucket of their own.                                            *)
ScanStart ==
  /\ listed = {}
  /\ listed' = {v \in Videos : \E o \in bucket : o.key = SourceKey(v)}
  /\ UNCHANGED <<bucket, jobs, runVars, requestVars, gone, incidents>>

HasScannerJobForSource(v) ==
  \E j \in Jobs : jobs[j].video = v /\ Exists(j) /\ jobs[j].status # "failed"

(* One turn of the loop: HasScannerJobForSource, CreateJobForKey and       *)
(* EnqueueJob.  The object itself is not looked at any more.               *)
ScanCheck ==
  \E v \in listed :
    /\ listed' = listed \ {v}
    /\ IF HasScannerJobForSource(v) THEN UNCHANGED jobs
       ELSE \E j \in Jobs :
              /\ jobs[j].status = "unborn"
              /\ jobs' = [jobs EXCEPT ![j] =
                            [status |-> "pending", video |-> v, tasks |-> 1]]
    /\ UNCHANGED <<bucket, runVars, requestVars, gone, incidents>>

-----------------------------------------------------------------------------
(* The handlers.                                                           *)

Goto(h, from, to) ==
  /\ pc[h] = from
  /\ pc' = [pc EXCEPT ![h] = to]

(* Mutant: a task is delivered whether it is there or not.                 *)
DispatchAgain(h) ==
  \E j \in Jobs :
    /\ Exists(j)
    /\ jobs' = [jobs EXCEPT ![j].tasks = @ - 1]
    /\ Goto(h, "idle", "read")
    /\ runJob' = [runJob EXCEPT ![h] = j]
    /\ UNCHANGED <<bucket, listed, left, requestVars, gone, incidents>>

Dispatch(h) ==
  \E j \in Jobs :
    /\ jobs[j].tasks > 0
    /\ jobs' = [jobs EXCEPT ![j].tasks = @ - 1]
    /\ Goto(h, "idle", "read")
    /\ runJob' = [runJob EXCEPT ![h] = j]
    /\ UNCHANGED <<bucket, listed, left, requestVars, gone, incidents>>

(* The requests in the middle of a purge for whose video something else    *)
(* than their own, cancelled job starts.                                   *)
Disturb(v, j) ==
  disturbed' = [r \in Requests |->
    disturbed[r] \/ (reqPc[r] \in Purging /\ ReqVideo(r) = v /\ reqJob[r] # j)]

(* Mutant: a handler does not look whether its job was cancelled.          *)
RunReadCancelledToo(h) ==
  /\ pc[h] = "read"
  /\ \/ /\ Exists(runJob[h])
        /\ Goto(h, "read", "begin")
        /\ Disturb(RunVideo(h), runJob[h])
     \/ /\ ~Exists(runJob[h])
        /\ Goto(h, "read", "idle")
        /\ UNCHANGED disturbed
  /\ UNCHANGED <<bucket, jobs, listed, runJob, left, reqPc, reqJob, passed, warned,
                 gone, incidents>>

(* GetJob; a cancelled job is skipped, one whose row is gone given up.     *)
RunRead(h) ==
  /\ pc[h] = "read"
  /\ \/ /\ Exists(runJob[h]) /\ jobs[runJob[h]].status # "cancelled"
        /\ Goto(h, "read", "begin")
        /\ Disturb(RunVideo(h), runJob[h])
     \/ /\ ~Exists(runJob[h]) \/ jobs[runJob[h]].status = "cancelled"
        /\ Goto(h, "read", "idle")
        /\ UNCHANGED disturbed
  /\ UNCHANGED <<bucket, jobs, listed, runJob, left, reqPc, reqJob, passed, warned,
                 gone, incidents>>

(* The first of the statements that say where the job is.                  *)
RunBegin(h) ==
  /\ Goto(h, "begin", "download")
  /\ UpdateJobStatus(runJob[h], "running")
  /\ UNCHANGED <<bucket, listed, runJob, left, requestVars, gone, incidents>>

(* The source is copied, and the statuses that follow overwrite what the   *)
(* row has become meanwhile; or the source is gone or cannot be read.      *)
RunDownload(h) ==
  /\ pc[h] = "download"
  /\ \/ /\ \E o \in bucket : o.key = SourceKey(RunVideo(h))
        /\ Goto(h, "download", "upload")
        /\ left' = [left EXCEPT ![h] = Parts]
        /\ UpdateJobStatus(runJob[h], "running")
        /\ UNCHANGED incidents
     \/ /\ \/ (\A o \in bucket : o.key # SourceKey(RunVideo(h))) /\ UNCHANGED incidents
           \/ Incident("fail")
        /\ Goto(h, "download", "fail")
        /\ UNCHANGED <<left, jobs>>
  /\ UNCHANGED <<bucket, listed, runJob, requestVars, gone>>

(* One PutObject of the thumbnail or of Upload (uploadDir).                *)
RunPut(h) ==
  \E p \in left[h] :
    /\ pc[h] = "upload"
    /\ bucket' = Put(OutputKey(RunVideo(h), p), RunVideo(h))
    /\ left' = [left EXCEPT ![h] = @ \ {p}]
    /\ UNCHANGED <<jobs, listed, pc, runJob, requestVars, gone, incidents>>

(* ffmpeg or a PutObject fails.                                            *)
RunStuck(h) ==
  /\ Goto(h, "upload", "fail")
  /\ Incident("fail")
  /\ left' = [left EXCEPT ![h] = {}]
  /\ UNCHANGED <<bucket, jobs, listed, runJob, requestVars, gone>>

RunComplete(h) ==
  /\ left[h] = {}
  /\ Goto(h, "upload", "idle")
  /\ UpdateJobStatus(runJob[h], "completed")
  /\ UNCHANGED <<bucket, listed, runJob, left, requestVars, gone, incidents>>

RunFail(h) ==
  /\ Goto(h, "fail", "idle")
  /\ UpdateJobStatus(runJob[h], "failed")
  /\ UNCHANGED <<bucket, listed, runJob, left, requestVars, gone, incidents>>

(* The worker dies and its task is delivered again.                        *)
RunCrash(h) ==
  /\ pc[h] # "idle"
  /\ Incident("crash")
  /\ pc' = [pc EXCEPT ![h] = "idle"]
  /\ left' = [left EXCEPT ![h] = {}]
  /\ jobs' = [jobs EXCEPT ![runJob[h]].tasks = @ + 1]
  /\ UNCHANGED <<bucket, listed, runJob, requestVars, gone>>

-----------------------------------------------------------------------------
(* The other requests that change jobs, each in one step.                  *)

Retry(j) ==
  /\ jobs[j].status \in {"failed", "cancelled"}
  /\ Incident("retry")
  /\ jobs' = [jobs EXCEPT ![j].status = "pending", ![j].tasks = @ + 1]
  /\ Disturb(jobs[j].video, NoJob)
  /\ UNCHANGED <<bucket, listed, runVars, reqPc, reqJob, passed, warned, gone>>

(* DELETE /jobs/:id leaves the objects where they are.                     *)
DeleteJob(j) ==
  /\ Exists(j)
  /\ Incident("delete")
  /\ jobs' = [jobs EXCEPT ![j].status = "deleted"]
  /\ UNCHANGED <<bucket, listed, runVars, requestVars, gone>>

-----------------------------------------------------------------------------
(* DeleteUpload.                                                           *)

Step(r, from, to) ==
  /\ reqPc[r] = from
  /\ reqPc' = [reqPc EXCEPT ![r] = to]

Warn(r) == warned' = [warned EXCEPT ![r] = TRUE]

(* Is a handler past its only look at the status of a job of v?            *)
AtWork(v) == \E h \in Runs : pc[h] \in PastRead /\ RunVideo(h) = v

(* A job that is settled already is not cancelled.  A task it may still    *)
(* have then runs: of a retry whose row an earlier handler has completed.  *)
StillQueued(j) ==
  /\ jobs[j].status \notin Active \cup {"cancelled"}
  /\ jobs[j].tasks > 0 \/ \E h \in Runs : pc[h] = "read" /\ runJob[h] = j

DeleteRead(r) ==
  \E j \in Jobs :
    /\ Exists(j)
    /\ Step(r, "idle", IF jobs[j].status \in Active THEN "cancel" ELSE "purge")
    /\ reqJob' = [reqJob EXCEPT ![r] = j]
    /\ disturbed' = [disturbed EXCEPT ![r] = AtWork(jobs[j].video) \/ StillQueued(j)]
    /\ UNCHANGED <<bucket, jobs, listed, runVars, passed, warned, gone, incidents>>

(* The error is ignored.                                                   *)
DeleteCancel(r) ==
  /\ Step(r, "cancel", "purge")
  /\ \/ /\ UpdateJobStatus(reqJob[r], "cancelled")
        /\ disturbed' = [disturbed EXCEPT ![r] = AtWork(ReqVideo(r))]
        /\ UNCHANGED incidents
     \/ /\ Incident("db")
        /\ disturbed' = [disturbed EXCEPT ![r] = TRUE]
        /\ UNCHANGED jobs
  /\ UNCHANGED <<bucket, listed, runVars, reqJob, passed, warned, gone>>

ToPass(r) == Under(ReqVideo(r)) \ passed[r]

(* DeletePrefix: a page covers some of the keys, and what is there of them *)
(* when it is listed is deleted, but for keys that S3 refuses to delete:   *)
(* the answer of DeleteObjects names them, and nobody reads it.  Keys that *)
(* are put behind the listing stay.  A page that fails ends it with a      *)
(* warning.                                                                *)
PurgePage(r) ==
  \/ /\ reqPc[r] = "purge"
     /\ \E page \in SUBSET ToPass(r) :
        \E refused \in SUBSET (page \cap {o.key : o \in bucket}) :
          /\ page # {}
          /\ passed' = [passed EXCEPT ![r] = @ \cup page]
          /\ bucket' = {o \in bucket : o.key \notin page \ refused}
          /\ IF refused = {} THEN UNCHANGED <<disturbed, incidents>>
             ELSE Incident("s3") /\ disturbed' = [disturbed EXCEPT ![r] = TRUE]
     /\ UNCHANGED <<jobs, listed, runVars, reqPc, reqJob, warned, gone>>
  \/ /\ Step(r, "purge", "source")
     /\ \/ ToPass(r) = {} /\ UNCHANGED <<warned, incidents>>
        \/ Incident("s3") /\ Warn(r)
     /\ UNCHANGED <<bucket, jobs, listed, runVars, reqJob, passed, disturbed, gone>>

(* DeleteObject of the source; its error is a warning too.                 *)
DeleteSource(r) ==
  /\ Step(r, "source", "row")
  /\ \/ /\ bucket' = {o \in bucket : o.key # SourceKey(ReqVideo(r))}
        /\ gone' = IF warned[r] \/ disturbed[r] THEN gone ELSE gone \cup {ReqVideo(r)}
        /\ UNCHANGED <<warned, incidents>>
     \/ Incident("s3") /\ Warn(r) /\ UNCHANGED <<bucket, gone>>
  /\ UNCHANGED <<jobs, listed, runVars, reqJob, passed, disturbed>>

(* The row is deleted and the request answered; an error is its answer.    *)
DeleteRow(r) ==
  /\ Step(r, "row", "done")
  /\ \/ /\ UpdateJobStatus(reqJob[r], "deleted")
        /\ UNCHANGED <<warned, incidents>>
     \/ Incident("db") /\ Warn(r) /\ UNCHANGED jobs
  /\ UNCHANGED <<bucket, listed, runVars, reqJob, passed, disturbed, gone>>

(* The API process dies in the middle.                                     *)
RequestDies(r) ==
  /\ reqPc[r] \notin {"idle", "done"}
  /\ reqPc' = [reqPc EXCEPT ![r] = "done"]
  /\ Incident("crash")
  /\ Warn(r)
  /\ UNCHANGED <<bucket, jobs, listed, runVars, reqJob, passed, disturbed, gone>>

DeleteUpload(r) ==
  DeleteRead(r) \/ DeleteCancel(r) \/ PurgePage(r) \/ DeleteSource(r) \/ DeleteRow(r)

HandleTranscode(h) ==
  \/ RunRead(h) \/ RunBegin(h) \/ RunDownload(h) \/ RunPut(h) \/ RunStuck(h)
  \/ RunComplete(h) \/ RunFail(h)

Next ==
  \/ \E v \in Videos : Drop(v)
  \/ ScanStart \/ ScanCheck
  \/ \E h \in Runs : Dispatch(h) \/ HandleTranscode(h) \/ RunCrash(h)
  \/ \E j \in Jobs : Retry(j) \/ DeleteJob(j)
  \/ \E r \in Requests : DeleteUpload(r) \/ RequestDies(r)

Spec == Init /\ [][Next]_vars

-----------------------------------------------------------------------------
(* Properties.                                                             *)

(* Deleting a video is final.  When no handler was past its look at the    *)
(* status as the request cancelled the job and a settled job had no task,  *)
(* when nothing retried the video or ran another job for it during the     *)
(* purge, when S3 refused no key and the request warns of nothing, then no *)
(* object of it is left and none ever appears again: not from the scan     *)
(* that had listed it before, not from a task that is still queued, not    *)
(* from a retry of another job for the same source.  Only a new upload     *)
(* brings it back (media.go DeleteUpload, s3.go DeletePrefix, handler.go   *)
(* HandleTranscode).                                                       *)
DeletedVideosStayAway ==
  \A v \in gone :
    /\ \A o \in bucket : o.of # v
    /\ \A h \in Runs : pc[h] = "upload" => RunVideo(h) # v

(* A completed video keeps its output until an entry of this very video is *)
(* deleted: a purge by prefix takes nothing of another video, even one     *)
(* with the same or a longer file name, and no other upload overwrites it  *)
(* (scanner.go outputPrefixForKey, uniqueFolder; s3.go DeletePrefix).      *)
OthersKeepTheirOutput ==
  \A j \in Jobs :
    jobs[j].status = "completed" =>
      \/ \A p \in Parts : [key |-> OutputKey(jobs[j].video, p), of |-> jobs[j].video] \in bucket
      \/ \E r \in Requests : /\ reqPc[r] \in Purging \cup {"row", "done"}
                             /\ ReqVideo(r) = jobs[j].video

=============================================================================
