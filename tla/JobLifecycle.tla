---------------------------- MODULE JobLifecycle ----------------------------
(***************************************************************************)
(* The life of transcoding jobs: API requests and automatic submitters     *)
(* insert rows and enqueue tasks, workers run Handler.HandleTranscode once *)
(* per delivery of a task, clients delete and retry jobs meanwhile.        *)
(*                                                                         *)
(* Nothing ties these actors together but the row: every statement changes *)
(* it by id alone, a request reads it once and acts on what it saw, and a  *)
(* handler reads it when it starts and never again before its webhook.     *)
(* Each statement, each storage call and each queue call is therefore a    *)
(* step of its own.                                                        *)
(*                                                                         *)
(* Handlers and requests belong to processes: main starts the API, the     *)
(* worker and the scanner of one mode in one process, a node, which has    *)
(* its own TEMP_DIR and whose end takes all of them at once.               *)
(***************************************************************************)
EXTENDS JobTable, TaskQueue, FiniteSets

CONSTANTS Runs,        \* handler goroutines (a slot is reused when free)
          Requests,    \* requests that change jobs, each served once
          Nodes,       \* processes of main, each with its TEMP_DIR
          Host,        \* the process of each handler and request
          Reach,       \* what a process has in hand at most: MAX_WORKERS
                       \* handlers and the requests it serves
          FaultKinds,  \* the faults of the environment that may strike
          MaxFaults    \* how many of them may strike

HostedBy(n) == {a \in Runs \cup Requests : Host[a] = n}

ASSUME MaxFaultsAssumption == MaxFaults \in Nat
ASSUME HostAssumption ==
  Runs \cap Requests = {} /\ Host \in [Runs \cup Requests -> Nodes]
ASSUME ReachAssumption ==
  /\ Reach \in Nat \ {0}
  /\ \A n \in Nodes : IsFiniteSet(HostedBy(n)) /\ Cardinality(HostedBy(n)) <= Reach

VARIABLES
  jobs,       \* the jobs table
  stored,     \* what the job's output URL holds
  work,       \* each node's directory of the job, shared by its handlers
  pc,         \* next statement of each handler
  runTask,    \* the task a handler was called for
  attached,   \* does the queue still wait for this handler's result?
  hasDir,     \* has the handler deferred os.RemoveAll(jobDir)?
  reading,    \* is the parseProgress goroutine of its ffmpeg alive?
  reqPc,      \* next statement of each request
  reqJob,     \* the job a request is about
  faults,     \* faults that have struck
  mishap,     \* history: what went wrong with each job
  deserted,   \* history: directories whose handler was killed and which
              \* no handler has taken over since
  events      \* history: the webhooks sent

requestVars == <<reqPc, reqJob>>
runVars     == <<pc, runTask, attached, hasDir, reading>>
files       == <<stored, work, deserted>>
history     == <<mishap, events>>
vars == <<jobs, files, runVars, requestVars, queueVars, faults, history>>

(* Handler statements between which it owes the row a settled status.      *)
Working == {"mkdir", "setDownloading", "download", "setTranscoding",
            "thumbnail", "transcode", "encoding", "setUploading", "upload",
            "uploading", "setCompleted", "fail"}
Ending == {"setFull", "notifyCompleted", "notifyFailed", "cleanup"}

RunPc == {"idle", "read"} \cup Working \cup Ending

(* Statements after which a request still enqueues its job or fails it.    *)
Submitting == {"createEnqueue", "createFail", "autoEnqueue",
               "retryProgress", "retryEnqueue"}
RequestPc == {"idle", "cancel", "delete", "purgeCancel", "purgeOutput",
              "purgeRow", "retryPending", "done"} \cup Submitting

DirState == {"absent", "empty", "input", "partial", "output"}
Stored   == {"none", "partial", "full"}

(* lostEnqueue: a request ended between its row and its task.  lostWrite:  *)
(* the statement that settles the row failed.  lostRun: a handler the      *)
(* queue no longer waited for died.  overlap: a handler started while      *)
(* another one of the same job was running.  purged: the output was        *)
(* deleted.  late: progress was reported after ffmpeg had ended.           *)
(* lostFull: the statement that says 100 percent failed.                   *)
Mishap == {"lostEnqueue", "lostWrite", "lostRun", "overlap", "purged", "late", "lostFull"}
Event == [job: Jobs, outcome: {"completed", "failed"},
          event: {"job.completed", "job.failed", "job.cancelled"}]

TypeOK ==
  /\ QueueTypeOK
  /\ jobs \in [Jobs -> Row]
  /\ stored \in [Jobs -> Stored]
  /\ work \in [Nodes \X Jobs -> DirState]
  /\ deserted \subseteq Nodes \X Jobs
  /\ pc \in [Runs -> RunPc]
  /\ runTask \in [Runs -> Tasks \cup {NoJob}]
  /\ attached \in [Runs -> BOOLEAN]
  /\ hasDir \in [Runs -> BOOLEAN]
  /\ reading \in [Runs -> BOOLEAN]
  /\ reqPc \in [Requests -> RequestPc]
  /\ reqJob \in [Requests -> Jobs \cup {NoJob}]
  /\ faults \in 0 .. MaxFaults
  /\ mishap \in [Jobs -> SUBSET Mishap]
  /\ events \subseteq Event

Init ==
  /\ QueueInit
  /\ jobs = [j \in Jobs |-> NoRow("unborn")]
  /\ stored = [j \in Jobs |-> "none"]
  /\ work = [d \in Nodes \X Jobs |-> "absent"]
  /\ deserted = {}
  /\ pc = [h \in Runs |-> "idle"]
  /\ runTask = [h \in Runs |-> NoJob]
  /\ attached = [h \in Runs |-> FALSE]
  /\ hasDir = [h \in Runs |-> FALSE]
  /\ reading = [h \in Runs |-> FALSE]
  /\ reqPc = [r \in Requests |-> "idle"]
  /\ reqJob = [r \in Requests |-> NoJob]
  /\ faults = 0
  /\ mishap = [j \in Jobs |-> {}]
  /\ events = {}

-----------------------------------------------------------------------------
(* Faults and statements that may fail.                                    *)

Fault(kind) ==
  /\ kind \in FaultKinds
  /\ faults < MaxFaults
  /\ faults' = faults + 1

Note(j, m) == mishap' = [mishap EXCEPT ![j] = @ \cup m]

(* A statement whose error the code ignores: the row becomes what it says, *)
(* or stays, which matters afterwards as far as loss says.                 *)
Write(j, row, loss) ==
  \/ jobs' = [jobs EXCEPT ![j] = row] /\ UNCHANGED <<faults, mishap>>
  \/ Fault("db") /\ Note(j, loss) /\ UNCHANGED jobs

-----------------------------------------------------------------------------
(* Requests.                                                               *)

Step(r, from, to) ==
  /\ reqPc[r] = from
  /\ reqPc' = [reqPc EXCEPT ![r] = to]
  /\ UNCHANGED reqJob

Begin(r, j, first) ==
  /\ reqPc[r] = "idle"
  /\ reqPc' = [reqPc EXCEPT ![r] = first]
  /\ reqJob' = [reqJob EXCEPT ![r] = j]

(* POST /jobs inserts a row; the scanner and UploadSource do so through    *)
(* CreateJobForKey.                                                        *)
Create(r) ==
  \E j \in Jobs :
    /\ jobs[j].status = "unborn"
    /\ \/ Begin(r, j, "createEnqueue")
       \/ Begin(r, j, "autoEnqueue")
    /\ jobs' = [jobs EXCEPT ![j] = CreateJob]
    /\ UNCHANGED <<files, runVars, queueVars, faults, history>>

(* The queue accepts a task, refuses it, or accepts it and reports an      *)
(* error.                                                                  *)
Enqueue(r, pcFrom, pcError) ==
  LET j == reqJob[r] IN
  /\ \/ /\ Step(r, pcFrom, "done")
        /\ EnqueueJob(j)
        /\ UNCHANGED <<faults, mishap>>
     \/ /\ Step(r, pcFrom, pcError)
        /\ Fault("enqueue")
        /\ EnqueueJob(j) \/ UNCHANGED queueVars
        /\ Note(j, IF pcError = "done" THEN {"lostEnqueue"} ELSE {})
  /\ UNCHANGED <<jobs, files, runVars, events>>

(* Mutant: Create enqueues again after an error.                           *)
CreateEnqueueAgain(r) == Enqueue(r, "createEnqueue", "createEnqueue")

(* Create answers an enqueue error by failing the row; the scanner, the    *)
(* upload and the retry leave the row as it is.                            *)
CreateEnqueue(r) == Enqueue(r, "createEnqueue", "createFail")
AutoEnqueue(r)   == Enqueue(r, "autoEnqueue", "done")

(* Mutant: the retry answers without enqueueing.                           *)
RetryEnqueueForgotten(r) ==
  /\ Step(r, "retryEnqueue", "done")
  /\ UNCHANGED <<jobs, files, runVars, queueVars, faults, history>>

RetryEnqueue(r)  == Enqueue(r, "retryEnqueue", "done")

(* Mutant: Create only reports the enqueue error.                          *)
CreateFailForgotten(r) ==
  /\ Step(r, "createFail", "done")
  /\ UNCHANGED <<jobs, files, runVars, queueVars, faults, history>>

CreateFail(r) ==
  /\ Step(r, "createFail", "done")
  /\ Write(reqJob[r], UpdateJobError(jobs[reqJob[r]]), {"lostWrite"})
  /\ UNCHANGED <<files, runVars, queueVars, events>>

(* DELETE /jobs/:id and DELETE /uploads/:id read the row ...               *)
DeleteRead(r) ==
  \E j \in Jobs :
    /\ Exists(jobs[j])
    /\ \/ Begin(r, j, IF jobs[j].status \in Active THEN "cancel" ELSE "delete")
       \/ Begin(r, j, IF jobs[j].status \in Active THEN "purgeCancel" ELSE "purgeOutput")
    /\ UNCHANGED <<jobs, files, runVars, queueVars, faults, history>>

(* ... cancel it if it was active then ...                                 *)
DeleteCancel(r) ==
  /\ \/ Step(r, "cancel", "delete")
     \/ Step(r, "purgeCancel", "purgeOutput")
  /\ Write(reqJob[r], UpdateJobStatus(jobs[reqJob[r]], "cancelled"), {})
  /\ UNCHANGED <<files, runVars, queueVars, events>>

(* ... DELETE /uploads/:id removes the objects of the output, all of them, *)
(* or some and then only a warning (the source object is not modelled) ... *)
PurgeOutput(r) ==
  LET j == reqJob[r] IN
  /\ Step(r, "purgeOutput", "purgeRow")
  /\ \E left \in IF stored[j] = "none" THEN {"none"} ELSE {"none", "partial", stored[j]} :
       stored' = [stored EXCEPT ![j] = left]
  /\ Note(j, {"purged"})
  /\ UNCHANGED <<jobs, work, deserted, runVars, queueVars, faults, events>>

(* ... and both delete the row, whatever it has become meanwhile.          *)
DeleteRow(r) ==
  /\ Step(r, "delete", "done") \/ Step(r, "purgeRow", "done")
  /\ Write(reqJob[r], DeleteJob(jobs[reqJob[r]]), {})
  /\ UNCHANGED <<files, runVars, queueVars, events>>

(* POST /jobs/:id/retry.                                                   *)
RetryRead(r) ==
  \E j \in Jobs :
    /\ jobs[j].status \in {"failed", "cancelled"}
    /\ Begin(r, j, "retryPending")
    /\ UNCHANGED <<jobs, files, runVars, queueVars, faults, history>>

RetryPending(r) ==
  /\ Step(r, "retryPending", "retryProgress")
  /\ Write(reqJob[r], UpdateJobStatus(jobs[reqJob[r]], "pending"), {})
  /\ UNCHANGED <<files, runVars, queueVars, events>>

RetryProgress(r) ==
  /\ Step(r, "retryProgress", "retryEnqueue")
  /\ Write(reqJob[r], UpdateJobProgress(jobs[reqJob[r]], 0), {})
  /\ UNCHANGED <<files, runVars, queueVars, events>>

RequestNext(r) ==
  \/ Create(r) \/ CreateEnqueue(r) \/ AutoEnqueue(r) \/ CreateFail(r)
  \/ DeleteRead(r) \/ DeleteCancel(r) \/ PurgeOutput(r) \/ DeleteRow(r)
  \/ RetryRead(r) \/ RetryPending(r) \/ RetryProgress(r) \/ RetryEnqueue(r)

-----------------------------------------------------------------------------
(* Handlers.                                                               *)

JobOf(h)    == taskJob[runTask[h]]
InFlight(h) == pc[h] # "idle"

(* The working directory of a handler: TEMP_DIR of its node and the job id. *)
Dir(h)      == <<Host[h], JobOf(h)>>

Goto(h, from, to) ==
  /\ pc[h] = from
  /\ pc' = [pc EXCEPT ![h] = to]

(* A worker goroutine takes a task and calls HandleTranscode.              *)
Dispatch(h) ==
  \E t \in Tasks :
    /\ Goto(h, "idle", "read")
    /\ ~reading[h]
    /\ Dequeue(t)
    /\ runTask' = [runTask EXCEPT ![h] = t]
    /\ attached' = [attached EXCEPT ![h] = TRUE]
    /\ Note(taskJob[t],
            IF \E g \in Runs : InFlight(g) /\ JobOf(g) = taskJob[t]
            THEN {"overlap"} ELSE {})
    /\ UNCHANGED <<jobs, files, hasDir, reading, requestVars, faults, events>>

(* Mutant: a job that another handler has in hand is put back until it is  *)
(* done, which the row of a worker that died says for ever.                *)
RunReadTakesTurns(h) ==
  /\ pc[h] = "read"
  /\ IF jobs[JobOf(h)].status \in Active \ {"pending"}
     THEN /\ Goto(h, "read", "idle")
          /\ attached' = [attached EXCEPT ![h] = FALSE]
          /\ IF attached[h] THEN Requeue({runTask[h]}) ELSE UNCHANGED queueVars
     ELSE /\ Goto(h, "read", "mkdir")
          /\ UNCHANGED <<attached, queueVars>>
  /\ UNCHANGED <<jobs, files, runTask, hasDir, reading, requestVars, faults, history>>

(* GetJob: an unreadable or missing row is the only error the handler      *)
(* returns to the queue, a cancelled one is skipped.                       *)
RunRead(h) ==
  /\ pc[h] = "read"
  /\ \/ /\ Exists(jobs[JobOf(h)])
        /\ Goto(h, "read", IF jobs[JobOf(h)].status = "cancelled" THEN "cleanup" ELSE "mkdir")
        /\ UNCHANGED <<attached, queueVars, faults>>
     \/ /\ (~Exists(jobs[JobOf(h)]) /\ UNCHANGED faults) \/ Fault("db")
        /\ Goto(h, "read", "idle")
        /\ attached' = [attached EXCEPT ![h] = FALSE]
        /\ IF attached[h] THEN RetryOrArchive(runTask[h]) ELSE UNCHANGED queueVars
  /\ UNCHANGED <<jobs, files, runTask, hasDir, reading, requestVars, history>>

(* Mutant: the removal is deferred only for a directory made here.         *)
RunMkdirOwnOnly(h) ==
  /\ \/ /\ Goto(h, "mkdir", "setDownloading")
        /\ work' = [work EXCEPT ![Dir(h)] = IF @ = "absent" THEN "empty" ELSE @]
        /\ hasDir' = [hasDir EXCEPT ![h] = work[Dir(h)] = "absent"]
        /\ deserted' = deserted \ {Dir(h)}
     \/ /\ Goto(h, "mkdir", "fail")
        /\ work[Dir(h)] = "absent"
        /\ UNCHANGED <<work, deserted, hasDir>>
  /\ UNCHANGED <<jobs, stored, runTask, attached, reading, requestVars, queueVars, faults, history>>

(* os.MkdirAll on the node the task was delivered to, which can only fail  *)
(* where there is no directory yet, then the deferred os.RemoveAll.        *)
RunMkdir(h) ==
  /\ \/ /\ Goto(h, "mkdir", "setDownloading")
        /\ work' = [work EXCEPT ![Dir(h)] = IF @ = "absent" THEN "empty" ELSE @]
        /\ hasDir' = [hasDir EXCEPT ![h] = TRUE]
        /\ deserted' = deserted \ {Dir(h)}
     \/ /\ Goto(h, "mkdir", "fail")
        /\ work[Dir(h)] = "absent"
        /\ UNCHANGED <<work, deserted, hasDir>>
  /\ UNCHANGED <<jobs, stored, runTask, attached, reading, requestVars, queueVars, faults, history>>

RunSetStatus(h, from, status, to, loss) ==
  /\ Goto(h, from, to)
  /\ Write(JobOf(h), UpdateJobStatus(jobs[JobOf(h)], status), loss)
  /\ UNCHANGED <<files, runTask, attached, hasDir, reading, requestVars, queueVars, events>>

RunSetDownloading(h) == RunSetStatus(h, "setDownloading", "downloading", "download", {})
RunSetTranscoding(h) == RunSetStatus(h, "setTranscoding", "transcoding", "thumbnail", {})
RunSetUploading(h)   == RunSetStatus(h, "setUploading", "uploading", "upload", {})
RunSetCompleted(h)   == RunSetStatus(h, "setCompleted", "completed", "setFull", {"lostWrite"})

(* NewDownloader and Download, which needs the directory; the probe that   *)
(* follows only fills input_info.                                          *)
RunDownload(h) ==
  /\ \/ /\ Goto(h, "download", "setTranscoding")
        /\ work[Dir(h)] # "absent"
        /\ work' = [work EXCEPT ![Dir(h)] = IF @ = "empty" THEN "input" ELSE @]
     \/ Goto(h, "download", "fail") /\ UNCHANGED work
  /\ UNCHANGED <<jobs, stored, deserted, runTask, attached, hasDir, reading,
                 requestVars, queueVars, faults, history>>

(* The HLS directories, made with all their parents even if another        *)
(* handler has removed them, whose creation may fail, and the thumbnail,   *)
(* which goes to the output URL ahead of the video or is skipped.          *)
RunThumbnail(h) ==
  /\ \/ /\ Goto(h, "thumbnail", "transcode")
        /\ \/ stored' = [stored EXCEPT ![JobOf(h)] = IF @ = "none" THEN "partial" ELSE @]
           \/ UNCHANGED stored
     \/ Goto(h, "thumbnail", "fail") /\ UNCHANGED stored
  /\ \/ work' = [work EXCEPT ![Dir(h)] = IF @ = "absent" THEN "empty" ELSE @]
     \/ UNCHANGED work
  /\ UNCHANGED <<jobs, deserted, runTask, attached, hasDir, reading,
                 requestVars, queueVars, faults, history>>

(* FFmpeg.Run starts ffmpeg, which truncates an output that is there, and  *)
(* the goroutine that reads its progress.                                  *)
RunTranscode(h) ==
  /\ \/ /\ Goto(h, "transcode", "encoding")
        /\ work' = [work EXCEPT ![Dir(h)] = IF @ \in {"absent", "empty"} THEN @ ELSE "partial"]
        /\ reading' = [reading EXCEPT ![h] = TRUE]
     \/ Goto(h, "transcode", "fail") /\ UNCHANGED <<work, reading>>
  /\ UNCHANGED <<jobs, stored, deserted, runTask, attached, hasDir,
                 requestVars, queueVars, faults, history>>

(* cmd.Wait returns.  It does not wait for the reading goroutine.          *)
RunEncoded(h) ==
  /\ \/ /\ Goto(h, "encoding", "setUploading")
        /\ work' = [work EXCEPT ![Dir(h)] = IF @ = "partial" THEN "output" ELSE @]
     \/ Goto(h, "encoding", "fail") /\ UNCHANGED work
  /\ UNCHANGED <<jobs, stored, deserted, runTask, attached, hasDir, reading,
                 requestVars, queueVars, faults, history>>

(* parseProgress calls back for a line it read, during the run or after;   *)
(* a statement of it that fails is as good as none.                        *)
ReportProgress(h) ==
  /\ reading[h]
  /\ \E p \in Progress \ {0} :
       jobs' = [jobs EXCEPT ![JobOf(h)] = UpdateJobProgress(jobs[JobOf(h)], p)]
  /\ Note(JobOf(h), IF pc[h] = "encoding" THEN {} ELSE {"late"})
  /\ UNCHANGED <<files, runVars, requestVars, queueVars, faults, events>>

(* It reaches the end of the pipe.                                         *)
ReadingEnds(h) ==
  /\ reading[h]
  /\ pc[h] # "encoding"
  /\ reading' = [reading EXCEPT ![h] = FALSE]
  /\ UNCHANGED <<jobs, files, pc, runTask, attached, hasDir,
                 requestVars, queueVars, faults, history>>

(* There is something to upload: with HLS a directory that another handler *)
(* of the job has made anew is enough.                                     *)
HasOutput(h) == work[Dir(h)] # "absent"

(* NewUploader and Upload, which puts one object after the other.          *)
RunUpload(h) ==
  /\ \/ /\ Goto(h, "upload", "uploading")
        /\ HasOutput(h)
        /\ stored' = [stored EXCEPT ![JobOf(h)] = IF @ = "none" THEN "partial" ELSE @]
     \/ Goto(h, "upload", "fail") /\ UNCHANGED stored
  /\ UNCHANGED <<jobs, work, deserted, runTask, attached, hasDir, reading,
                 requestVars, queueVars, faults, history>>

(* Mutant: an upload that fails half way counts as done.                   *)
RunUploadedUnchecked(h) ==
  /\ Goto(h, "uploading", "setCompleted")
  /\ stored' = [stored EXCEPT ![JobOf(h)] =
                  IF work[Dir(h)] = "output" THEN "full" ELSE "partial"]
     \/ UNCHANGED stored
  /\ UNCHANGED <<jobs, work, deserted, runTask, attached, hasDir, reading,
                 requestVars, queueVars, faults, history>>

RunUploaded(h) ==
  /\ \/ /\ Goto(h, "uploading", "setCompleted")
        /\ HasOutput(h)
        /\ stored' = [stored EXCEPT ![JobOf(h)] =
                        IF work[Dir(h)] = "output" THEN "full" ELSE "partial"]
     \/ Goto(h, "uploading", "fail") /\ UNCHANGED stored
  /\ UNCHANGED <<jobs, work, deserted, runTask, attached, hasDir, reading,
                 requestVars, queueVars, faults, history>>

(* Mutant: the last report of ffmpeg is taken for the end.                 *)
RunSetFullForgotten(h) ==
  /\ Goto(h, "setFull", "notifyCompleted")
  /\ UNCHANGED <<jobs, files, runTask, attached, hasDir, reading,
                 requestVars, queueVars, faults, history>>

RunSetFull(h) ==
  /\ Goto(h, "setFull", "notifyCompleted")
  /\ Write(JobOf(h), UpdateJobProgress(jobs[JobOf(h)], 100), {"lostFull"})
  /\ UNCHANGED <<files, runTask, attached, hasDir, reading, requestVars, queueVars, events>>

(* failJob.                                                                *)
RunFail(h) ==
  /\ Goto(h, "fail", "notifyFailed")
  /\ Write(JobOf(h), UpdateJobError(jobs[JobOf(h)]), {"lostWrite"})
  /\ UNCHANGED <<files, runTask, attached, hasDir, reading, requestVars, queueVars, events>>

(* Both ends read the row again and send a webhook named for its status;   *)
(* without the row, or when it cannot be read, nothing is sent.            *)
RunNotify(h) ==
  /\ \/ Goto(h, "notifyCompleted", "cleanup")
     \/ Goto(h, "notifyFailed", "cleanup")
  /\ \/ /\ Exists(jobs[JobOf(h)])
        /\ events' = events \cup
             {[job |-> JobOf(h),
               outcome |-> IF pc[h] = "notifyFailed" THEN "failed" ELSE "completed",
               event |-> EventOf(jobs[JobOf(h)])]}
        /\ UNCHANGED faults
     \/ /\ (~Exists(jobs[JobOf(h)]) /\ UNCHANGED faults) \/ Fault("db")
        /\ UNCHANGED events
  /\ UNCHANGED <<jobs, files, runTask, attached, hasDir, reading,
                 requestVars, queueVars, mishap>>

(* The deferred os.RemoveAll runs and the handler returns nil.             *)
RunReturn(h) ==
  /\ Goto(h, "cleanup", "idle")
  /\ work' = [work EXCEPT ![Dir(h)] = IF hasDir[h] THEN "absent" ELSE @]
  /\ hasDir' = [hasDir EXCEPT ![h] = FALSE]
  /\ attached' = [attached EXCEPT ![h] = FALSE]
  /\ IF attached[h] THEN Done(runTask[h]) ELSE UNCHANGED queueVars
  /\ UNCHANGED <<jobs, stored, deserted, runTask, reading, requestVars, faults, history>>

HandleTranscode(h) ==
  \/ RunRead(h) \/ RunMkdir(h) \/ RunSetDownloading(h) \/ RunDownload(h)
  \/ RunSetTranscoding(h) \/ RunThumbnail(h) \/ RunTranscode(h) \/ RunEncoded(h)
  \/ RunSetUploading(h) \/ RunUpload(h) \/ RunUploaded(h)
  \/ RunSetCompleted(h) \/ RunSetFull(h) \/ RunFail(h) \/ RunNotify(h) \/ RunReturn(h)

-----------------------------------------------------------------------------
(* What the queue does behind a handler's back.  HandleTranscode ignores   *)
(* the context asynq passes it, so it goes on after any of these.          *)

(* asynq's default deadline passes, or the lease on the task is lost.      *)
Deadline(h) ==
  /\ attached[h]
  /\ Fault("deadline")
  /\ attached' = [attached EXCEPT ![h] = FALSE]
  /\ RetryOrArchive(runTask[h])
  /\ UNCHANGED <<jobs, files, pc, runTask, hasDir, reading, requestVars, history>>

(* Worker.Stop waits some seconds and puts back what the handlers of its   *)
(* process have not finished.  main then cancels the context of every      *)
(* statement and exits: the statements that fail for it and the end of the *)
(* process are faults of their own here.                                   *)
Shutdown(n) ==
  LET unfinished == {h \in Runs : Host[h] = n /\ attached[h]} IN
  /\ unfinished # {}
  /\ Fault("shutdown")
  /\ attached' = [h \in Runs |-> attached[h] /\ h \notin unfinished]
  /\ Requeue({runTask[h] : h \in unfinished})
  /\ UNCHANGED <<jobs, files, pc, runTask, hasDir, reading, requestVars, history>>

(* A process ends with all it has in hand.  Its directories stay, and      *)
(* nobody but a later handler of the same job on the same node ever comes  *)
(* back to them.                                                           *)
InHand(n) ==
  \/ \E h \in Runs : Host[h] = n /\ (InFlight(h) \/ reading[h])
  \/ \E r \in Requests : Host[r] = n /\ reqPc[r] \notin {"idle", "done"}

LostWith(n, j) ==
  {m \in {"lostRun", "lostEnqueue"} :
     \/ /\ m = "lostRun"
        /\ \E h \in Runs : Host[h] = n /\ InFlight(h) /\ ~attached[h] /\ JobOf(h) = j
     \/ /\ m = "lostEnqueue"
        /\ \E r \in Requests : Host[r] = n /\ reqPc[r] \in Submitting /\ reqJob[r] = j}

ProcessEnds(n) ==
  /\ InHand(n)
  /\ Fault("crash")
  /\ pc' = [h \in Runs |-> IF Host[h] = n THEN "idle" ELSE pc[h]]
  /\ attached' = [h \in Runs |-> attached[h] /\ Host[h] # n]
  /\ hasDir' = [h \in Runs |-> hasDir[h] /\ Host[h] # n]
  /\ reading' = [h \in Runs |-> reading[h] /\ Host[h] # n]
  /\ reqPc' = [r \in Requests |->
                 IF Host[r] = n /\ reqPc[r] # "idle" THEN "done" ELSE reqPc[r]]
  /\ deserted' = deserted \cup {Dir(h) : h \in {g \in Runs : Host[g] = n /\ InFlight(g) /\ hasDir[g]}}
  /\ mishap' = [j \in Jobs |-> mishap[j] \cup LostWith(n, j)]
  /\ UNCHANGED <<jobs, stored, work, runTask, reqJob, queueVars, events>>

(* The recoverer finds an active task whose lease nobody extends.          *)
Recover(t) ==
  /\ taskState[t] = "active"
  /\ \A h \in Runs : ~(attached[h] /\ runTask[h] = t)
  /\ RetryOrArchive(t)
  /\ UNCHANGED <<jobs, files, runVars, requestVars, faults, history>>

Next ==
  \/ \E r \in Requests : RequestNext(r)
  \/ \E h \in Runs : \/ Dispatch(h) \/ HandleTranscode(h)
                     \/ ReportProgress(h) \/ ReadingEnds(h)
                     \/ Deadline(h)
  \/ \E n \in Nodes : Shutdown(n) \/ ProcessEnds(n)
  \/ \E t \in Tasks : Recover(t)

Spec == Init /\ [][Next]_vars

(* A started request, a called handler, a finished ffmpeg and the queue go *)
(* on; nobody has to send a request, and no fault has to strike.           *)
RequestProgress(r) ==
  \/ CreateEnqueue(r) \/ AutoEnqueue(r) \/ CreateFail(r)
  \/ DeleteCancel(r) \/ PurgeOutput(r) \/ DeleteRow(r)
  \/ RetryPending(r) \/ RetryProgress(r) \/ RetryEnqueue(r)

Fairness ==
  /\ \A r \in Requests : WF_vars(RequestProgress(r))
  /\ \A h \in Runs : WF_vars(HandleTranscode(h)) /\ WF_vars(ReadingEnds(h)) /\ WF_vars(Dispatch(h))
  /\ \A t \in Tasks : WF_vars(Recover(t))

FairSpec == Spec /\ Fairness

-----------------------------------------------------------------------------
(* Properties.                                                             *)

(* The columns of a row agree although five statements write them: failed  *)
(* always comes with an error_message, an error_message never survives on  *)
(* a job that runs again or completes, and completed_at is set on every    *)
(* settled job and cleared on a pending one (database.go UpdateJobStatus,  *)
(* UpdateJobError).                                                        *)
RowsAgree ==
  \A j \in Jobs :
    /\ jobs[j].status = "failed" => jobs[j].error
    /\ jobs[j].error => jobs[j].status \in {"failed", "cancelled"}
    /\ jobs[j].status \in Settled => jobs[j].finished
    /\ jobs[j].status = "pending" => ~jobs[j].finished

(* How the parts refer to each other: tasks to jobs, handlers to tasks,    *)
(* requests to jobs, and at most one handler that the queue waits for to   *)
(* each active task (handler.go HandleTranscode, worker.go EnqueueJob).    *)
Wiring ==
  /\ \A t \in Tasks : taskState[t] # "free" => taskJob[t] \in Jobs
  /\ \A h \in Runs : InFlight(h) \/ reading[h] =>
       runTask[h] \in Tasks /\ taskState[runTask[h]] # "free"
  /\ \A h \in Runs : attached[h] => InFlight(h) /\ taskState[runTask[h]] = "active"
  /\ \A g, h \in Runs : attached[g] /\ attached[h] /\ runTask[g] = runTask[h] => g = h
  /\ \A r \in Requests : reqPc[r] # "idle" => reqJob[r] \in Jobs

(* Who can still move job j: a request that has to enqueue or fail it, a   *)
(* task whose handler has not read the row yet, or a handler that has not  *)
(* settled it yet.                                                         *)
LiveTask(t) ==
  \/ taskState[t] = "queued"
  \/ /\ taskState[t] = "active"
     /\ \A h \in Runs : attached[h] /\ runTask[h] = t => pc[h] = "read"

Driven(j) ==
  \/ \E r \in Requests : reqJob[r] = j /\ reqPc[r] \in Submitting
  \/ \E t \in Tasks : taskJob[t] = j /\ LiveTask(t)
  \/ \E h \in Runs : pc[h] \in Working /\ JobOf(h) = j

(* What strands a job: its queue gave up on it, the submitter or a handler *)
(* died at the wrong moment, or the statement that settles the row failed. *)
Stranded(j) ==
  \/ mishap[j] \cap {"lostEnqueue", "lostWrite", "lostRun"} # {}
  \/ \E t \in Tasks : taskJob[t] = j /\ taskState[t] = "archived"

(* No interleaving of requests, deliveries and handlers leaves a row in    *)
(* pending, downloading, transcoding or uploading with nobody to move it   *)
(* on: nothing else in the code ever looks for such rows, and Retry        *)
(* refuses them.  The exceptions are exactly the faults of Stranded.       *)
ActiveJobsAreDriven ==
  \A j \in Jobs : jobs[j].status \in Active => Driven(j) \/ Stranded(j)

(* A job that says completed has all of its output at the output URL,      *)
(* unless handlers of the job overlapped in its directory or an upload     *)
(* deletion removed the output (and then failed to delete the row).        *)
CompletedHasOutput ==
  \A j \in Jobs :
    jobs[j].status = "completed" =>
      stored[j] = "full" \/ mishap[j] \cap {"overlap", "purged"} # {}

(* Working directories do not pile up on any node, whatever becomes of the *)
(* job, its other handlers and its row: a directory has a handler that     *)
(* will remove it, or that handler was killed and no later one of the job  *)
(* has come to the same node (handler.go:58-63, ARCHITECTURE.md Security). *)
DirectoriesAreRemoved ==
  \A n \in Nodes, j \in Jobs :
    work[<<n, j>>] # "absent" =>
      \/ <<n, j>> \in deserted
      \/ \E h \in Runs : InFlight(h) /\ Dir(h) = <<n, j>>

(* A job that says completed says 100 percent, whatever ran beside it:     *)
(* reports of other handlers and the reset of a retry that comes late are  *)
(* always followed by a handler that will say so or fail the job.  Only a  *)
(* report of a goroutine that has outlived its ffmpeg, which Run does not  *)
(* wait for, or a lost statement leaves another number (ffmpeg.go Run,     *)
(* handler.go HandleTranscode, jobs.go Retry).                             *)
CompletedIsFull ==
  \A j \in Jobs :
    /\ jobs[j].status = "completed"
    /\ jobs[j].progress # 100
    => \/ Driven(j) \/ Stranded(j)
       \/ \E h \in Runs : pc[h] = "setFull" /\ JobOf(h) = j
       \/ mishap[j] \cap {"late", "lostFull"} # {}

(* Requests that concern job j: its submission, deletions and retries.     *)
About(r, j)  == reqPc[r] # "idle" /\ reqJob[r] = j
Contested(j) == \E q, r \in Requests : q # r /\ About(q, j) /\ About(r, j)

(* Handlers of a job take turns, although nothing in the row or on disk    *)
(* keeps them apart: only when the queue has stopped waiting for one of    *)
(* them, or a second request has meddled with the job, may two be at work  *)
(* at once, in one directory and on one row (worker.go EnqueueJob,         *)
(* handler.go HandleTranscode).                                            *)
HandlersTakeTurns ==
  \A g, h \in Runs :
    g # h /\ InFlight(g) /\ InFlight(h) /\ JobOf(g) = JobOf(h) =>
      ~attached[g] \/ ~attached[h] \/ Contested(JobOf(g))

(* A deleted row never comes back, however many handlers and requests that *)
(* read it before the DELETE still write to it.                            *)
DeletedStaysDeleted ==
  [][\A j \in Jobs : jobs[j].status = "deleted" => jobs'[j].status = "deleted"]_vars

-----------------------------------------------------------------------------
(* The contract that all of this implements.                               *)

(* A task that will still be handled: it is queued, its handler has yet to *)
(* read the row, or its handler is gone and it has a delivery left.        *)
WillRun(t) ==
  \/ taskState[t] = "queued"
  \/ /\ taskState[t] = "active"
     /\ \A h \in Runs : attached[h] /\ runTask[h] = t => pc[h] = "read"
     /\ (\E h \in Runs : attached[h] /\ runTask[h] = t) \/ retried[t] < MaxRetry

Owed(j) ==
  \/ \E h \in Runs : pc[h] \in Working /\ JobOf(h) = j
  \/ \E r \in Requests : reqJob[r] = j /\ reqPc[r] \in Submitting
  \/ \E t \in Tasks : taskJob[t] = j /\ WillRun(t)

Phase(j) ==
  CASE jobs[j].status = "unborn"  -> "unborn"
    [] jobs[j].status = "deleted" -> "gone"
    [] jobs[j].status \in Settled -> "settled"
    [] OTHER -> IF Owed(j) THEN "owed" ELSE "lost"

Contract == INSTANCE JobContract WITH phase <- [j \in Jobs |-> Phase(j)]

(* Requests, handlers and the queue together keep the contract: a job that *)
(* nobody will move on any more was lost in the very step of a fault, to   *)
(* each fault at most as many as one process had in hand, and no step of   *)
(* one job loses, settles or opens another (jobs.go, handler.go,           *)
(* worker.go, scanner.go, main.go).                                        *)
KeepsContract == Contract!Spec

(* And whatever it owes it pays in the end: worker crashes, shutdowns and  *)
(* deadlines whose tasks are delivered again do not keep a job from its    *)
(* end, and no two handlers of a job keep each other from theirs.          *)
EventuallySettled == Contract!DebtsArePaid

-----------------------------------------------------------------------------
(* A statement of the documentation that the code does not keep.           *)

(* API.md, Webhook Payload: job.completed is the event of a job that       *)
(* completes.  Then no handler that failed would send it.                  *)
CompletedEventMeansCompleted ==
  \A e \in events : e.event = "job.completed" => e.outcome = "completed"
=============================================================================
