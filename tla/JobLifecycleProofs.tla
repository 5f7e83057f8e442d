------------------------- MODULE JobLifecycleProofs -------------------------
(***************************************************************************)
(* Proofs about JobLifecycle for any sets of jobs, tasks, handlers,        *)
(* requests and nodes, any placement of handlers and requests on the       *)
(* nodes, any kinds and number of faults and any number of retries: its    *)
(* invariants, that it implements JobContract and what that is worth, and  *)
(* what holds of a job that is left to itself.                             *)
(***************************************************************************)
EXTENDS JobLifecycle, FiniteSetTheorems, TLAPS

-----------------------------------------------------------------------------
(* The statements of the jobs table.                                       *)

(* Every statement of database.go maps rows to rows.                       *)
LEMMA StatementsKeepRows ==
  ASSUME NEW row \in Row
  PROVE  /\ NoRow("unborn") \in Row
         /\ CreateJob \in Row
         /\ \A s \in JobStatus : UpdateJobStatus(row, s) \in Row
         /\ \A p \in Progress : UpdateJobProgress(row, p) \in Row
         /\ UpdateJobError(row) \in Row
         /\ DeleteJob(row) \in Row
<1>1. NoRow("unborn") \in Row /\ NoRow("deleted") \in Row
  BY DEF NoRow, Row, RowStatus, Progress
<1>2. CreateJob \in Row
  BY DEF CreateJob, NoRow, Row, RowStatus, Progress, JobStatus, Active
<1>3. ASSUME NEW s \in JobStatus PROVE UpdateJobStatus(row, s) \in Row
  BY <1>3 DEF UpdateJobStatus, Row, RowStatus
<1>4. ASSUME NEW p \in Progress PROVE UpdateJobProgress(row, p) \in Row
  BY <1>4 DEF UpdateJobProgress, Row
<1>5. UpdateJobError(row) \in Row
  BY DEF UpdateJobError, Row, RowStatus, JobStatus, Settled
<1>6. DeleteJob(row) \in Row
  BY <1>1 DEF DeleteJob
<1> QED BY <1>1, <1>2, <1>3, <1>4, <1>5, <1>6

(* What a statement leaves of the status of a row.                         *)
LEMMA StatementsAndStatus ==
  ASSUME NEW row \in Row
  PROVE  /\ \A s \in JobStatus : UpdateJobStatus(row, s).status = IF Exists(row) THEN s ELSE row.status
         /\ \A p \in Progress : UpdateJobProgress(row, p).status = row.status
         /\ UpdateJobError(row).status = IF Exists(row) THEN "failed" ELSE row.status
         /\ DeleteJob(row).status = IF Exists(row) THEN "deleted" ELSE row.status
         /\ CreateJob.status = "pending"
         /\ NoRow("unborn").status = "unborn"
         /\ row.status \in RowStatus
<1>1. ASSUME NEW s \in JobStatus
      PROVE UpdateJobStatus(row, s).status = IF Exists(row) THEN s ELSE row.status
  BY <1>1 DEF UpdateJobStatus, Row
<1>2. ASSUME NEW p \in Progress PROVE UpdateJobProgress(row, p).status = row.status
  BY <1>2 DEF UpdateJobProgress, Row
<1>3. UpdateJobError(row).status = IF Exists(row) THEN "failed" ELSE row.status
  BY DEF UpdateJobError, Row
<1>4. DeleteJob(row).status = IF Exists(row) THEN "deleted" ELSE row.status
  BY DEF DeleteJob, NoRow
<1>5. CreateJob.status = "pending" /\ NoRow("unborn").status = "unborn"
  BY DEF CreateJob, NoRow
<1>6. row.status \in RowStatus
  BY DEF Row
<1> QED BY <1>1, <1>2, <1>3, <1>4, <1>5, <1>6

-----------------------------------------------------------------------------
(* Type correctness, with the references between the parts.                *)

(* Every handler works in a directory of its node.                         *)
LEMMA RunHasPlace ==
  ASSUME TypeOK, Wiring, NEW h \in Runs
  PROVE  /\ Host[h] \in Nodes
         /\ InFlight(h) => Dir(h) \in Nodes \X Jobs
BY HostAssumption DEF Dir, JobOf, Wiring, InFlight

LEMMA InitTyped == Init => TypeOK /\ Wiring
<1> SUFFICES ASSUME Init PROVE TypeOK /\ Wiring
  OBVIOUS
<1>1. QueueTypeOK
  BY MaxRetryAssumption DEF Init, QueueInit, QueueTypeOK, TaskState
<1>2. jobs \in [Jobs -> Row]
  BY DEF Init, NoRow, Row, RowStatus, Progress
<1>3. TypeOK
  BY <1>1, <1>2, MaxFaultsAssumption
  DEF Init, TypeOK, Stored, DirState, RunPc, RequestPc
<1>4. Wiring
  BY DEF Init, QueueInit, Wiring, InFlight
<1> QED BY <1>3, <1>4

(* A handler at work, or one whose reader still runs, has a job.           *)
LEMMA RunHasJob ==
  ASSUME TypeOK, Wiring, NEW h \in Runs, InFlight(h) \/ reading[h]
  PROVE  runTask[h] \in Tasks /\ JobOf(h) \in Jobs
BY DEF Wiring, JobOf, InFlight

LEMMA WriteTyped ==
  ASSUME TypeOK, NEW j \in Jobs, NEW row \in Row, NEW loss \in SUBSET Mishap,
         Write(j, row, loss)
  PROVE  /\ jobs' \in [Jobs -> Row]
         /\ faults' \in 0 .. MaxFaults
         /\ mishap' \in [Jobs -> SUBSET Mishap]
BY MaxFaultsAssumption DEF TypeOK, Write, Fault, Note

(* Enqueuing a task disturbs no task that is already there.                *)
LEMMA EnqueueTyped ==
  ASSUME TypeOK, Wiring, NEW j \in Jobs, EnqueueJob(j)
  PROVE  /\ QueueTypeOK'
         /\ \A t \in Tasks : taskState'[t] # "free" => taskJob'[t] \in Jobs
         /\ \A t \in Tasks : taskState[t] # "free" =>
              taskState'[t] = taskState[t] /\ taskJob'[t] = taskJob[t]
<1>1. PICK t \in Tasks :
        /\ taskState[t] = "free"
        /\ taskState' = [taskState EXCEPT ![t] = "queued"]
        /\ taskJob' = [taskJob EXCEPT ![t] = j]
        /\ UNCHANGED retried
  BY DEF EnqueueJob
<1>2. QueueTypeOK'
  BY <1>1 DEF TypeOK, QueueTypeOK, TaskState
<1>3. ASSUME NEW u \in Tasks, taskState'[u] # "free" PROVE taskJob'[u] \in Jobs
  BY <1>1, <1>3 DEF TypeOK, QueueTypeOK, Wiring
<1>4. ASSUME NEW u \in Tasks, taskState[u] # "free"
      PROVE  taskState'[u] = taskState[u] /\ taskJob'[u] = taskJob[u]
  BY <1>1, <1>4 DEF TypeOK, QueueTypeOK
<1> QED BY <1>2, <1>3, <1>4

(* What every step of a request has in common.                             *)
LEMMA RequestFrame ==
  ASSUME TypeOK, Wiring,
         NEW r \in Requests, NEW j \in Jobs, NEW to \in RequestPc,
         reqPc' = [reqPc EXCEPT ![r] = to],
         reqJob' = [reqJob EXCEPT ![r] = j],
         EnqueueJob(j) \/ UNCHANGED queueVars,
         UNCHANGED <<work, deserted, runVars, events>>,
         jobs' \in [Jobs -> Row],
         stored' \in [Jobs -> Stored],
         faults' \in 0 .. MaxFaults,
         mishap' \in [Jobs -> SUBSET Mishap]
  PROVE  TypeOK' /\ Wiring'
<1>1. /\ QueueTypeOK'
      /\ \A t \in Tasks : taskState'[t] # "free" => taskJob'[t] \in Jobs
      /\ \A t \in Tasks : taskState[t] # "free" => taskState'[t] = taskState[t]
  <2>1. CASE EnqueueJob(j)
    BY <2>1, EnqueueTyped
  <2>2. CASE UNCHANGED queueVars
    BY <2>2 DEF queueVars, TypeOK, QueueTypeOK, Wiring
  <2> QED BY <2>1, <2>2
<1>2. reqPc' \in [Requests -> RequestPc] /\ reqJob' \in [Requests -> Jobs \cup {NoJob}]
  BY DEF TypeOK
<1>3. TypeOK'
  BY <1>1, <1>2 DEF TypeOK, runVars
<1>4. \A q \in Requests : reqPc'[q] # "idle" => reqJob'[q] \in Jobs
  BY DEF TypeOK, Wiring
<1>5. Wiring'
  BY <1>1, <1>4 DEF Wiring, InFlight, runVars, TypeOK
<1> QED BY <1>3, <1>5

LEMMA RequestKeepsTypes ==
  ASSUME TypeOK, Wiring, NEW r \in Requests, RequestNext(r)
  PROVE  TypeOK' /\ Wiring'
<1> DEFINE j == reqJob[r]
<1> USE DEF RequestPc, Submitting
<1>0. reqPc[r] # "idle" => j \in Jobs /\ jobs[j] \in Row
  BY DEF Wiring, TypeOK
<1>1. CASE Create(r)
  <2>1. PICK i \in Jobs :
          /\ Begin(r, i, "createEnqueue") \/ Begin(r, i, "autoEnqueue")
          /\ jobs' = [jobs EXCEPT ![i] = CreateJob]
          /\ UNCHANGED <<files, runVars, queueVars, faults, history>>
    BY <1>1 DEF Create
  <2>2. jobs[i] \in Row /\ CreateJob \in Row
    BY StatementsKeepRows DEF TypeOK
  <2>3. jobs' \in [Jobs -> Row]
    BY <2>1, <2>2 DEF TypeOK
  <2> QED
    BY <2>1, <2>3, RequestFrame DEF Begin, files, history, TypeOK
<1>2. CASE CreateEnqueue(r) \/ AutoEnqueue(r) \/ RetryEnqueue(r)
  <2>1. PICK from \in RequestPc \ {"idle"}, err \in RequestPc : Enqueue(r, from, err)
    BY <1>2 DEF CreateEnqueue, AutoEnqueue, RetryEnqueue
  <2>2. PICK to \in RequestPc : Step(r, from, to)
    BY <2>1 DEF Enqueue
  <2>3. j \in Jobs /\ reqJob' = [reqJob EXCEPT ![r] = j]
    BY <1>0, <2>2 DEF Step, TypeOK
  <2>4. faults' \in 0 .. MaxFaults /\ mishap' \in [Jobs -> SUBSET Mishap]
    BY <2>1, MaxFaultsAssumption DEF Enqueue, Fault, Note, TypeOK, Mishap
  <2>5. EnqueueJob(j) \/ UNCHANGED queueVars
    BY <2>1 DEF Enqueue
  <2> QED
    BY <2>1, <2>2, <2>3, <2>4, <2>5, RequestFrame DEF Enqueue, Step, files, TypeOK
<1>3. CASE CreateFail(r) \/ DeleteCancel(r) \/ DeleteRow(r) \/ RetryPending(r) \/ RetryProgress(r)
  <2>1. PICK from \in RequestPc \ {"idle"}, to \in RequestPc : Step(r, from, to)
    BY <1>3 DEF CreateFail, DeleteCancel, DeleteRow, RetryPending, RetryProgress
  <2>2. j \in Jobs /\ jobs[j] \in Row /\ reqJob' = [reqJob EXCEPT ![r] = j]
    BY <1>0, <2>1 DEF Step, TypeOK
  <2>3. PICK row \in Row, loss \in SUBSET Mishap : Write(j, row, loss)
    BY <1>3, <2>2, StatementsKeepRows
    DEF CreateFail, DeleteCancel, DeleteRow, RetryPending, RetryProgress,
        Mishap, JobStatus, Active, Settled, Progress
  <2>4. UNCHANGED <<files, runVars, queueVars, events>>
    BY <1>3 DEF CreateFail, DeleteCancel, DeleteRow, RetryPending, RetryProgress
  <2>5. /\ jobs' \in [Jobs -> Row]
        /\ faults' \in 0 .. MaxFaults
        /\ mishap' \in [Jobs -> SUBSET Mishap]
    BY <2>2, <2>3, WriteTyped
  <2> QED
    BY <2>1, <2>2, <2>4, <2>5, RequestFrame DEF Step, files, TypeOK
<1>4. CASE DeleteRead(r) \/ RetryRead(r)
  <2>1. PICK i \in Jobs, to \in RequestPc :
          Begin(r, i, to) /\ UNCHANGED <<jobs, files, runVars, queueVars, faults, history>>
    BY <1>4 DEF DeleteRead, RetryRead
  <2> QED
    BY <2>1, RequestFrame DEF Begin, files, history, TypeOK
<1>5. CASE PurgeOutput(r)
  <2>1. /\ Step(r, "purgeOutput", "purgeRow")
        /\ Note(j, {"purged"})
        /\ UNCHANGED <<jobs, work, deserted, runVars, queueVars, faults, events>>
        /\ \E left \in Stored : stored' = [stored EXCEPT ![j] = left]
    BY <1>0, <1>5 DEF PurgeOutput, Stored, TypeOK, Step
  <2>2. j \in Jobs /\ reqJob' = [reqJob EXCEPT ![r] = j]
    BY <1>0, <2>1 DEF Step, TypeOK
  <2>3. mishap' \in [Jobs -> SUBSET Mishap] /\ stored' \in [Jobs -> Stored]
    BY <2>1, <2>2 DEF Note, TypeOK, Mishap
  <2> QED
    BY <2>1, <2>2, <2>3, RequestFrame DEF Step, TypeOK
<1> QED
  BY <1>1, <1>2, <1>3, <1>4, <1>5 DEF RequestNext

(* What every statement of a handler between its read and its return has   *)
(* in common.                                                              *)
LEMMA RunFrame ==
  ASSUME TypeOK, Wiring,
         NEW h \in Runs, NEW to \in RunPc \ {"idle"}, InFlight(h),
         pc' = [pc EXCEPT ![h] = to],
         UNCHANGED <<runTask, attached, requestVars, queueVars>>,
         jobs' \in [Jobs -> Row],
         stored' \in [Jobs -> Stored],
         work' \in [Nodes \X Jobs -> DirState],
         deserted' \subseteq Nodes \X Jobs,
         hasDir' \in [Runs -> BOOLEAN],
         reading' = reading \/ reading' = [reading EXCEPT ![h] = TRUE],
         faults' \in 0 .. MaxFaults,
         mishap' \in [Jobs -> SUBSET Mishap],
         events' \subseteq Event
  PROVE  TypeOK' /\ Wiring'
<1>1. TypeOK'
  BY DEF TypeOK, QueueTypeOK, queueVars, requestVars
<1>2. \A g \in Runs : (InFlight(g) \/ reading[g])' => InFlight(g) \/ reading[g]
  BY DEF TypeOK, InFlight
<1>3. \A g \in Runs : InFlight(g) => InFlight(g)'
  BY DEF TypeOK, InFlight
<1>4. Wiring'
  BY <1>2, <1>3 DEF Wiring, queueVars, requestVars
<1> QED BY <1>1, <1>4

LEMMA HandlerKeepsTypes ==
  ASSUME TypeOK, Wiring, NEW h \in Runs, HandleTranscode(h)
  PROVE  TypeOK' /\ Wiring'
<1> DEFINE j == JobOf(h)
<1> USE DEF RunPc, Working, Ending
<1>0. InFlight(h) /\ runTask[h] \in Tasks /\ j \in Jobs /\ jobs[j] \in Row
  <2>1. InFlight(h)
    BY DEF HandleTranscode, RunRead, RunMkdir, RunSetDownloading, RunDownload,
           RunSetTranscoding, RunThumbnail, RunTranscode, RunEncoded, RunSetUploading,
           RunUpload, RunUploaded, RunSetCompleted, RunSetFull, RunFail, RunNotify,
           RunReturn, RunSetStatus, Goto, InFlight
  <2> QED BY <2>1, RunHasJob DEF TypeOK
<1>1. CASE RunSetDownloading(h) \/ RunSetTranscoding(h) \/ RunSetUploading(h)
           \/ RunSetCompleted(h) \/ RunSetFull(h) \/ RunFail(h)
  <2>1. PICK to \in RunPc \ {"idle"} : pc' = [pc EXCEPT ![h] = to]
    BY <1>1 DEF RunSetDownloading, RunSetTranscoding, RunSetUploading,
                RunSetCompleted, RunSetFull, RunFail, RunSetStatus, Goto
  <2>2. PICK row \in Row, loss \in SUBSET Mishap : Write(j, row, loss)
    BY <1>0, <1>1, StatementsKeepRows
    DEF RunSetDownloading, RunSetTranscoding, RunSetUploading, RunSetCompleted,
        RunSetFull, RunFail, RunSetStatus, Mishap, JobStatus, Active, Running, Settled, Progress
  <2>3. UNCHANGED <<files, runTask, attached, hasDir, reading, requestVars, queueVars, events>>
    BY <1>1 DEF RunSetDownloading, RunSetTranscoding, RunSetUploading,
                RunSetCompleted, RunSetFull, RunFail, RunSetStatus
  <2>4. /\ jobs' \in [Jobs -> Row]
        /\ faults' \in 0 .. MaxFaults
        /\ mishap' \in [Jobs -> SUBSET Mishap]
    BY <1>0, <2>2, WriteTyped
  <2> QED
    BY <1>0, <2>1, <2>3, <2>4, RunFrame DEF TypeOK, files
<1>2. CASE RunMkdir(h) \/ RunDownload(h) \/ RunThumbnail(h) \/ RunTranscode(h)
           \/ RunEncoded(h) \/ RunUpload(h) \/ RunUploaded(h)
  <2> USE DEF RunMkdir, RunDownload, RunThumbnail, RunTranscode, RunEncoded, RunUpload, RunUploaded
  <2>1. PICK to \in RunPc \ {"idle"} : pc' = [pc EXCEPT ![h] = to]
    BY <1>2 DEF Goto
  <2>2. UNCHANGED <<jobs, runTask, attached, requestVars, queueVars, faults, history>>
    BY <1>2
  <2>3. stored' \in [Jobs -> Stored]
    BY <1>0, <1>2 DEF Stored, TypeOK
  <2>4. /\ work' \in [Nodes \X Jobs -> DirState]
        /\ deserted' \subseteq Nodes \X Jobs
    BY <1>0, <1>2, RunHasPlace DEF DirState, TypeOK
  <2>5. hasDir' \in [Runs -> BOOLEAN]
    BY <1>2 DEF TypeOK
  <2>6. reading' = reading \/ reading' = [reading EXCEPT ![h] = TRUE]
    BY <1>2
  <2> QED
    BY <1>0, <2>1, <2>2, <2>3, <2>4, <2>5, <2>6, RunFrame DEF TypeOK, history
<1>3. CASE RunNotify(h)
  <2>1. PICK to \in RunPc \ {"idle"} : pc' = [pc EXCEPT ![h] = to]
    BY <1>3 DEF RunNotify, Goto
  <2>2. events' \subseteq Event
    BY <1>0, <1>3 DEF RunNotify, EventOf, Event, TypeOK
  <2>3. faults' \in 0 .. MaxFaults
    BY <1>3, MaxFaultsAssumption DEF RunNotify, Fault, TypeOK
  <2> QED
    BY <1>0, <1>3, <2>1, <2>2, <2>3, RunFrame DEF RunNotify, TypeOK, files
<1>4. CASE RunRead(h)
  <2>1. UNCHANGED <<jobs, files, runTask, hasDir, reading, requestVars, history>>
    BY <1>4 DEF RunRead
  <2>2. CASE \E to \in {"cleanup", "mkdir"} :
               Goto(h, "read", to) /\ UNCHANGED <<attached, queueVars, faults>>
    BY <1>0, <2>1, <2>2, RunFrame DEF Goto, TypeOK, files, history
  <2>3. CASE /\ UNCHANGED faults \/ Fault("db")
             /\ Goto(h, "read", "idle")
             /\ attached' = [attached EXCEPT ![h] = FALSE]
             /\ IF attached[h] THEN RetryOrArchive(runTask[h]) ELSE UNCHANGED queueVars
    <3>1. faults' \in 0 .. MaxFaults
      BY <2>3, MaxFaultsAssumption DEF Fault, TypeOK
    <3>2. QueueTypeOK'
      BY <1>0, <2>3, MaxRetryAssumption
      DEF RetryOrArchive, TypeOK, QueueTypeOK, TaskState, queueVars
    <3>3. TypeOK'
      BY <2>1, <2>3, <3>1, <3>2 DEF TypeOK, Goto, files, requestVars, history
    <3>4. taskJob' = taskJob /\ \A t \in Tasks : taskState'[t] = "free" <=> taskState[t] = "free"
      BY <1>0, <2>3, MaxRetryAssumption
      DEF RetryOrArchive, queueVars, TypeOK, QueueTypeOK, Wiring
    <3>5. \A g \in Runs : attached'[g] => taskState'[runTask[g]] = taskState[runTask[g]]
      BY <1>0, <2>3 DEF RetryOrArchive, queueVars, TypeOK, QueueTypeOK, Wiring
    <3>6. Wiring'
      BY <2>1, <2>3, <3>4, <3>5 DEF Wiring, Goto, InFlight, TypeOK, requestVars
    <3> QED BY <3>3, <3>6
  <2> QED
    BY <1>4, <2>2, <2>3 DEF RunRead
<1>5. CASE RunReturn(h)
  <2>1. QueueTypeOK'
    BY <1>0, <1>5 DEF RunReturn, Done, TypeOK, QueueTypeOK, TaskState, queueVars
  <2>2. work' \in [Nodes \X Jobs -> DirState]
    BY <1>5 DEF RunReturn, TypeOK, DirState
  <2>3. TypeOK'
    BY <1>5, <2>1, <2>2 DEF RunReturn, TypeOK, Goto, requestVars, history
  <2>4. taskJob' = taskJob /\ \A t \in Tasks : taskState'[t] = "free" <=> taskState[t] = "free"
    BY <1>0, <1>5 DEF RunReturn, Done, queueVars, TypeOK, QueueTypeOK, Wiring
  <2>5. \A g \in Runs : attached'[g] => taskState'[runTask[g]] = taskState[runTask[g]]
    BY <1>0, <1>5 DEF RunReturn, Done, queueVars, TypeOK, QueueTypeOK, Wiring
  <2>6. Wiring'
    BY <1>5, <2>4, <2>5 DEF RunReturn, Wiring, Goto, InFlight, TypeOK, requestVars
  <2> QED BY <2>3, <2>6
<1> QED
  BY <1>1, <1>2, <1>3, <1>4, <1>5 DEF HandleTranscode

(* A shutdown puts back exactly the tasks the queue waits for on the node. *)
LEMMA ShutdownHandsBack ==
  ASSUME TypeOK, Wiring, NEW n \in Nodes, Shutdown(n)
  PROVE  /\ UNCHANGED <<jobs, files, pc, runTask, hasDir, reading, requestVars,
                        history, taskJob, retried>>
         /\ \A h \in Runs : attached'[h] <=> attached[h] /\ Host[h] # n
         /\ \A h \in Runs : attached[h] => runTask[h] \in Tasks
         /\ \A h \in Runs : attached[h] /\ Host[h] = n => taskState'[runTask[h]] = "queued"
         /\ \A h \in Runs : attached[h] /\ Host[h] # n => taskState'[runTask[h]] = taskState[runTask[h]]
         /\ \A t \in Tasks :
              \/ taskState'[t] = taskState[t]
              \/ taskState[t] = "active" /\ taskState'[t] = "queued"
<1> DEFINE U == {h \in Runs : Host[h] = n /\ attached[h]}
<1>1. /\ attached' = [h \in Runs |-> attached[h] /\ h \notin U]
      /\ taskState' = [t \in Tasks |-> IF t \in {runTask[h] : h \in U} THEN "queued" ELSE taskState[t]]
      /\ UNCHANGED <<jobs, files, pc, runTask, hasDir, reading, requestVars,
                     history, taskJob, retried>>
  BY DEF Shutdown, Requeue
<1>2. \A h \in Runs : attached[h] => runTask[h] \in Tasks /\ taskState[runTask[h]] = "active"
  BY DEF Wiring
<1>3. \A h \in Runs : attached'[h] <=> attached[h] /\ Host[h] # n
  BY <1>1 DEF TypeOK
<1>4. \A h \in Runs : attached[h] /\ Host[h] = n => taskState'[runTask[h]] = "queued"
  BY <1>1, <1>2
<1>5. \A h \in Runs : attached[h] /\ Host[h] # n => taskState'[runTask[h]] = taskState[runTask[h]]
  BY <1>1, <1>2 DEF Wiring
<1>6. \A t \in Tasks : \/ taskState'[t] = taskState[t]
                       \/ taskState[t] = "active" /\ taskState'[t] = "queued"
  BY <1>1, <1>2
<1> QED BY <1>1, <1>2, <1>3, <1>4, <1>5, <1>6

(* What a process that ends takes with it, and what stays on record.       *)
LEMMA ProcessLeaves ==
  ASSUME TypeOK, Wiring, NEW n \in Nodes, ProcessEnds(n)
  PROVE  /\ UNCHANGED <<jobs, stored, work, runTask, reqJob, queueVars, events>>
         /\ \A h \in Runs :
              /\ JobOf(h)' = JobOf(h)
              /\ Host[h] = n => pc'[h] = "idle" /\ ~attached'[h] /\ ~hasDir'[h] /\ ~reading'[h]
              /\ Host[h] # n => /\ pc'[h] = pc[h] /\ attached'[h] = attached[h]
                                /\ hasDir'[h] = hasDir[h] /\ reading'[h] = reading[h]
         /\ \A r \in Requests : reqPc'[r] = IF Host[r] = n /\ reqPc[r] # "idle" THEN "done" ELSE reqPc[r]
         /\ \A j \in Jobs : /\ mishap[j] \subseteq mishap'[j]
                            /\ mishap'[j] \subseteq mishap[j] \cup {"lostRun", "lostEnqueue"}
         /\ \A h \in Runs : Host[h] = n /\ InFlight(h) /\ ~attached[h] =>
              "lostRun" \in mishap'[JobOf(h)]
         /\ \A r \in Requests : Host[r] = n /\ reqPc[r] \in Submitting =>
              "lostEnqueue" \in mishap'[reqJob[r]]
         /\ deserted' \subseteq Nodes \X Jobs
<1>1. UNCHANGED <<jobs, stored, work, runTask, reqJob, queueVars, events>>
  BY DEF ProcessEnds
<1>2. \A h \in Runs :
        /\ JobOf(h)' = JobOf(h)
        /\ Host[h] = n => pc'[h] = "idle" /\ ~attached'[h] /\ ~hasDir'[h] /\ ~reading'[h]
        /\ Host[h] # n => /\ pc'[h] = pc[h] /\ attached'[h] = attached[h]
                          /\ hasDir'[h] = hasDir[h] /\ reading'[h] = reading[h]
  BY DEF ProcessEnds, JobOf, TypeOK, queueVars
<1>3. \A r \in Requests : reqPc'[r] = IF Host[r] = n /\ reqPc[r] # "idle" THEN "done" ELSE reqPc[r]
  BY DEF ProcessEnds
<1>4. \A j \in Jobs : mishap'[j] = mishap[j] \cup LostWith(n, j)
  BY DEF ProcessEnds
<1>5. \A j \in Jobs : /\ mishap[j] \subseteq mishap'[j]
                      /\ mishap'[j] \subseteq mishap[j] \cup {"lostRun", "lostEnqueue"}
  BY <1>4 DEF LostWith
<1>6. ASSUME NEW h \in Runs, Host[h] = n, InFlight(h), ~attached[h]
      PROVE  "lostRun" \in mishap'[JobOf(h)]
  <2>1. JobOf(h) \in Jobs
    BY <1>6, RunHasJob
  <2>2. "lostRun" \in LostWith(n, JobOf(h))
    BY <1>6 DEF LostWith
  <2> QED BY <1>4, <2>1, <2>2
<1>7. ASSUME NEW r \in Requests, Host[r] = n, reqPc[r] \in Submitting
      PROVE  "lostEnqueue" \in mishap'[reqJob[r]]
  <2>1. reqJob[r] \in Jobs
    BY <1>7 DEF Wiring, Submitting
  <2>2. "lostEnqueue" \in LostWith(n, reqJob[r])
    BY <1>7 DEF LostWith
  <2> QED BY <1>4, <2>1, <2>2
<1>8. deserted' \subseteq Nodes \X Jobs
  <2>1. \A h \in Runs : InFlight(h) => Dir(h) \in Nodes \X Jobs
    BY RunHasPlace
  <2> QED BY <2>1 DEF ProcessEnds, TypeOK
<1> QED BY <1>1, <1>2, <1>3, <1>5, <1>6, <1>7, <1>8

(* A task is taken, given back or given up behind the handlers.            *)
LEMMA EnvironmentKeepsTypes ==
  ASSUME TypeOK, Wiring,
         \/ \E h \in Runs : \/ Dispatch(h) \/ ReportProgress(h) \/ ReadingEnds(h)
                            \/ Deadline(h)
         \/ \E n \in Nodes : Shutdown(n) \/ ProcessEnds(n)
         \/ \E t \in Tasks : Recover(t)
  PROVE  TypeOK' /\ Wiring'
<1>1. ASSUME NEW h \in Runs, Dispatch(h) PROVE TypeOK' /\ Wiring'
  <2>1. PICK t \in Tasks :
          /\ Goto(h, "idle", "read")
          /\ ~reading[h]
          /\ Dequeue(t)
          /\ runTask' = [runTask EXCEPT ![h] = t]
          /\ attached' = [attached EXCEPT ![h] = TRUE]
          /\ \E m \in SUBSET Mishap : Note(taskJob[t], m)
          /\ UNCHANGED <<jobs, files, hasDir, reading, requestVars, faults, events>>
    BY <1>1 DEF Dispatch, Mishap
  <2>2. QueueTypeOK'
    BY <2>1 DEF Dequeue, TypeOK, QueueTypeOK, TaskState
  <2>3. pc' \in [Runs -> RunPc] /\ runTask' \in [Runs -> Tasks \cup {NoJob}]
        /\ attached' \in [Runs -> BOOLEAN] /\ mishap' \in [Jobs -> SUBSET Mishap]
    BY <2>1 DEF Goto, Note, TypeOK, RunPc
  <2>4. TypeOK'
    BY <2>1, <2>2, <2>3 DEF TypeOK, files, requestVars
  <2>5. taskJob' = taskJob /\ taskState'[t] = "active" /\ taskState[t] = "queued"
        /\ \A u \in Tasks : u # t => taskState'[u] = taskState[u]
    BY <2>1 DEF Dequeue, TypeOK, QueueTypeOK
  <2>6. \A g \in Runs : attached[g] => runTask[g] # t /\ g # h
    BY <2>1, <2>5 DEF Wiring, Goto, InFlight
  <2>7. /\ runTask'[h] = t /\ attached'[h] /\ pc'[h] # "idle" /\ UNCHANGED <<reading, requestVars>>
        /\ \A g \in Runs \ {h} : pc'[g] = pc[g] /\ attached'[g] = attached[g] /\ runTask'[g] = runTask[g]
        /\ ~attached[h] /\ ~reading[h]
    BY <2>1, <2>6 DEF Goto, TypeOK
  <2>8. \A g \in Runs \ {h} : attached'[g] => InFlight(g)' /\ taskState'[runTask'[g]] = "active"
    BY <2>5, <2>6, <2>7 DEF Wiring, InFlight
  <2>9. Wiring'
    BY <2>5, <2>6, <2>7, <2>8 DEF Wiring, InFlight, requestVars
  <2> QED BY <2>4, <2>9
<1>2. ASSUME NEW h \in Runs, ReportProgress(h) PROVE TypeOK' /\ Wiring'
  <2>1. JobOf(h) \in Jobs /\ jobs[JobOf(h)] \in Row
    BY <1>2, RunHasJob DEF ReportProgress, TypeOK
  <2>2. PICK row \in Row : jobs' = [jobs EXCEPT ![JobOf(h)] = row]
    BY <1>2, <2>1, StatementsKeepRows DEF ReportProgress
  <2>3. /\ jobs' \in [Jobs -> Row]
        /\ faults' \in 0 .. MaxFaults
        /\ mishap' \in [Jobs -> SUBSET Mishap]
    BY <1>2, <2>1, <2>2 DEF ReportProgress, Note, Mishap, TypeOK
  <2>4. TypeOK'
    BY <1>2, <2>3
    DEF ReportProgress, TypeOK, QueueTypeOK, files, runVars, requestVars, queueVars
  <2>5. Wiring'
    BY <1>2 DEF ReportProgress, Wiring, InFlight, runVars, requestVars, queueVars
  <2> QED BY <2>4, <2>5
<1>3. ASSUME NEW h \in Runs, ReadingEnds(h) PROVE TypeOK' /\ Wiring'
  <2>1. TypeOK'
    BY <1>3 DEF ReadingEnds, TypeOK, QueueTypeOK, files, requestVars, queueVars, history
  <2>2. Wiring'
    BY <1>3 DEF ReadingEnds, TypeOK, Wiring, InFlight, requestVars, queueVars
  <2> QED BY <2>1, <2>2
<1>4. ASSUME NEW h \in Runs, Deadline(h) PROVE TypeOK' /\ Wiring'
  <2>1. /\ attached[h]
        /\ attached' = [attached EXCEPT ![h] = FALSE]
        /\ RetryOrArchive(runTask[h])
        /\ UNCHANGED <<jobs, files, pc, runTask, hasDir, reading, requestVars, history>>
        /\ faults' \in 0 .. MaxFaults
    BY <1>4, MaxFaultsAssumption DEF Deadline, Fault, TypeOK
  <2>2. runTask[h] \in Tasks /\ taskState[runTask[h]] = "active"
    BY <2>1 DEF Wiring
  <2>3. QueueTypeOK'
    BY <2>1, <2>2, MaxRetryAssumption
    DEF RetryOrArchive, TypeOK, QueueTypeOK, TaskState
  <2>4. TypeOK'
    BY <2>1, <2>3 DEF TypeOK, files, requestVars, history
  <2>5. /\ taskJob' = taskJob
        /\ \A t \in Tasks : taskState'[t] = "free" <=> taskState[t] = "free"
        /\ \A t \in Tasks : t # runTask[h] => taskState'[t] = taskState[t]
    BY <2>1, <2>2 DEF RetryOrArchive, TypeOK, QueueTypeOK
  <2>6. Wiring'
    BY <2>1, <2>2, <2>5 DEF Wiring, InFlight, TypeOK, requestVars
  <2> QED BY <2>4, <2>6
<1>5. ASSUME NEW n \in Nodes, Shutdown(n) PROVE TypeOK' /\ Wiring'
  <2>1. faults' \in 0 .. MaxFaults
    BY <1>5, MaxFaultsAssumption DEF Shutdown, Fault, TypeOK
  <2>2. QueueTypeOK'
    BY <1>5 DEF Shutdown, Requeue, TypeOK, QueueTypeOK, TaskState
  <2>3. TypeOK'
    BY <1>5, <2>1, <2>2 DEF Shutdown, TypeOK, files, requestVars, history
  <2>4. Wiring'
    <3>1. \A h \in Runs : attached'[h] => attached[h] /\ Host[h] # n
      BY <1>5 DEF Shutdown
    <3>2. \A t \in Tasks : taskState'[t] = "free" <=> taskState[t] = "free"
      BY <1>5, ShutdownHandsBack DEF TypeOK
    <3>3. \A h \in Runs : attached'[h] => taskState'[runTask[h]] = "active"
      BY <1>5, <3>1, ShutdownHandsBack DEF Wiring, InFlight
    <3> QED
      BY <1>5, <3>1, <3>2, <3>3, ShutdownHandsBack DEF Wiring, InFlight, requestVars
  <2> QED BY <2>3, <2>4
<1>7. ASSUME NEW n \in Nodes, ProcessEnds(n) PROVE TypeOK' /\ Wiring'
  <2>1. faults' \in 0 .. MaxFaults
    BY <1>7, MaxFaultsAssumption DEF ProcessEnds, Fault, TypeOK
  <2>2. mishap' \in [Jobs -> SUBSET Mishap]
    BY <1>7 DEF ProcessEnds, LostWith, Mishap, TypeOK
  <2>3. deserted' \subseteq Nodes \X Jobs
    BY <1>7, ProcessLeaves DEF ProcessEnds, TypeOK
  <2>4. reqPc' \in [Requests -> RequestPc]
    BY <1>7 DEF ProcessEnds, TypeOK, RequestPc
  <2>5. /\ pc' \in [Runs -> RunPc] /\ attached' \in [Runs -> BOOLEAN]
        /\ hasDir' \in [Runs -> BOOLEAN] /\ reading' \in [Runs -> BOOLEAN]
    BY <1>7 DEF ProcessEnds, TypeOK, RunPc
  <2>6. TypeOK'
    BY <1>7, <2>1, <2>2, <2>3, <2>4, <2>5 DEF ProcessEnds, TypeOK, QueueTypeOK, queueVars
  <2>7. /\ UNCHANGED <<runTask, reqJob, taskState, taskJob>>
        /\ \A h \in Runs : /\ InFlight(h)' => InFlight(h)
                           /\ reading'[h] => reading[h]
                           /\ attached'[h] => attached[h] /\ InFlight(h)'
        /\ \A r \in Requests : reqPc'[r] # "idle" => reqPc[r] # "idle"
    BY <1>7, ProcessLeaves DEF Wiring, InFlight, queueVars
  <2>8. /\ \A h \in Runs : InFlight(h) \/ reading[h] => runTask[h] \in Tasks /\ taskState[runTask[h]] # "free"
        /\ \A h \in Runs : attached[h] => taskState[runTask[h]] = "active"
        /\ \A g, h \in Runs : attached[g] /\ attached[h] /\ runTask[g] = runTask[h] => g = h
        /\ \A r \in Requests : reqPc[r] # "idle" => reqJob[r] \in Jobs
        /\ \A t \in Tasks : taskState[t] # "free" => taskJob[t] \in Jobs
    BY DEF Wiring
  <2>9. /\ \A h \in Runs : InFlight(h)' \/ reading'[h] => runTask'[h] \in Tasks /\ taskState'[runTask'[h]] # "free"
        /\ \A h \in Runs : attached'[h] => InFlight(h)' /\ taskState'[runTask'[h]] = "active"
        /\ \A g, h \in Runs : attached'[g] /\ attached'[h] /\ runTask'[g] = runTask'[h] => g = h
        /\ \A r \in Requests : reqPc'[r] # "idle" => reqJob'[r] \in Jobs
        /\ \A t \in Tasks : taskState'[t] # "free" => taskJob'[t] \in Jobs
    BY <2>7, <2>8
  <2>10. Wiring'
    BY <2>9 DEF Wiring
  <2> QED BY <2>6, <2>10
<1>6. ASSUME NEW t \in Tasks, Recover(t) PROVE TypeOK' /\ Wiring'
  <2>1. QueueTypeOK'
    <3>1. QueueTypeOK /\ RetryOrArchive(t)
      BY <1>6 DEF Recover, TypeOK
    <3>2. retried[t] < MaxRetry => retried[t] + 1 \in 0 .. MaxRetry
      BY <3>1, MaxRetryAssumption DEF QueueTypeOK
    <3> QED BY <3>1, <3>2 DEF RetryOrArchive, QueueTypeOK, TaskState
  <2>2. TypeOK'
    BY <1>6, <2>1 DEF Recover, TypeOK, files, runVars, requestVars, history
  <2>3. /\ taskJob' = taskJob
        /\ \A u \in Tasks : taskState'[u] = "free" <=> taskState[u] = "free"
        /\ \A u \in Tasks : u # t => taskState'[u] = taskState[u]
    BY <1>6 DEF Recover, RetryOrArchive, TypeOK, QueueTypeOK
  <2>4. Wiring'
    BY <1>6, <2>3 DEF Recover, Wiring, InFlight, runVars, requestVars
  <2> QED BY <2>2, <2>4
<1> QED
  BY <1>1, <1>2, <1>3, <1>4, <1>5, <1>6, <1>7

LEMMA NextKeepsTypes ==
  ASSUME TypeOK, Wiring, [Next]_vars
  PROVE  TypeOK' /\ Wiring'
<1>1. CASE Next
  BY <1>1, RequestKeepsTypes, HandlerKeepsTypes, EnvironmentKeepsTypes DEF Next
<1>2. CASE UNCHANGED vars
  <2>1. TypeOK'
    BY <1>2 DEF vars, files, runVars, requestVars, queueVars, history, TypeOK, QueueTypeOK
  <2>2. Wiring'
    BY <1>2 DEF vars, runVars, requestVars, queueVars, Wiring, InFlight
  <2> QED BY <2>1, <2>2
<1> QED BY <1>1, <1>2

(* All variables keep their types, and every reference of a task, a        *)
(* handler or a request leads somewhere.                                   *)
THEOREM TypeCorrect == Spec => [](TypeOK /\ Wiring)
BY InitTyped, NextKeepsTypes, PTL DEF Spec

-----------------------------------------------------------------------------
(* No job is forgotten.                                                    *)

(* What strands a job is never undone: mishaps stay on record, an archived *)
(* task stays archived, and a task never changes its job.                  *)
LEMMA StrandedStays ==
  ASSUME TypeOK, Wiring, Next
  PROVE  /\ \A j \in Jobs : mishap[j] \subseteq mishap'[j]
         /\ \A t \in Tasks : taskState[t] = "archived" => taskState'[t] = "archived"
         /\ \A t \in Tasks : taskState[t] # "free" => taskJob'[t] = taskJob[t]
<1> DEFINE P == /\ \A j \in Jobs : mishap[j] \subseteq mishap'[j]
                /\ \A t \in Tasks : taskState[t] = "archived" => taskState'[t] = "archived"
                /\ \A t \in Tasks : taskState[t] # "free" => taskJob'[t] = taskJob[t]
<1>0. ASSUME NEW j, NEW m, Note(j, m) PROVE \A i \in Jobs : mishap[i] \subseteq mishap'[i]
  BY <1>0 DEF Note, TypeOK
<1>1. ASSUME NEW r \in Requests, RequestNext(r) PROVE P
  <2>1. reqPc[r] # "idle" => reqJob[r] \in Jobs
    BY DEF Wiring
  <2>2. UNCHANGED mishap \/ \E m : Note(reqJob[r], m)
    <3>1. CASE CreateEnqueue(r) \/ AutoEnqueue(r) \/ RetryEnqueue(r)
      BY <3>1 DEF CreateEnqueue, AutoEnqueue, RetryEnqueue, Enqueue
    <3>2. CASE PurgeOutput(r)
      BY <3>2 DEF PurgeOutput
    <3>3. CASE CreateFail(r) \/ DeleteCancel(r) \/ DeleteRow(r) \/ RetryPending(r) \/ RetryProgress(r)
      BY <3>3 DEF CreateFail, DeleteCancel, DeleteRow, RetryPending, RetryProgress, Write
    <3>4. CASE Create(r) \/ DeleteRead(r) \/ RetryRead(r)
      BY <3>4 DEF Create, DeleteRead, RetryRead, history
    <3> QED BY <1>1, <3>1, <3>2, <3>3, <3>4 DEF RequestNext
  <2>3. UNCHANGED queueVars \/ \E j \in Jobs : EnqueueJob(j)
    <3>1. CASE CreateEnqueue(r) \/ AutoEnqueue(r) \/ RetryEnqueue(r)
      <4>1. reqPc[r] # "idle"
        BY <3>1 DEF CreateEnqueue, AutoEnqueue, RetryEnqueue, Enqueue, Step
      <4> QED
        BY <2>1, <3>1, <4>1 DEF CreateEnqueue, AutoEnqueue, RetryEnqueue, Enqueue
    <3>2. CASE PurgeOutput(r)
      BY <3>2 DEF PurgeOutput
    <3>3. CASE CreateFail(r) \/ DeleteCancel(r) \/ DeleteRow(r) \/ RetryPending(r) \/ RetryProgress(r)
      BY <3>3 DEF CreateFail, DeleteCancel, DeleteRow, RetryPending, RetryProgress
    <3>4. CASE Create(r) \/ DeleteRead(r) \/ RetryRead(r)
      BY <3>4 DEF Create, DeleteRead, RetryRead
    <3> QED BY <1>1, <3>1, <3>2, <3>3, <3>4 DEF RequestNext
  <2>4. \A j \in Jobs : mishap[j] \subseteq mishap'[j]
    BY <1>0, <2>2
  <2> QED
    BY <2>3, <2>4, EnqueueTyped DEF queueVars
<1>2. ASSUME NEW h \in Runs, HandleTranscode(h) PROVE P
  <2>1. InFlight(h) /\ runTask[h] \in Tasks /\ JobOf(h) \in Jobs
    <3>1. InFlight(h)
      BY <1>2
      DEF HandleTranscode, RunRead, RunMkdir, RunSetDownloading, RunDownload,
          RunSetTranscoding, RunThumbnail, RunTranscode, RunEncoded, RunSetUploading,
          RunUpload, RunUploaded, RunSetCompleted, RunSetFull, RunFail, RunNotify,
          RunReturn, RunSetStatus, Goto, InFlight
    <3> QED BY <3>1, RunHasJob
  <2>2. UNCHANGED mishap \/ \E m : Note(JobOf(h), m)
    <3>1. CASE RunSetDownloading(h) \/ RunSetTranscoding(h) \/ RunSetUploading(h)
               \/ RunSetCompleted(h) \/ RunSetFull(h) \/ RunFail(h)
      BY <3>1 DEF RunSetDownloading, RunSetTranscoding, RunSetUploading, RunSetCompleted,
                  RunSetFull, RunFail, RunSetStatus, Write
    <3>2. CASE RunRead(h) \/ RunMkdir(h) \/ RunDownload(h) \/ RunThumbnail(h)
               \/ RunTranscode(h) \/ RunEncoded(h) \/ RunUpload(h) \/ RunUploaded(h)
               \/ RunNotify(h) \/ RunReturn(h)
      BY <3>2 DEF RunRead, RunMkdir, RunDownload, RunThumbnail, RunTranscode, RunEncoded,
                  RunUpload, RunUploaded, RunNotify, RunReturn, history
    <3> QED BY <1>2, <3>1, <3>2 DEF HandleTranscode
  <2>3. \/ UNCHANGED queueVars
        \/ attached[h] /\ (RetryOrArchive(runTask[h]) \/ Done(runTask[h]))
    <3>1. CASE RunRead(h)
      BY <3>1 DEF RunRead
    <3>2. CASE RunReturn(h)
      BY <3>2 DEF RunReturn
    <3>3. CASE ~RunRead(h) /\ ~RunReturn(h)
      BY <1>2, <3>3
      DEF HandleTranscode, RunMkdir, RunSetDownloading, RunDownload,
          RunSetTranscoding, RunThumbnail, RunTranscode, RunEncoded, RunSetUploading,
          RunUpload, RunUploaded, RunSetCompleted, RunSetFull, RunFail, RunNotify,
          RunSetStatus
    <3> QED BY <3>1, <3>2, <3>3
  <2>4. \A j \in Jobs : mishap[j] \subseteq mishap'[j]
    BY <1>0, <2>1, <2>2
  <2> QED
    BY <2>1, <2>3, <2>4
    DEF queueVars, RetryOrArchive, Done, Wiring, TypeOK, QueueTypeOK
<1>3. ASSUME NEW h \in Runs, Dispatch(h) PROVE P
  <2>1. PICK t \in Tasks : Dequeue(t) /\ \E m : Note(taskJob[t], m)
    BY <1>3 DEF Dispatch
  <2>2. taskJob[t] \in Jobs
    BY <2>1 DEF Dequeue, Wiring
  <2> QED
    BY <1>0, <2>1, <2>2 DEF Dequeue, TypeOK, QueueTypeOK
<1>4. ASSUME NEW h \in Runs, ReportProgress(h) \/ ReadingEnds(h) PROVE P
  <2>1. JobOf(h) \in Jobs
    BY <1>4, RunHasJob DEF ReportProgress, ReadingEnds
  <2>2. UNCHANGED queueVars /\ (UNCHANGED mishap \/ \E m : Note(JobOf(h), m))
    BY <1>4 DEF ReportProgress, ReadingEnds, Write, history
  <2> QED
    BY <1>0, <2>1, <2>2 DEF queueVars
<1>5. ASSUME NEW h \in Runs, Deadline(h) PROVE P
  BY <1>5
  DEF Deadline, RetryOrArchive, history, Wiring, TypeOK, QueueTypeOK
<1>7. ASSUME NEW n \in Nodes, Shutdown(n) PROVE P
  BY <1>7, ShutdownHandsBack DEF history
<1>8. ASSUME NEW n \in Nodes, ProcessEnds(n) PROVE P
  BY <1>8, ProcessLeaves DEF queueVars
<1>6. ASSUME NEW t \in Tasks, Recover(t) PROVE P
  BY <1>6 DEF Recover, RetryOrArchive, history, TypeOK, QueueTypeOK
<1> QED
  BY <1>1, <1>2, <1>3, <1>4, <1>5, <1>6, <1>7, <1>8 DEF Next

(* A request leaves every job it may have to move on to somebody else,     *)
(* keeps it or fails it.                                                   *)
LEMMA RequestPassesOn ==
  ASSUME TypeOK, Wiring, Next, NEW r \in Requests, RequestNext(r),
         NEW j \in Jobs, jobs'[j].status \in Active \cup {"completed"}, ~Stranded(j)'
  PROVE  /\ Driven(j) => Driven(j)'
         /\ jobs[j].status \notin Active /\ jobs'[j].status \in Active => Driven(j)'
         /\ RetryProgress(r) /\ reqJob[r] = j => Driven(j)'
<1> DEFINE Here  == reqJob[r] = j /\ reqPc[r] \in Submitting
           There == reqJob'[r] = j /\ reqPc'[r] \in Submitting
           Queued == \E t \in Tasks : taskJob'[t] = j /\ taskState'[t] = "queued"
<1> USE DEF Submitting
<1>1. /\ ~Stranded(j)
      /\ mishap'[j] \cap {"lostEnqueue", "lostWrite", "lostRun"} = {}
  BY StrandedStays DEF Stranded, Wiring
<1>2. UNCHANGED runVars
  BY DEF RequestNext, Create, CreateEnqueue, AutoEnqueue, CreateFail, DeleteRead,
         DeleteCancel, PurgeOutput, DeleteRow, RetryRead, RetryPending, RetryProgress,
         RetryEnqueue, Enqueue
<1>3. \A q \in Requests : q # r => reqPc'[q] = reqPc[q] /\ reqJob'[q] = reqJob[q]
  BY DEF RequestNext, Create, CreateEnqueue, AutoEnqueue, CreateFail, DeleteRead,
         DeleteCancel, PurgeOutput, DeleteRow, RetryRead, RetryPending, RetryProgress,
         RetryEnqueue, Enqueue, Step, Begin, TypeOK
<1>4. reqPc[r] # "idle" => reqJob[r] \in Jobs /\ jobs[reqJob[r]] \in Row
  BY DEF Wiring, TypeOK
<1>5. \A t \in Tasks : taskState[t] # "free" =>
         taskState'[t] = taskState[t] /\ taskJob'[t] = taskJob[t]
  <2>1. UNCHANGED queueVars \/ \E i \in Jobs : EnqueueJob(i)
    <3>1. CASE CreateEnqueue(r) \/ AutoEnqueue(r) \/ RetryEnqueue(r)
      <4>1. reqPc[r] # "idle"
        BY <3>1 DEF CreateEnqueue, AutoEnqueue, RetryEnqueue, Enqueue, Step
      <4> QED
        BY <1>4, <3>1, <4>1 DEF CreateEnqueue, AutoEnqueue, RetryEnqueue, Enqueue
    <3>2. CASE PurgeOutput(r)
      BY <3>2 DEF PurgeOutput
    <3>3. CASE CreateFail(r) \/ DeleteCancel(r) \/ DeleteRow(r) \/ RetryPending(r) \/ RetryProgress(r)
      BY <3>3 DEF CreateFail, DeleteCancel, DeleteRow, RetryPending, RetryProgress
    <3>4. CASE Create(r) \/ DeleteRead(r) \/ RetryRead(r)
      BY <3>4 DEF Create, DeleteRead, RetryRead
    <3> QED BY <3>1, <3>2, <3>3, <3>4 DEF RequestNext
  <2> QED BY <2>1, EnqueueTyped DEF queueVars
<1>6. There \/ Queued => Driven(j)'
  BY DEF Driven, LiveTask
<1>7. Driven(j) /\ ~Here => Driven(j)'
  <2> SUFFICES ASSUME Driven(j), ~Here PROVE Driven(j)'
    OBVIOUS
  <2>1. CASE \E q \in Requests : reqJob[q] = j /\ reqPc[q] \in Submitting
    BY <1>3, <2>1 DEF Driven
  <2>2. CASE \E t \in Tasks : taskJob[t] = j /\ LiveTask(t)
    BY <1>2, <1>5, <2>2 DEF Driven, LiveTask, runVars
  <2>3. CASE \E h \in Runs : pc[h] \in Working /\ JobOf(h) = j
    BY <1>2, <1>5, <2>3 DEF Driven, JobOf, Wiring, InFlight, Working, runVars
  <2> QED BY <2>1, <2>2, <2>3 DEF Driven
<1>8. Here => There \/ Queued
  <2> SUFFICES ASSUME Here PROVE There \/ Queued
    OBVIOUS
  <2>1. CASE CreateEnqueue(r) \/ AutoEnqueue(r) \/ RetryEnqueue(r)
    <3>1. EnqueueJob(j) => Queued
      BY DEF EnqueueJob, TypeOK, QueueTypeOK
    <3>2. CASE CreateEnqueue(r)
      BY <3>1, <3>2 DEF CreateEnqueue, Enqueue, Step, TypeOK
    <3>3. CASE AutoEnqueue(r) \/ RetryEnqueue(r)
      <4>1. EnqueueJob(j) \/ Note(j, {"lostEnqueue"})
        BY <3>3 DEF AutoEnqueue, RetryEnqueue, Enqueue
      <4>2. ~Note(j, {"lostEnqueue"})
        <5>1. mishap \in [Jobs -> SUBSET Mishap]
          BY DEF TypeOK
        <5>2. Note(j, {"lostEnqueue"}) => mishap'[j] = mishap[j] \cup {"lostEnqueue"}
          BY <5>1, Zenon DEF Note
        <5> QED BY <1>1, <5>2
      <4> QED BY <3>1, <4>1, <4>2
    <3> QED BY <2>1, <3>2, <3>3
  <2>2. CASE CreateFail(r)
    <3>1. Write(j, UpdateJobError(jobs[j]), {"lostWrite"})
      BY <2>2 DEF CreateFail
    <3>2. CASE jobs' = [jobs EXCEPT ![j] = UpdateJobError(jobs[j])]
      BY <3>2, StatementsAndStatus DEF TypeOK, Exists, Active, Running, JobStatus, Settled
    <3>3. CASE Note(j, {"lostWrite"})
      BY <1>1, <3>3 DEF Note, TypeOK
    <3> QED BY <3>1, <3>2, <3>3 DEF Write
  <2>3. CASE RetryProgress(r)
    BY <2>3 DEF RetryProgress, Step, TypeOK
  <2>4. CASE Create(r) \/ DeleteRead(r) \/ RetryRead(r) \/ DeleteCancel(r)
             \/ PurgeOutput(r) \/ DeleteRow(r) \/ RetryPending(r)
    BY <2>4 DEF Create, DeleteRead, RetryRead, DeleteCancel, PurgeOutput, DeleteRow,
                RetryPending, Begin, Step
  <2> QED
    BY <2>1, <2>2, <2>3, <2>4 DEF RequestNext
<1>9. jobs[j].status \notin Active /\ jobs'[j].status \in Active => There
  <2> SUFFICES ASSUME jobs[j].status \notin Active, jobs'[j].status \in Active PROVE There
    OBVIOUS
  <2>1. CASE Create(r)
    <3>1. PICK i \in Jobs :
            /\ Begin(r, i, "createEnqueue") \/ Begin(r, i, "autoEnqueue")
            /\ jobs' = [jobs EXCEPT ![i] = CreateJob]
      BY <2>1 DEF Create
    <3>2. i = j
      BY <3>1 DEF TypeOK
    <3> QED BY <3>1, <3>2 DEF Begin, TypeOK
  <2>2. CASE RetryPending(r)
    <3>1. reqJob[r] = j
      BY <1>4, <2>2 DEF RetryPending, Step, Write, TypeOK
    <3> QED BY <2>2, <3>1 DEF RetryPending, Step, TypeOK
  <2>3. CASE CreateFail(r) \/ DeleteCancel(r) \/ DeleteRow(r) \/ RetryProgress(r)
    <3> DEFINE i == reqJob[r]
    <3>1. i \in Jobs /\ jobs[i] \in Row
      BY <1>4, <2>3 DEF CreateFail, DeleteCancel, DeleteRow, RetryProgress, Step
    <3>2. \/ UNCHANGED jobs
          \/ \E row \in {UpdateJobError(jobs[i]), UpdateJobStatus(jobs[i], "cancelled"),
                        DeleteJob(jobs[i]), UpdateJobProgress(jobs[i], 0)} :
                 jobs' = [jobs EXCEPT ![i] = row]
      BY <2>3 DEF CreateFail, DeleteCancel, DeleteRow, RetryProgress, Write
    <3>3. /\ UpdateJobError(jobs[i]).status \in Active => jobs[i].status \in Active
          /\ UpdateJobStatus(jobs[i], "cancelled").status \in Active => jobs[i].status \in Active
          /\ DeleteJob(jobs[i]).status \in Active => jobs[i].status \in Active
          /\ UpdateJobProgress(jobs[i], 0).status \in Active => jobs[i].status \in Active
      <4>1. "cancelled" \in JobStatus /\ 0 \in Progress
        BY DEF JobStatus, Settled, Progress
      <4>2. {"failed", "cancelled", "deleted"} \cap Active = {}
        BY DEF Active, Running
      <4> QED BY <3>1, <4>1, <4>2, StatementsAndStatus
    <3>4. CASE UNCHANGED jobs
      BY <3>4
    <3>5. CASE ~ UNCHANGED jobs
      <4>1. PICK row \in {UpdateJobError(jobs[i]), UpdateJobStatus(jobs[i], "cancelled"),
                         DeleteJob(jobs[i]), UpdateJobProgress(jobs[i], 0)} :
                  jobs' = [jobs EXCEPT ![i] = row]
        BY <3>2, <3>5
      <4>2. row.status \in Active => jobs[i].status \in Active
        BY <3>3
      <4>3. jobs'[j] = IF i = j THEN row ELSE jobs[j]
        BY <4>1 DEF TypeOK
      <4> QED BY <4>2, <4>3
    <3> QED BY <3>4, <3>5
  <2>4. CASE CreateEnqueue(r) \/ AutoEnqueue(r) \/ RetryEnqueue(r) \/ DeleteRead(r)
             \/ PurgeOutput(r) \/ RetryRead(r)
    BY <2>4 DEF CreateEnqueue, AutoEnqueue, RetryEnqueue, Enqueue, DeleteRead, PurgeOutput,
                RetryRead
  <2> QED
    BY <2>1, <2>2, <2>3, <2>4 DEF RequestNext
<1>10. RetryProgress(r) /\ reqJob[r] = j => There
  BY DEF RetryProgress, Step, TypeOK
<1> QED
  BY <1>6, <1>7, <1>8, <1>9, <1>10

LEMMA RequestKeepsDriven ==
  ASSUME TypeOK, Wiring, ActiveJobsAreDriven, Next,
         NEW r \in Requests, RequestNext(r)
  PROVE  ActiveJobsAreDriven'
<1> SUFFICES ASSUME NEW j \in Jobs, jobs'[j].status \in Active, ~Stranded(j)'
             PROVE  Driven(j)'
  BY DEF ActiveJobsAreDriven
<1>1. ~Stranded(j)
  BY StrandedStays DEF Stranded, Wiring
<1> QED BY <1>1, RequestPassesOn DEF ActiveJobsAreDriven

(* A handler owes the row a settled status from the moment it has read it  *)
(* to the moment it has written one, and its task is live until then.      *)
LEMMA HandlerPassesOn ==
  ASSUME TypeOK, Wiring, Next, NEW h \in Runs, HandleTranscode(h),
         NEW j \in Jobs, jobs'[j].status \in Active \cup {"completed"}, ~Stranded(j)', Driven(j)
  PROVE  Driven(j)' \/ (RunSetCompleted(h) /\ JobOf(h) = j /\ jobs'[j].status = "completed")
<1> USE DEF Working, Ending
<1>1. /\ ~Stranded(j)
      /\ mishap'[j] \cap {"lostEnqueue", "lostWrite", "lostRun"} = {}
      /\ \A t \in Tasks : taskJob'[t] = j => taskState'[t] # "archived"
  BY StrandedStays DEF Stranded, Wiring
<1>2. InFlight(h) /\ runTask[h] \in Tasks /\ JobOf(h) \in Jobs /\ jobs[JobOf(h)] \in Row
  <2>1. InFlight(h)
    BY DEF HandleTranscode, RunRead, RunMkdir, RunSetDownloading, RunDownload,
           RunSetTranscoding, RunThumbnail, RunTranscode, RunEncoded, RunSetUploading,
           RunUpload, RunUploaded, RunSetCompleted, RunSetFull, RunFail, RunNotify,
           RunReturn, RunSetStatus, Goto, InFlight
  <2> QED BY <2>1, RunHasJob DEF TypeOK
<1>3. CASE RunRead(h)
  <2>1. /\ UNCHANGED <<jobs, runTask, requestVars>>
        /\ taskJob' = taskJob
    BY <1>3 DEF RunRead, RetryOrArchive, queueVars
  <2>2. Driven(j)
    OBVIOUS
  <2>3. CASE \E r \in Requests : reqJob[r] = j /\ reqPc[r] \in Submitting
    BY <2>1, <2>3 DEF Driven, requestVars
  <2>4. CASE \E g \in Runs : pc[g] \in Working /\ JobOf(g) = j
    BY <1>3, <2>1, <2>4 DEF RunRead, Goto, Driven, JobOf, TypeOK
  <2>5. CASE \E t \in Tasks : taskJob[t] = j /\ LiveTask(t)
    <3>1. PICK t \in Tasks : taskJob[t] = j /\ LiveTask(t)
      BY <2>5
    <3>2. CASE attached[h] /\ runTask[h] = t
      <4>1. CASE \E to \in {"cleanup", "mkdir"} : Goto(h, "read", to) /\ to = "mkdir"
        BY <2>1, <3>1, <3>2, <4>1 DEF Goto, Driven, JobOf, TypeOK
      <4>2. CASE jobs[JobOf(h)].status = "cancelled"
        BY <2>1, <3>1, <3>2, <4>2 DEF JobOf, Active, Running
      <4>3. CASE RetryOrArchive(t)
        BY <1>1, <2>1, <3>1, <4>3 DEF RetryOrArchive, Driven, LiveTask, TypeOK, QueueTypeOK
      <4> QED BY <1>3, <3>2, <4>1, <4>2, <4>3 DEF RunRead
    <3>3. CASE ~(attached[h] /\ runTask[h] = t)
      <4>1. taskState'[t] = taskState[t]
        BY <1>2, <1>3, <3>3 DEF RunRead, RetryOrArchive, queueVars, TypeOK, QueueTypeOK
      <4>2. \A g \in Runs : attached'[g] /\ runTask'[g] = t => attached[g] /\ runTask[g] = t /\ g # h
        BY <1>3, <2>1, <3>3 DEF RunRead, TypeOK
      <4>3. \A g \in Runs : g # h => pc'[g] = pc[g]
        BY <1>3 DEF RunRead, Goto, TypeOK
      <4> QED BY <2>1, <3>1, <4>1, <4>2, <4>3 DEF LiveTask, Driven
    <3> QED BY <3>2, <3>3
  <2> QED BY <2>2, <2>3, <2>4, <2>5 DEF Driven
<1>4. CASE RunReturn(h)
  <2>1. /\ UNCHANGED <<jobs, runTask, requestVars>>
        /\ taskJob' = taskJob
        /\ pc[h] = "cleanup"
    BY <1>4 DEF RunReturn, Done, queueVars, Goto
  <2>2. Driven(j)
    OBVIOUS
  <2>3. CASE \E r \in Requests : reqJob[r] = j /\ reqPc[r] \in Submitting
    BY <2>1, <2>3 DEF Driven, requestVars
  <2>4. CASE \E g \in Runs : pc[g] \in Working /\ JobOf(g) = j
    BY <1>4, <2>1, <2>4 DEF RunReturn, Goto, Driven, JobOf, TypeOK
  <2>5. CASE \E t \in Tasks : taskJob[t] = j /\ LiveTask(t)
    <3>1. PICK t \in Tasks : taskJob[t] = j /\ LiveTask(t)
      BY <2>5
    <3>2. ~(attached[h] /\ runTask[h] = t)
      BY <2>1, <3>1 DEF LiveTask, Wiring
    <3>3. taskState'[t] = taskState[t]
      BY <1>2, <1>4, <3>2 DEF RunReturn, Done, queueVars, TypeOK, QueueTypeOK
    <3>4. \A g \in Runs : attached'[g] /\ runTask'[g] = t => attached[g] /\ runTask[g] = t /\ g # h
      BY <1>4, <2>1, <3>2 DEF RunReturn, TypeOK
    <3>5. \A g \in Runs : g # h => pc'[g] = pc[g]
      BY <1>4 DEF RunReturn, Goto, TypeOK
    <3> QED BY <2>1, <3>1, <3>3, <3>4, <3>5 DEF LiveTask, Driven
  <2> QED BY <2>2, <2>3, <2>4, <2>5 DEF Driven
<1>5. CASE ~RunRead(h) /\ ~RunReturn(h)
  <2>1. UNCHANGED <<runTask, attached, requestVars, queueVars>>
    BY <1>5
    DEF HandleTranscode, RunMkdir, RunSetDownloading, RunDownload,
        RunSetTranscoding, RunThumbnail, RunTranscode, RunEncoded, RunSetUploading,
        RunUpload, RunUploaded, RunSetCompleted, RunSetFull, RunFail, RunNotify,
        RunSetStatus
  <2>2. /\ pc[h] # "read" /\ pc'[h] # "read"
        /\ \A g \in Runs : g # h => pc'[g] = pc[g]
    BY <1>5
    DEF HandleTranscode, RunMkdir, RunSetDownloading, RunDownload,
        RunSetTranscoding, RunThumbnail, RunTranscode, RunEncoded, RunSetUploading,
        RunUpload, RunUploaded, RunSetCompleted, RunSetFull, RunFail, RunNotify,
        RunSetStatus, Goto, TypeOK
  <2>3. \A g \in Runs : JobOf(g)' = JobOf(g)
    BY <2>1 DEF JobOf, queueVars
  <2>4. Driven(j) /\ ~(pc[h] \in Working /\ JobOf(h) = j) => Driven(j)'
    <3> SUFFICES ASSUME Driven(j), ~(pc[h] \in Working /\ JobOf(h) = j) PROVE Driven(j)'
      OBVIOUS
    <3>1. CASE \E r \in Requests : reqJob[r] = j /\ reqPc[r] \in Submitting
      BY <2>1, <3>1 DEF Driven, requestVars
    <3>2. CASE \E t \in Tasks : taskJob[t] = j /\ LiveTask(t)
      BY <2>1, <2>2, <3>2 DEF Driven, LiveTask, queueVars
    <3>3. CASE \E g \in Runs : pc[g] \in Working /\ JobOf(g) = j
      BY <2>2, <2>3, <3>3 DEF Driven
    <3> QED BY <3>1, <3>2, <3>3 DEF Driven
  <2>5. CASE RunSetCompleted(h) \/ RunFail(h)
    <3> SUFFICES ASSUME JobOf(h) = j PROVE RunSetCompleted(h) /\ jobs'[j].status = "completed"
      BY <2>4
    <3>1. ~Note(j, {"lostWrite"})
      BY <1>1 DEF Note, TypeOK
    <3>2. CASE RunSetCompleted(h)
      <4>1. jobs' = [jobs EXCEPT ![j] = UpdateJobStatus(jobs[j], "completed")]
        BY <3>1, <3>2 DEF RunSetCompleted, RunSetStatus, Write
      <4>2. UpdateJobStatus(jobs[j], "completed").status \notin Active
        BY <1>2, StatementsAndStatus DEF Exists, JobStatus, Settled, Active, Running
      <4> QED BY <3>2, <4>1, <4>2 DEF TypeOK
    <3>3. CASE RunFail(h)
      <4>1. jobs' = [jobs EXCEPT ![j] = UpdateJobError(jobs[j])]
        BY <3>1, <3>3 DEF RunFail, Write
      <4>2. UpdateJobError(jobs[j]).status \notin Active \cup {"completed"}
        BY <1>2, StatementsAndStatus DEF Exists, JobStatus, Settled, Active, Running
      <4> QED BY <4>1, <4>2 DEF TypeOK
    <3> QED BY <2>5, <3>2, <3>3
  <2>6. CASE RunSetFull(h) \/ RunNotify(h)
    <3>1. pc[h] \notin Working
      BY <2>6 DEF RunSetFull, RunNotify, Goto
    <3> QED BY <2>4, <3>1
  <2>7. CASE ~RunSetCompleted(h) /\ ~RunFail(h) /\ ~RunSetFull(h) /\ ~RunNotify(h)
    <3>1. pc[h] \in Working /\ pc'[h] \in Working
      BY <1>5, <2>7
      DEF HandleTranscode, RunMkdir, RunSetDownloading, RunDownload,
          RunSetTranscoding, RunThumbnail, RunTranscode, RunEncoded, RunSetUploading,
          RunUpload, RunUploaded, RunSetStatus, Goto, TypeOK
    <3>2. CASE JobOf(h) = j
      BY <2>3, <3>1, <3>2 DEF Driven
    <3>3. CASE JobOf(h) # j
      BY <2>4, <3>3
    <3> QED BY <3>2, <3>3
  <2> QED BY <2>5, <2>6, <2>7
<1> QED BY <1>3, <1>4, <1>5

(* Only the job of a handler at work becomes active by a step of it.       *)
LEMMA HandlerKeepsDriven ==
  ASSUME TypeOK, Wiring, ActiveJobsAreDriven, Next, NEW h \in Runs, HandleTranscode(h)
  PROVE  ActiveJobsAreDriven'
<1> SUFFICES ASSUME NEW j \in Jobs, jobs'[j].status \in Active, ~Stranded(j)'
             PROVE  Driven(j)'
  BY DEF ActiveJobsAreDriven
<1>1. ~Stranded(j)
  BY StrandedStays DEF Stranded, Wiring
<1>2. CASE Driven(j)
  BY <1>2, HandlerPassesOn DEF Active, Running
<1>3. CASE ~Driven(j)
  <2>1. pc[h] \notin Working \/ JobOf(h) # j
    BY <1>3 DEF Driven
  <2>2. InFlight(h) => JobOf(h) \in Jobs /\ jobs[JobOf(h)] \in Row
    BY RunHasJob DEF TypeOK
  <2>3. jobs'[j].status = jobs[j].status
    <3>1. CASE RunSetDownloading(h) \/ RunSetTranscoding(h) \/ RunSetUploading(h)
               \/ RunSetCompleted(h) \/ RunFail(h)
      <4>1. JobOf(h) # j
        BY <2>1, <3>1
        DEF RunSetDownloading, RunSetTranscoding, RunSetUploading, RunSetCompleted, RunFail,
            RunSetStatus, Goto, Working
      <4>2. PICK row, loss : Write(JobOf(h), row, loss)
        BY <3>1
        DEF RunSetDownloading, RunSetTranscoding, RunSetUploading, RunSetCompleted, RunFail,
            RunSetStatus
      <4> QED
        BY <4>1, <4>2 DEF Write, TypeOK
    <3>2. CASE RunSetFull(h)
      <4>1. InFlight(h)
        BY <3>2 DEF RunSetFull, Goto, InFlight
      <4>2. PICK i \in Jobs : i = JobOf(h) /\ jobs[i] \in Row
        BY <2>2, <4>1
      <4>3. \/ jobs' = [jobs EXCEPT ![i] = UpdateJobProgress(jobs[i], 100)]
            \/ jobs' = jobs
        BY <3>2, <4>2 DEF RunSetFull, Write
      <4>4. UpdateJobProgress(jobs[i], 100).status = jobs[i].status
        BY <4>2, StatementsAndStatus DEF Progress
      <4>5. jobs \in [Jobs -> Row]
        BY DEF TypeOK
      <4> QED BY <4>3, <4>4, <4>5
    <3>3. CASE RunRead(h) \/ RunMkdir(h) \/ RunDownload(h) \/ RunThumbnail(h) \/ RunTranscode(h)
               \/ RunEncoded(h) \/ RunUpload(h) \/ RunUploaded(h) \/ RunNotify(h) \/ RunReturn(h)
      BY <3>3 DEF RunRead, RunMkdir, RunDownload, RunThumbnail, RunTranscode, RunEncoded,
                  RunUpload, RunUploaded, RunNotify, RunReturn
    <3> QED BY <3>1, <3>2, <3>3 DEF HandleTranscode
  <2> QED BY <1>1, <1>3, <2>3 DEF ActiveJobsAreDriven
<1> QED BY <1>2, <1>3

(* Whatever the queue or a crash takes from a handler becomes a live task  *)
(* again, or strands the job on record.                                    *)
LEMMA EnvironmentPassesOn ==
  ASSUME TypeOK, Wiring, Next,
         \/ \E h \in Runs : \/ Dispatch(h) \/ ReportProgress(h) \/ ReadingEnds(h)
                            \/ Deadline(h)
         \/ \E n \in Nodes : Shutdown(n) \/ ProcessEnds(n)
         \/ \E t \in Tasks : Recover(t),
         NEW j \in Jobs, ~Stranded(j)'
  PROVE  /\ jobs'[j].status = jobs[j].status
         /\ Driven(j) => Driven(j)'
<1> USE DEF Working
<1>1. /\ ~Stranded(j)
      /\ mishap'[j] \cap {"lostEnqueue", "lostWrite", "lostRun"} = {}
      /\ \A t \in Tasks : taskJob'[t] = j => taskState'[t] # "archived"
  BY StrandedStays DEF Stranded, Wiring
<1>2. /\ jobs'[j].status = jobs[j].status
      /\ UNCHANGED <<reqJob, taskJob>>
  <2>1. ASSUME NEW h \in Runs, ReportProgress(h)
        PROVE  jobs'[j].status = jobs[j].status /\ UNCHANGED <<reqJob, taskJob>>
    <3>1. JobOf(h) \in Jobs /\ jobs[JobOf(h)] \in Row
      BY <2>1, RunHasJob DEF ReportProgress, TypeOK
    <3> QED
      BY <2>1, <3>1, StatementsAndStatus DEF ReportProgress, Write, TypeOK, queueVars, requestVars
  <2> QED
    BY <2>1 DEF Dispatch, Dequeue, ReadingEnds, Deadline, Shutdown, ProcessEnds, Recover,
                RetryOrArchive, Requeue, queueVars, requestVars
<1> SUFFICES ASSUME Driven(j) PROVE Driven(j)'
  BY <1>2
<1>3. Driven(j)
  OBVIOUS
<1>4. CASE \E r \in Requests : reqJob[r] = j /\ reqPc[r] \in Submitting
  <2>1. PICK r \in Requests : reqJob[r] = j /\ reqPc[r] \in Submitting
    BY <1>4
  <2>2. ASSUME NEW n \in Nodes, ProcessEnds(n) PROVE reqPc'[r] = reqPc[r]
    BY <1>1, <2>1, <2>2, ProcessLeaves
  <2>3. reqPc'[r] = reqPc[r]
    BY <2>2 DEF Dispatch, ReportProgress, ReadingEnds, Deadline, Shutdown, Recover, requestVars
  <2> QED BY <1>2, <2>1, <2>3 DEF Driven
<1>5. ASSUME NEW h \in Runs, Dispatch(h) PROVE Driven(j)'
  <2>1. PICK t \in Tasks :
          /\ Goto(h, "idle", "read")
          /\ Dequeue(t)
          /\ runTask' = [runTask EXCEPT ![h] = t]
          /\ attached' = [attached EXCEPT ![h] = TRUE]
    BY <1>5 DEF Dispatch
  <2>2. CASE \E u \in Tasks : taskJob[u] = j /\ LiveTask(u)
    <3>1. PICK u \in Tasks : taskJob[u] = j /\ LiveTask(u)
      BY <2>2
    <3>2. taskState'[u] \in {"queued", "active"}
      BY <2>1, <3>1 DEF Dequeue, LiveTask, TypeOK, QueueTypeOK
    <3>3. \A g \in Runs : attached'[g] /\ runTask'[g] = u => pc'[g] = "read"
      BY <2>1, <3>1 DEF Dequeue, LiveTask, Goto, Wiring, TypeOK, QueueTypeOK
    <3> QED BY <1>2, <3>1, <3>2, <3>3 DEF Driven, LiveTask
  <2>3. CASE \E g \in Runs : pc[g] \in Working /\ JobOf(g) = j
    BY <1>2, <2>1, <2>3 DEF Goto, Driven, JobOf, TypeOK
  <2> QED BY <1>3, <1>4, <2>2, <2>3 DEF Driven
<1>6. ASSUME NEW h \in Runs, ReportProgress(h) \/ ReadingEnds(h) PROVE Driven(j)'
  <2>1. UNCHANGED <<requestVars, pc, runTask, attached, taskState>>
    BY <1>6 DEF ReportProgress, ReadingEnds, runVars, queueVars
  <2> QED BY <1>2, <1>3, <2>1 DEF Driven, LiveTask, JobOf, requestVars
<1>7. ASSUME NEW h \in Runs, Deadline(h) PROVE Driven(j)'
  <2>1. /\ UNCHANGED <<pc, runTask>>
        /\ attached' = [attached EXCEPT ![h] = FALSE]
        /\ RetryOrArchive(runTask[h])
        /\ runTask[h] \in Tasks
    BY <1>7 DEF Deadline, Wiring
  <2>2. CASE \E u \in Tasks : taskJob[u] = j /\ LiveTask(u)
    <3>1. PICK u \in Tasks : taskJob[u] = j /\ LiveTask(u)
      BY <2>2
    <3>2. CASE u = runTask[h]
      <4>1. taskState'[u] \in {"queued", "archived"}
        BY <2>1, <3>2 DEF RetryOrArchive, TypeOK, QueueTypeOK
      <4> QED BY <1>1, <1>2, <3>1, <4>1 DEF Driven, LiveTask
    <3>3. CASE u # runTask[h]
      <4>1. taskState'[u] = taskState[u]
        BY <2>1, <3>3 DEF RetryOrArchive, TypeOK, QueueTypeOK
      <4> QED BY <1>2, <2>1, <3>1, <4>1 DEF Driven, LiveTask, TypeOK
    <3> QED BY <3>2, <3>3
  <2>3. CASE \E g \in Runs : pc[g] \in Working /\ JobOf(g) = j
    BY <1>2, <2>1, <2>3 DEF Driven, JobOf
  <2> QED BY <1>3, <1>4, <2>2, <2>3 DEF Driven
<1>8. ASSUME NEW n \in Nodes, Shutdown(n) PROVE Driven(j)'
  <2>1. CASE \E u \in Tasks : taskJob[u] = j /\ LiveTask(u)
    <3>1. PICK u \in Tasks : taskJob[u] = j /\ LiveTask(u)
      BY <2>1
    <3>2. taskState'[u] = taskState[u] \/ taskState'[u] = "queued"
      BY <1>8, ShutdownHandsBack
    <3>3. \A g \in Runs : attached'[g] => attached[g]
      BY <1>8, ShutdownHandsBack
    <3> QED BY <1>2, <1>8, <3>1, <3>2, <3>3, ShutdownHandsBack DEF Driven, LiveTask
  <2>2. CASE \E g \in Runs : pc[g] \in Working /\ JobOf(g) = j
    BY <1>2, <1>8, <2>2, ShutdownHandsBack DEF Driven, JobOf
  <2> QED BY <1>3, <1>4, <2>1, <2>2 DEF Driven
<1>10. ASSUME NEW n \in Nodes, ProcessEnds(n) PROVE Driven(j)'
  <2>1. UNCHANGED <<runTask, taskState, taskJob>>
    BY <1>10, ProcessLeaves DEF queueVars
  <2>2. \A g \in Runs : attached'[g] => attached[g] /\ pc'[g] = pc[g]
    BY <1>10, ProcessLeaves
  <2>3. CASE \E u \in Tasks : taskJob[u] = j /\ LiveTask(u)
    BY <2>1, <2>2, <2>3 DEF Driven, LiveTask
  <2>4. CASE \E g \in Runs : pc[g] \in Working /\ JobOf(g) = j
    <3>1. PICK g \in Runs : pc[g] \in Working /\ JobOf(g) = j
      BY <2>4
    <3>2. CASE Host[g] # n
      BY <1>10, <3>1, <3>2, ProcessLeaves DEF Driven
    <3>3. CASE Host[g] = n /\ ~attached[g]
      BY <1>1, <1>10, <3>1, <3>3, ProcessLeaves DEF InFlight
    <3>4. CASE Host[g] = n /\ attached[g]
      <4>1. runTask[g] \in Tasks /\ taskJob'[runTask[g]] = j /\ taskState'[runTask[g]] = "active"
        BY <2>1, <3>1, <3>4 DEF Wiring, JobOf, InFlight
      <4>2. \A f \in Runs : ~(attached'[f] /\ runTask'[f] = runTask[g])
        BY <1>10, <2>1, <2>2, <3>4, ProcessLeaves DEF Wiring
      <4> QED BY <2>1, <4>1, <4>2 DEF Driven, LiveTask
    <3> QED BY <3>2, <3>3, <3>4
  <2> QED BY <1>3, <1>4, <2>3, <2>4 DEF Driven
<1>9. ASSUME NEW t \in Tasks, Recover(t) PROVE Driven(j)'
  <2>1. UNCHANGED <<pc, runTask, attached>> /\ RetryOrArchive(t)
    BY <1>9 DEF Recover, runVars
  <2>2. CASE \E u \in Tasks : taskJob[u] = j /\ LiveTask(u)
    <3>1. PICK u \in Tasks : taskJob[u] = j /\ LiveTask(u)
      BY <2>2
    <3>2. taskState'[u] = taskState[u] \/ taskState'[u] \in {"queued", "archived"}
      BY <2>1 DEF RetryOrArchive, TypeOK, QueueTypeOK
    <3> QED BY <1>1, <1>2, <2>1, <3>1, <3>2 DEF Driven, LiveTask
  <2>3. CASE \E g \in Runs : pc[g] \in Working /\ JobOf(g) = j
    BY <1>2, <2>1, <2>3 DEF Driven, JobOf
  <2> QED BY <1>3, <1>4, <2>2, <2>3 DEF Driven
<1> QED
  BY <1>5, <1>6, <1>7, <1>8, <1>9, <1>10

LEMMA EnvironmentKeepsDriven ==
  ASSUME TypeOK, Wiring, ActiveJobsAreDriven, Next,
         \/ \E h \in Runs : \/ Dispatch(h) \/ ReportProgress(h) \/ ReadingEnds(h)
                            \/ Deadline(h)
         \/ \E n \in Nodes : Shutdown(n) \/ ProcessEnds(n)
         \/ \E t \in Tasks : Recover(t)
  PROVE  ActiveJobsAreDriven'
<1> SUFFICES ASSUME NEW j \in Jobs, jobs'[j].status \in Active, ~Stranded(j)'
             PROVE  Driven(j)'
  BY DEF ActiveJobsAreDriven
<1>1. ~Stranded(j)
  BY StrandedStays DEF Stranded, Wiring
<1> QED BY <1>1, EnvironmentPassesOn DEF ActiveJobsAreDriven

LEMMA NextKeepsDriven ==
  ASSUME TypeOK, Wiring, ActiveJobsAreDriven, [Next]_vars
  PROVE  ActiveJobsAreDriven'
<1>1. CASE Next
  BY <1>1, RequestKeepsDriven, HandlerKeepsDriven, EnvironmentKeepsDriven DEF Next
<1>2. CASE UNCHANGED vars
  BY <1>2
  DEF vars, runVars, requestVars, queueVars, history, ActiveJobsAreDriven,
      Driven, Stranded, LiveTask, JobOf
<1> QED BY <1>1, <1>2

(* In every reachable state a job in pending, downloading, transcoding or  *)
(* uploading has a request, a task or a handler that will still move it,   *)
(* unless one of the faults of Stranded has hit it.                        *)
THEOREM NoJobForgotten == Spec => []ActiveJobsAreDriven
<1>1. Init => ActiveJobsAreDriven
  BY DEF Init, ActiveJobsAreDriven, NoRow, Active, Running
<1>2. TypeOK /\ Wiring /\ ActiveJobsAreDriven /\ [Next]_vars => ActiveJobsAreDriven'
  BY NextKeepsDriven
<1> QED
  BY <1>1, <1>2, TypeCorrect, PTL DEF Spec

-----------------------------------------------------------------------------
(* Completed says 100 percent.                                             *)

Short(j) == jobs[j].status = "completed" /\ jobs[j].progress # 100

(* What may still come to a job that has fallen short, or keeps it so.     *)
Filling(j) == \E h \in Runs : pc[h] = "setFull" /\ JobOf(h) = j
Excused(j) == mishap[j] \cap {"late", "lostFull"} # {}

(* The statements that do not say completed make no job fall short.        *)
LEMMA OthersDoNotShorten ==
  ASSUME TypeOK, NEW i \in Jobs, NEW s \in JobStatus \ {"completed"}, NEW j \in Jobs,
         \/ UNCHANGED jobs
         \/ jobs' = [jobs EXCEPT ![i] = CreateJob]
         \/ jobs' = [jobs EXCEPT ![i] = UpdateJobStatus(jobs[i], s)]
         \/ jobs' = [jobs EXCEPT ![i] = UpdateJobError(jobs[i])]
         \/ jobs' = [jobs EXCEPT ![i] = DeleteJob(jobs[i])]
         \/ jobs' = [jobs EXCEPT ![i] = UpdateJobProgress(jobs[i], 100)],
         Short(j)'
  PROVE  Short(j)
<1>1. jobs[i] \in Row
  BY DEF TypeOK
<1>2. PICK row : /\ UNCHANGED jobs \/ jobs' = [jobs EXCEPT ![i] = row]
                 /\ row = CreateJob \/ row = UpdateJobStatus(jobs[i], s)
                    \/ row = UpdateJobError(jobs[i]) \/ row = DeleteJob(jobs[i])
                    \/ row = UpdateJobProgress(jobs[i], 100)
  OBVIOUS
<1>3. row.status = "completed" => row = UpdateJobProgress(jobs[i], 100)
  BY <1>1, <1>2, StatementsAndStatus DEF Exists, JobStatus, Settled
<1>4. row = UpdateJobProgress(jobs[i], 100) /\ row.status = "completed" => row.progress = 100
  BY <1>1, StatementsAndStatus DEF UpdateJobProgress, Row, Exists, JobStatus, Settled
<1> QED BY <1>2, <1>3, <1>4 DEF Short, TypeOK

(* A request makes no job fall short but by the reset of a retry, after    *)
(* which it enqueues the job.                                              *)
LEMMA RequestShortens ==
  ASSUME TypeOK, Wiring, NEW r \in Requests, RequestNext(r),
         NEW j \in Jobs, Short(j)'
  PROVE  Short(j) \/ (RetryProgress(r) /\ reqJob[r] = j)
<1>1. "cancelled" \in JobStatus \ {"completed"} /\ "pending" \in JobStatus \ {"completed"}
  BY DEF JobStatus, Settled, Active
<1>2. CASE Create(r)
  BY <1>1, <1>2, OthersDoNotShorten DEF Create
<1>3. CASE RetryPending(r) \/ CreateFail(r) \/ DeleteCancel(r) \/ DeleteRow(r)
  <2>1. PICK i \in Jobs : i = reqJob[r]
    BY <1>3 DEF RetryPending, CreateFail, DeleteCancel, DeleteRow, Step, Wiring
  <2>2. \/ UNCHANGED jobs
        \/ jobs' = [jobs EXCEPT ![i] = UpdateJobStatus(jobs[i], "pending")]
        \/ jobs' = [jobs EXCEPT ![i] = UpdateJobStatus(jobs[i], "cancelled")]
        \/ jobs' = [jobs EXCEPT ![i] = UpdateJobError(jobs[i])]
        \/ jobs' = [jobs EXCEPT ![i] = DeleteJob(jobs[i])]
    BY <1>3, <2>1 DEF RetryPending, CreateFail, DeleteCancel, DeleteRow, Write
  <2> QED BY <1>1, <2>2, OthersDoNotShorten
<1>4. CASE RetryProgress(r)
  BY <1>4 DEF RetryProgress, Write, Short, TypeOK
<1>5. CASE CreateEnqueue(r) \/ AutoEnqueue(r) \/ RetryEnqueue(r) \/ DeleteRead(r)
           \/ PurgeOutput(r) \/ RetryRead(r)
  BY <1>5 DEF CreateEnqueue, AutoEnqueue, RetryEnqueue, Enqueue, DeleteRead, PurgeOutput,
              RetryRead, Short
<1> QED BY <1>2, <1>3, <1>4, <1>5 DEF RequestNext

LEMMA RequestKeepsFull ==
  ASSUME TypeOK, Wiring, CompletedIsFull, Next,
         NEW r \in Requests, RequestNext(r)
  PROVE  CompletedIsFull'
<1> SUFFICES ASSUME NEW j \in Jobs, Short(j)', ~Stranded(j)', ~Excused(j)'
             PROVE  Driven(j)' \/ Filling(j)'
  BY DEF CompletedIsFull, Short, Excused, Filling
<1>1. ~Stranded(j) /\ ~Excused(j)
  BY StrandedStays DEF Stranded, Excused, Wiring
<1>2. CASE RetryProgress(r) /\ reqJob[r] = j
  BY <1>2, RequestPassesOn DEF Short
<1>3. CASE Short(j) /\ Driven(j)
  BY <1>3, RequestPassesOn DEF Short
<1>4. CASE Short(j) /\ Filling(j)
  <2>1. UNCHANGED runVars
    BY DEF RequestNext, Create, CreateEnqueue, AutoEnqueue, CreateFail, DeleteRead,
           DeleteCancel, PurgeOutput, DeleteRow, RetryRead, RetryPending, RetryProgress,
           RetryEnqueue, Enqueue
  <2>2. \A h \in Runs : InFlight(h) => runTask[h] \in Tasks /\ taskState[runTask[h]] # "free"
    BY DEF Wiring
  <2> QED BY <1>4, <2>1, <2>2, StrandedStays DEF Filling, JobOf, InFlight, runVars
<1> QED BY <1>1, <1>2, <1>3, <1>4, RequestShortens DEF CompletedIsFull, Short, Excused, Filling

(* A handler that says completed says 100 percent next; no other statement *)
(* of a handler makes its job fall short.                                  *)
LEMMA HandlerKeepsFull ==
  ASSUME TypeOK, Wiring, CompletedIsFull, Next, NEW h \in Runs, HandleTranscode(h)
  PROVE  CompletedIsFull'
<1> SUFFICES ASSUME NEW j \in Jobs, Short(j)', ~Stranded(j)', ~Excused(j)'
             PROVE  Driven(j)' \/ Filling(j)'
  BY DEF CompletedIsFull, Short, Excused, Filling
<1>1. ~Stranded(j) /\ ~Excused(j)
  BY StrandedStays DEF Stranded, Excused, Wiring
<1>2. InFlight(h)
  BY DEF HandleTranscode, RunRead, RunMkdir, RunSetDownloading, RunDownload,
         RunSetTranscoding, RunThumbnail, RunTranscode, RunEncoded, RunSetUploading,
         RunUpload, RunUploaded, RunSetCompleted, RunSetFull, RunFail, RunNotify,
         RunReturn, RunSetStatus, Goto, InFlight
<1>3. PICK i \in Jobs : i = JobOf(h)
  BY <1>2, RunHasJob
<1>4. UNCHANGED <<runTask, taskJob>>
  BY DEF HandleTranscode, RunRead, RunMkdir, RunSetDownloading, RunDownload,
         RunSetTranscoding, RunThumbnail, RunTranscode, RunEncoded, RunSetUploading,
         RunUpload, RunUploaded, RunSetCompleted, RunSetFull, RunFail, RunNotify,
         RunReturn, RunSetStatus, RetryOrArchive, Done, queueVars
<1>5. \A g \in Runs \ {h} : pc'[g] = pc[g]
  BY DEF HandleTranscode, RunRead, RunMkdir, RunSetDownloading, RunDownload,
         RunSetTranscoding, RunThumbnail, RunTranscode, RunEncoded, RunSetUploading,
         RunUpload, RunUploaded, RunSetCompleted, RunSetFull, RunFail, RunNotify,
         RunReturn, RunSetStatus, Goto, TypeOK
<1>6. RunSetCompleted(h) /\ i = j => Filling(j)'
  BY <1>3, <1>4 DEF RunSetCompleted, RunSetStatus, Goto, Filling, JobOf, TypeOK
<1>7. RunSetCompleted(h) /\ i # j => jobs'[j] = jobs[j]
  BY <1>3 DEF RunSetCompleted, RunSetStatus, Write, TypeOK
<1>8. ~RunSetCompleted(h) => Short(j)
  <2>1. CASE RunSetDownloading(h) \/ RunSetTranscoding(h) \/ RunSetUploading(h)
    <3>1. PICK s \in Running : Write(i, UpdateJobStatus(jobs[i], s), {})
      BY <1>3, <2>1 DEF RunSetDownloading, RunSetTranscoding, RunSetUploading, RunSetStatus, Running
    <3>2. s \in JobStatus \ {"completed"}
      BY DEF Running, Active, JobStatus
    <3> QED BY <3>1, <3>2, OthersDoNotShorten DEF Write
  <2>2. CASE RunFail(h) \/ RunSetFull(h)
    <3>1. "pending" \in JobStatus \ {"completed"}
      BY DEF Active, JobStatus
    <3>2. \/ UNCHANGED jobs
          \/ jobs' = [jobs EXCEPT ![i] = UpdateJobError(jobs[i])]
          \/ jobs' = [jobs EXCEPT ![i] = UpdateJobProgress(jobs[i], 100)]
      BY <1>3, <2>2 DEF RunFail, RunSetFull, Write
    <3> QED BY <3>1, <3>2, OthersDoNotShorten
  <2>3. CASE RunRead(h) \/ RunMkdir(h) \/ RunDownload(h) \/ RunThumbnail(h) \/ RunTranscode(h)
             \/ RunEncoded(h) \/ RunUpload(h) \/ RunUploaded(h) \/ RunNotify(h) \/ RunReturn(h)
    BY <2>3 DEF RunRead, RunMkdir, RunDownload, RunThumbnail, RunTranscode, RunEncoded,
                RunUpload, RunUploaded, RunNotify, RunReturn, Short
  <2> QED BY <2>1, <2>2, <2>3 DEF HandleTranscode
<1>9. CASE Short(j) /\ Driven(j)
  <2>1. jobs'[j].status \in Active \cup {"completed"}
    BY DEF Short
  <2> QED BY <1>3, <1>6, <1>9, <2>1, HandlerPassesOn
<1>10. CASE Short(j) /\ Filling(j)
  <2>1. PICK g \in Runs : pc[g] = "setFull" /\ JobOf(g) = j
    BY <1>10 DEF Filling
  <2>2. CASE g # h
    BY <1>4, <1>5, <2>1, <2>2 DEF Filling, JobOf
  <2>3. CASE g = h
    <3>1. RunSetFull(h) /\ i = j
      BY <1>3, <2>1, <2>3
      DEF HandleTranscode, RunRead, RunMkdir, RunSetDownloading, RunDownload,
          RunSetTranscoding, RunThumbnail, RunTranscode, RunEncoded, RunSetUploading,
          RunUpload, RunUploaded, RunSetCompleted, RunFail, RunNotify,
          RunReturn, RunSetStatus, Goto
    <3>2. CASE jobs' = [jobs EXCEPT ![j] = UpdateJobProgress(jobs[j], 100)]
      BY <1>10, <3>2 DEF Short, UpdateJobProgress, Exists, JobStatus, Settled, Row, TypeOK
    <3>3. CASE Note(j, {"lostFull"})
      BY <3>3 DEF Note, Excused, TypeOK
    <3> QED BY <1>3, <3>1, <3>2, <3>3 DEF RunSetFull, Write
  <2> QED BY <2>2, <2>3
<1>11. Short(j) => Driven(j) \/ Filling(j)
  BY <1>1 DEF CompletedIsFull, Short, Excused, Filling
<1>12. Short(j) \/ Filling(j)'
  BY <1>6, <1>7, <1>8 DEF Short
<1> QED BY <1>9, <1>10, <1>11, <1>12

(* While its ffmpeg runs, a handler that reports progress has still to     *)
(* settle the job; a handler that is lost before it says 100 percent has   *)
(* its task delivered again, or is on record.                              *)
LEMMA EnvironmentKeepsFull ==
  ASSUME TypeOK, Wiring, CompletedIsFull, Next,
         \/ \E h \in Runs : \/ Dispatch(h) \/ ReportProgress(h) \/ ReadingEnds(h)
                            \/ Deadline(h)
         \/ \E n \in Nodes : Shutdown(n) \/ ProcessEnds(n)
         \/ \E t \in Tasks : Recover(t)
  PROVE  CompletedIsFull'
<1> SUFFICES ASSUME NEW j \in Jobs, Short(j)', ~Stranded(j)', ~Excused(j)'
             PROVE  Driven(j)' \/ Filling(j)'
  BY DEF CompletedIsFull, Short, Excused, Filling
<1>1. ~Stranded(j) /\ ~Excused(j)
  BY StrandedStays DEF Stranded, Excused, Wiring
<1>2. Driven(j) => Driven(j)'
  BY EnvironmentPassesOn
<1>3. ASSUME NEW h \in Runs, ReportProgress(h), ~Short(j) PROVE Driven(j)'
  <2>1. PICK i \in Jobs : i = JobOf(h)
    BY <1>3, RunHasJob DEF ReportProgress
  <2>2. i = j
    BY <1>3, <2>1 DEF ReportProgress, Short, TypeOK
  <2>3. pc[h] = "encoding"
    BY <1>3, <2>1, <2>2 DEF ReportProgress, Note, Excused, TypeOK
  <2> QED BY <1>2, <2>1, <2>2, <2>3 DEF Driven, Working
<1>4. Short(j) \/ \E h \in Runs : ReportProgress(h)
  BY DEF Dispatch, ReadingEnds, Deadline, Shutdown, ProcessEnds, Recover, Short
<1>5. ASSUME NEW g \in Runs, pc[g] = "setFull", JobOf(g) = j PROVE Driven(j)' \/ Filling(j)'
  <2>1. runTask[g] \in Tasks /\ taskState[runTask[g]] # "free"
    BY <1>5 DEF Wiring, InFlight
  <2>2. taskJob'[runTask[g]] = j
    BY <1>5, <2>1, StrandedStays DEF JobOf
  <2>3. ASSUME NEW n \in Nodes, ProcessEnds(n), Host[g] = n PROVE Driven(j)'
    <3>1. attached[g]
      BY <1>5, <2>3, ProcessLeaves DEF Stranded, InFlight
    <3>2. taskState[runTask[g]] = "active" /\ UNCHANGED <<taskState, runTask>>
      BY <2>3, <3>1, ProcessLeaves DEF Wiring, queueVars
    <3>3. \A f \in Runs : ~(attached'[f] /\ runTask'[f] = runTask[g])
      BY <2>3, <3>1, <3>2, ProcessLeaves DEF Wiring
    <3> QED BY <2>1, <2>2, <3>2, <3>3 DEF Driven, LiveTask
  <2>4. ASSUME NEW n \in Nodes, ProcessEnds(n), Host[g] # n PROVE Filling(j)'
    BY <1>5, <2>4, ProcessLeaves DEF Filling
  <2>5. ASSUME ~\E n \in Nodes : ProcessEnds(n) PROVE Filling(j)'
    <3>1. pc'[g] = pc[g] /\ runTask'[g] = runTask[g]
      BY <1>5, <2>5
      DEF Dispatch, ReportProgress, ReadingEnds, Deadline, Shutdown, Recover,
          Goto, runVars, TypeOK
    <3> QED BY <1>5, <2>2, <3>1 DEF Filling, JobOf
  <2> QED BY <2>3, <2>4, <2>5
<1>6. Short(j) => Driven(j) \/ Filling(j)
  BY <1>1 DEF CompletedIsFull, Short, Excused, Filling
<1> QED BY <1>2, <1>3, <1>4, <1>5, <1>6 DEF Filling

(* No overlap, retry, crash or redelivery leaves a completed job below 100 *)
(* percent but for the late reports and lost statements that are named.    *)
THEOREM CompletedSaysAll == Spec => []CompletedIsFull
<1>1. Init => CompletedIsFull
  BY DEF Init, CompletedIsFull, NoRow
<1>2. TypeOK /\ Wiring /\ CompletedIsFull /\ [Next]_vars => CompletedIsFull'
  <2> SUFFICES ASSUME TypeOK, Wiring, CompletedIsFull, [Next]_vars PROVE CompletedIsFull'
    OBVIOUS
  <2>1. CASE Next
    BY <2>1, RequestKeepsFull, HandlerKeepsFull, EnvironmentKeepsFull DEF Next
  <2>2. CASE UNCHANGED vars
    BY <2>2
    DEF vars, runVars, requestVars, queueVars, history, CompletedIsFull,
        Driven, Stranded, LiveTask, JobOf
  <2> QED BY <2>1, <2>2
<1> QED
  BY <1>1, <1>2, TypeCorrect, PTL DEF Spec

-----------------------------------------------------------------------------
(* Rows only change by the statements of database.go.                      *)

LEMMA OnlyStatements ==
  ASSUME TypeOK, Wiring, [Next]_vars, NEW j \in Jobs
  PROVE  \/ jobs'[j] = jobs[j]
         \/ /\ jobs[j].status = "unborn" /\ jobs'[j] = CreateJob
            /\ \E r \in Requests : Begin(r, j, "createEnqueue") \/ Begin(r, j, "autoEnqueue")
         \/ \E s \in JobStatus \ {"failed"} : jobs'[j] = UpdateJobStatus(jobs[j], s)
         \/ \E p \in Progress : jobs'[j] = UpdateJobProgress(jobs[j], p)
         \/ jobs'[j] = UpdateJobError(jobs[j])
         \/ jobs'[j] = DeleteJob(jobs[j])
<1> DEFINE P(i, row) == \/ row = jobs[i]
                        \/ /\ jobs[i].status = "unborn" /\ row = CreateJob
                           /\ \E r \in Requests : \/ Begin(r, i, "createEnqueue")
                                                \/ Begin(r, i, "autoEnqueue")
                        \/ \E s \in JobStatus \ {"failed"} : row = UpdateJobStatus(jobs[i], s)
                        \/ \E p \in Progress : row = UpdateJobProgress(jobs[i], p)
                        \/ row = UpdateJobError(jobs[i])
                        \/ row = DeleteJob(jobs[i])
<1> HIDE DEF P
<1>0. ASSUME NEW i, NEW row, NEW loss, Write(i, row, loss), P(i, row) PROVE P(j, jobs'[j])
  BY <1>0 DEF Write, TypeOK, P
<1>1. UNCHANGED jobs => P(j, jobs'[j])
  BY DEF P
<1>2. ASSUME NEW r \in Requests, RequestNext(r) PROVE P(j, jobs'[j])
  <2>1. CASE Create(r)
    <3>1. PICK i \in Jobs :
            /\ jobs[i].status = "unborn"
            /\ Begin(r, i, "createEnqueue") \/ Begin(r, i, "autoEnqueue")
            /\ jobs' = [jobs EXCEPT ![i] = CreateJob]
      BY <2>1 DEF Create
    <3>2. jobs'[j] = IF i = j THEN CreateJob ELSE jobs[j]
      BY <3>1 DEF TypeOK
    <3> QED BY <3>1, <3>2 DEF P
  <2>2. CASE CreateFail(r)
    BY <1>0, <2>2 DEF CreateFail, P
  <2>3. CASE DeleteRow(r)
    BY <1>0, <2>3 DEF DeleteRow, P
  <2>4. CASE DeleteCancel(r)
    <3>1. P(reqJob[r], UpdateJobStatus(jobs[reqJob[r]], "cancelled"))
      BY DEF P, JobStatus, Settled
    <3> QED BY <1>0, <2>4, <3>1 DEF DeleteCancel
  <2>5. CASE RetryPending(r)
    <3>1. P(reqJob[r], UpdateJobStatus(jobs[reqJob[r]], "pending"))
      BY DEF P, JobStatus, Active
    <3> QED BY <1>0, <2>5, <3>1 DEF RetryPending
  <2>6. CASE RetryProgress(r)
    <3>1. P(reqJob[r], UpdateJobProgress(jobs[reqJob[r]], 0))
      BY DEF P, Progress
    <3> QED BY <1>0, <2>6, <3>1 DEF RetryProgress
  <2>7. CASE CreateEnqueue(r) \/ AutoEnqueue(r) \/ RetryEnqueue(r) \/ DeleteRead(r)
             \/ PurgeOutput(r) \/ RetryRead(r)
    BY <1>1, <2>7 DEF CreateEnqueue, AutoEnqueue, RetryEnqueue, Enqueue, DeleteRead,
                      PurgeOutput, RetryRead
  <2> QED
    BY <1>2, <2>1, <2>2, <2>3, <2>4, <2>5, <2>6, <2>7 DEF RequestNext
<1>3. ASSUME NEW h \in Runs, HandleTranscode(h) PROVE P(j, jobs'[j])
  <2>1. CASE RunSetDownloading(h) \/ RunSetTranscoding(h) \/ RunSetUploading(h) \/ RunSetCompleted(h)
    <3>1. PICK s \in JobStatus \ {"failed"}, loss \in {{}, {"lostWrite"}} :
            Write(JobOf(h), UpdateJobStatus(jobs[JobOf(h)], s), loss)
      BY <2>1 DEF RunSetDownloading, RunSetTranscoding, RunSetUploading, RunSetCompleted,
                  RunSetStatus, JobStatus, Active, Running, Settled
    <3>2. P(JobOf(h), UpdateJobStatus(jobs[JobOf(h)], s))
      BY DEF P
    <3> QED BY <1>0, <3>1, <3>2
  <2>2. CASE RunSetFull(h)
    <3>1. P(JobOf(h), UpdateJobProgress(jobs[JobOf(h)], 100))
      BY DEF P, Progress
    <3> QED BY <1>0, <2>2, <3>1 DEF RunSetFull
  <2>3. CASE RunFail(h)
    BY <1>0, <2>3 DEF RunFail, P
  <2>4. CASE RunRead(h) \/ RunMkdir(h) \/ RunDownload(h) \/ RunThumbnail(h)
             \/ RunTranscode(h) \/ RunEncoded(h) \/ RunUpload(h) \/ RunUploaded(h)
             \/ RunNotify(h) \/ RunReturn(h)
    BY <1>1, <2>4 DEF RunRead, RunMkdir, RunDownload, RunThumbnail, RunTranscode, RunEncoded,
                      RunUpload, RunUploaded, RunNotify, RunReturn
  <2> QED BY <1>3, <2>1, <2>2, <2>3, <2>4 DEF HandleTranscode
<1>4. ASSUME NEW h \in Runs, ReportProgress(h) PROVE P(j, jobs'[j])
  <2>1. PICK p \in Progress :
          jobs' = [jobs EXCEPT ![JobOf(h)] = UpdateJobProgress(jobs[JobOf(h)], p)]
    BY <1>4 DEF ReportProgress
  <2>2. CASE j = JobOf(h)
    BY <2>1, <2>2 DEF P, TypeOK
  <2>3. CASE j # JobOf(h)
    BY <1>1, <2>1, <2>3 DEF P, TypeOK
  <2> QED BY <2>2, <2>3
<1>5. ASSUME \/ \E h \in Runs : Dispatch(h) \/ ReadingEnds(h) \/ Deadline(h)
             \/ \E n \in Nodes : Shutdown(n) \/ ProcessEnds(n)
             \/ \E t \in Tasks : Recover(t)
             \/ UNCHANGED vars
      PROVE  P(j, jobs'[j])
  <2>1. UNCHANGED jobs
    BY <1>5 DEF Dispatch, ReadingEnds, Deadline, Shutdown, ProcessEnds, Recover, vars
  <2> QED BY <1>1, <2>1
<1>6. P(j, jobs'[j])
  <2>1. CASE Next
    BY <1>2, <1>3, <1>4, <1>5, <2>1 DEF Next
  <2>2. CASE UNCHANGED vars
    BY <1>5, <2>2
  <2> QED BY <2>1, <2>2
<1> QED BY <1>6 DEF P

(* The columns of every row agree in every reachable state.                *)
THEOREM RowsAlwaysAgree == Spec => []RowsAgree
<1>1. Init => RowsAgree
  BY DEF Init, RowsAgree, NoRow, Settled
<1>2. ASSUME TypeOK, Wiring, RowsAgree, [Next]_vars PROVE RowsAgree'
  <2> SUFFICES ASSUME NEW j \in Jobs
               PROVE  LET row == jobs'[j] IN
                      /\ row.status = "failed" => row.error
                      /\ row.error => row.status \in {"failed", "cancelled"}
                      /\ row.status \in Settled => row.finished
                      /\ row.status = "pending" => ~row.finished
    BY DEF RowsAgree
  <2>1. jobs[j] \in Row
    BY <1>2 DEF TypeOK
  <2>2. /\ jobs[j].status = "failed" => jobs[j].error
        /\ jobs[j].error => jobs[j].status \in {"failed", "cancelled"}
        /\ jobs[j].status \in Settled => jobs[j].finished
        /\ jobs[j].status = "pending" => ~jobs[j].finished
    BY <1>2 DEF RowsAgree
  <2>3. CASE jobs'[j] = jobs[j] \/ jobs'[j] = CreateJob
    BY <2>2, <2>3 DEF CreateJob, NoRow, Settled
  <2>6. CASE jobs'[j] = UpdateJobError(jobs[j])
    BY <2>1, <2>2, <2>6 DEF UpdateJobError, Row, Settled
  <2>7. CASE jobs'[j] = DeleteJob(jobs[j])
    BY <2>2, <2>7 DEF DeleteJob, NoRow, Settled
  <2>4. CASE \E s \in JobStatus \ {"failed"} : jobs'[j] = UpdateJobStatus(jobs[j], s)
    BY <2>1, <2>2, <2>4 DEF UpdateJobStatus, Row, JobStatus, Active, Running, Settled
  <2>5. CASE \E p \in Progress : jobs'[j] = UpdateJobProgress(jobs[j], p)
    BY <2>1, <2>2, <2>5 DEF UpdateJobProgress, Row
  <2> QED BY <1>2, <2>3, <2>4, <2>5, <2>6, <2>7, OnlyStatements
<1> QED
  BY <1>1, <1>2, TypeCorrect, PTL DEF Spec

(* No step of any behaviour brings a deleted row back.                     *)
THEOREM NoResurrection == Spec => DeletedStaysDeleted
<1>1. ASSUME TypeOK, Wiring, [Next]_vars
      PROVE  [\A j \in Jobs : jobs[j].status = "deleted" => jobs'[j].status = "deleted"]_vars
  <2> SUFFICES ASSUME NEW j \in Jobs, jobs[j].status = "deleted"
               PROVE  jobs'[j].status = "deleted"
    OBVIOUS
  <2>1. jobs[j] \in Row /\ ~Exists(jobs[j])
    BY <1>1 DEF TypeOK, Exists, JobStatus, Active, Running, Settled
  <2> QED
    BY <1>1, <2>1, OnlyStatements, StatementsAndStatus
<1> QED
  BY <1>1, TypeCorrect, PTL DEF Spec, DeletedStaysDeleted

-----------------------------------------------------------------------------
(* The files of a job.                                                     *)

(* Handlers of one job that are in flight together are on record.          *)
Alone ==
  \A g, h \in Runs :
    InFlight(g) /\ InFlight(h) /\ JobOf(g) = JobOf(h) =>
      g = h \/ "overlap" \in mishap[JobOf(h)]

(* What a handler that is alone finds in the directory and at the output   *)
(* URL, statement by statement.                                            *)
FilesOf(h) ==
  /\ pc[h] \in {"setDownloading", "download"} => work[Dir(h)] # "absent"
  /\ pc[h] \in {"setTranscoding", "thumbnail", "transcode"} =>
       work[Dir(h)] \in {"input", "partial", "output"}
  /\ pc[h] = "encoding" => work[Dir(h)] = "partial"
  /\ pc[h] \in {"setUploading", "upload", "uploading"} => work[Dir(h)] = "output"
  /\ pc[h] = "setCompleted" => stored[JobOf(h)] = "full" \/ "purged" \in mishap[JobOf(h)]

HandlersHaveFiles ==
  \A h \in Runs : InFlight(h) => FilesOf(h) \/ "overlap" \in mishap[JobOf(h)]

OutputInv == Alone /\ HandlersHaveFiles /\ CompletedHasOutput

(* Steps that move no handler on.                                          *)
LEMMA OutputFrame ==
  ASSUME TypeOK, OutputInv,
         \A j \in Jobs : mishap[j] \subseteq mishap'[j],
         \A j \in Jobs : jobs'[j].status = "completed" => jobs[j].status = "completed",
         \A j \in Jobs : stored'[j] = stored[j] \/ "purged" \in mishap'[j],
         UNCHANGED work,
         \A h \in Runs : InFlight(h)' =>
           InFlight(h) /\ pc'[h] = pc[h] /\ JobOf(h)' = JobOf(h) /\ JobOf(h) \in Jobs
  PROVE  OutputInv'
<1>1. Alone'
  BY DEF OutputInv, Alone
<1>2. HandlersHaveFiles'
  <2> SUFFICES ASSUME NEW h \in Runs, InFlight(h)'
               PROVE  FilesOf(h)' \/ "overlap" \in mishap'[JobOf(h)']
    BY DEF HandlersHaveFiles
  <2>1. PICK i \in Jobs : JobOf(h) = i /\ JobOf(h)' = i
    OBVIOUS
  <2>2. InFlight(h) /\ pc'[h] = pc[h] /\ (FilesOf(h) \/ "overlap" \in mishap[i])
    BY <2>1 DEF OutputInv, HandlersHaveFiles
  <2> QED BY <2>1, <2>2 DEF FilesOf, Dir
<1>3. CompletedHasOutput'
  BY DEF OutputInv, CompletedHasOutput
<1> QED BY <1>1, <1>2, <1>3 DEF OutputInv

(* A statement of handler h about job i.                                   *)
LEMMA OutputStep ==
  ASSUME TypeOK, Wiring, OutputInv,
         NEW h \in Runs, NEW i \in Jobs, InFlight(h), JobOf(h) = i,
         UNCHANGED <<runTask, taskJob>>,
         \A g \in Runs \ {h} : pc'[g] = pc[g],
         \A j \in Jobs : mishap[j] \subseteq mishap'[j],
         \A j \in Jobs \ {i} : jobs'[j] = jobs[j] /\ stored'[j] = stored[j],
         \A d \in Nodes \X (Jobs \ {i}) : work'[d] = work[d],
         "overlap" \notin mishap[i] /\ FilesOf(h) =>
           /\ pc'[h] # "idle" => FilesOf(h)'
           /\ jobs'[i].status = "completed" =>
                stored'[i] = "full" \/ "purged" \in mishap'[i]
  PROVE  OutputInv'
<1>1. \A g \in Runs : /\ InFlight(g)' => InFlight(g)
                      /\ JobOf(g)' = JobOf(g)
                      /\ InFlight(g) => JobOf(g) \in Jobs
  BY RunHasJob DEF InFlight, JobOf
<1>2. Alone'
  BY <1>1 DEF OutputInv, Alone
<1>3. HandlersHaveFiles'
  <2> SUFFICES ASSUME NEW g \in Runs, InFlight(g)'
               PROVE  FilesOf(g)' \/ "overlap" \in mishap'[JobOf(g)']
    BY DEF HandlersHaveFiles
  <2>1. PICK k \in Jobs : JobOf(g) = k /\ JobOf(g)' = k
    BY <1>1
  <2>2. FilesOf(g) \/ "overlap" \in mishap[k]
    BY <1>1, <2>1 DEF OutputInv, HandlersHaveFiles
  <2>3. CASE g = h
    BY <2>1, <2>2, <2>3 DEF InFlight
  <2>4. CASE g # h /\ k = i
    <3>1. "overlap" \in mishap[i]
      BY <1>1, <2>1, <2>4 DEF OutputInv, Alone
    <3> QED BY <2>1, <2>4, <3>1
  <2>5. CASE g # h /\ k # i
    <3>1. Dir(g) \in Nodes \X (Jobs \ {i}) /\ Dir(g)' = Dir(g)
      BY <2>1, <2>5, RunHasPlace DEF Dir
    <3> QED BY <2>1, <2>2, <2>5, <3>1 DEF FilesOf
  <2> QED BY <2>3, <2>4, <2>5
<1>4. CompletedHasOutput'
  <2> SUFFICES ASSUME NEW j \in Jobs, jobs'[j].status = "completed"
               PROVE  stored'[j] = "full" \/ mishap'[j] \cap {"overlap", "purged"} # {}
    BY DEF CompletedHasOutput
  <2>1. CASE j = i
    BY <2>1 DEF OutputInv, HandlersHaveFiles
  <2>2. CASE j # i
    BY <2>2 DEF OutputInv, CompletedHasOutput
  <2> QED BY <2>1, <2>2
<1> QED BY <1>2, <1>3, <1>4 DEF OutputInv

(* A statement that never writes completed leaves no row newly completed.  *)
LEMMA WriteNotCompleted ==
  ASSUME TypeOK, NEW i \in Jobs, NEW row, NEW loss, Write(i, row, loss),
         row.status = "completed" => jobs[i].status = "completed"
  PROVE  \A j \in Jobs : jobs'[j].status = "completed" => jobs[j].status = "completed"
BY DEF Write, TypeOK

LEMMA RequestCompletesNothing ==
  ASSUME TypeOK, Wiring, NEW r \in Requests, RequestNext(r)
  PROVE  \A j \in Jobs : jobs'[j].status = "completed" => jobs[j].status = "completed"
<1> DEFINE i == reqJob[r]
<1>0. reqPc[r] # "idle" => i \in Jobs /\ jobs[i] \in Row
  BY DEF Wiring, TypeOK
<1>1. CASE Create(r)
  BY <1>1, StatementsAndStatus DEF Create, CreateJob, NoRow, TypeOK
<1>2. CASE UNCHANGED jobs
  BY <1>2
<1>3. CASE CreateFail(r) \/ DeleteCancel(r) \/ DeleteRow(r) \/ RetryPending(r) \/ RetryProgress(r)
  <2>1. reqPc[r] # "idle"
    BY <1>3 DEF CreateFail, DeleteCancel, DeleteRow, RetryPending, RetryProgress, Step
  <2>2. /\ UpdateJobError(jobs[i]).status = "completed" => jobs[i].status = "completed"
        /\ UpdateJobStatus(jobs[i], "cancelled").status = "completed" => jobs[i].status = "completed"
        /\ UpdateJobStatus(jobs[i], "pending").status = "completed" => jobs[i].status = "completed"
        /\ UpdateJobProgress(jobs[i], 0).status = "completed" => jobs[i].status = "completed"
        /\ DeleteJob(jobs[i]).status = "completed" => jobs[i].status = "completed"
    BY <1>0, <2>1, StatementsAndStatus DEF JobStatus, Settled, Active, Progress
  <2> QED
    BY <1>0, <1>3, <2>1, <2>2, WriteNotCompleted
    DEF CreateFail, DeleteCancel, DeleteRow, RetryPending, RetryProgress
<1> QED
  BY <1>1, <1>2, <1>3 DEF RequestNext, CreateEnqueue, AutoEnqueue, RetryEnqueue,
     Enqueue, DeleteRead, PurgeOutput, RetryRead

LEMMA RequestKeepsOutput ==
  ASSUME TypeOK, Wiring, OutputInv, Next, NEW r \in Requests, RequestNext(r)
  PROVE  OutputInv'
<1> DEFINE i == reqJob[r]
<1>0. /\ \A j \in Jobs : mishap[j] \subseteq mishap'[j]
      /\ reqPc[r] # "idle" => i \in Jobs /\ jobs[i] \in Row
  BY StrandedStays DEF Wiring, TypeOK
<1>1. UNCHANGED work /\ UNCHANGED <<pc, runTask>>
  BY DEF RequestNext, Create, CreateEnqueue, AutoEnqueue, RetryEnqueue, Enqueue,
         CreateFail, DeleteRead, DeleteCancel, PurgeOutput, DeleteRow, RetryRead, RetryPending,
         RetryProgress, files, runVars
<1>2. \A j \in Jobs : jobs'[j].status = "completed" => jobs[j].status = "completed"
  BY RequestCompletesNothing
<1>3. \A j \in Jobs : stored'[j] = stored[j] \/ "purged" \in mishap'[j]
  <2>1. CASE PurgeOutput(r)
    BY <1>0, <2>1 DEF PurgeOutput, Note, Step, TypeOK
  <2>2. CASE ~PurgeOutput(r)
    BY <2>2 DEF RequestNext, Create, CreateEnqueue, AutoEnqueue, RetryEnqueue, Enqueue,
         CreateFail, DeleteRead, DeleteCancel, DeleteRow, RetryRead, RetryPending,
         RetryProgress, files
  <2> QED BY <2>1, <2>2
<1>4. \A h \in Runs : InFlight(h)' =>
        InFlight(h) /\ pc'[h] = pc[h] /\ JobOf(h)' = JobOf(h) /\ JobOf(h) \in Jobs
  <2> SUFFICES ASSUME NEW h \in Runs, InFlight(h)'
               PROVE InFlight(h) /\ pc'[h] = pc[h] /\ JobOf(h)' = JobOf(h) /\ JobOf(h) \in Jobs
    OBVIOUS
  <2>1. InFlight(h) /\ pc'[h] = pc[h]
    BY <1>1 DEF InFlight
  <2>2. taskState[runTask[h]] # "free" /\ runTask[h] \in Tasks /\ JobOf(h) \in Jobs
    BY <2>1, RunHasJob DEF Wiring
  <2> QED BY <1>1, <2>1, <2>2, StrandedStays DEF JobOf
<1> QED BY <1>0, <1>1, <1>2, <1>3, <1>4, OutputFrame

LEMMA HandlerKeepsOutput ==
  ASSUME TypeOK, Wiring, OutputInv, Next, NEW h \in Runs, HandleTranscode(h)
  PROVE  OutputInv'
<1> DEFINE i == JobOf(h)
           d == Dir(h)
<1> USE DEF FilesOf
<1>1. InFlight(h)
  BY DEF HandleTranscode, RunRead, RunMkdir, RunSetDownloading, RunDownload,
         RunSetTranscoding, RunThumbnail, RunTranscode, RunEncoded, RunSetUploading,
         RunUpload, RunUploaded, RunSetCompleted, RunSetFull, RunFail, RunNotify,
         RunReturn, RunSetStatus, Goto, InFlight
<1>2. i \in Jobs /\ jobs[i] \in Row /\ d \in Nodes \X Jobs /\ d[2] = i
  BY <1>1, RunHasJob, RunHasPlace DEF TypeOK, Dir
<1>3. UNCHANGED <<runTask, taskJob>>
  BY DEF HandleTranscode, RunRead, RunMkdir, RunSetDownloading, RunDownload,
         RunSetTranscoding, RunThumbnail, RunTranscode, RunEncoded, RunSetUploading,
         RunUpload, RunUploaded, RunSetCompleted, RunSetFull, RunFail, RunNotify,
         RunReturn, RunSetStatus, Goto, RetryOrArchive, Done, queueVars
<1>4. JobOf(h)' = i /\ Dir(h)' = d
  BY <1>3 DEF JobOf, Dir
<1>5. \A j \in Jobs : mishap[j] \subseteq mishap'[j]
  BY StrandedStays
<1>6. \A g \in Runs \ {h} : pc'[g] = pc[g]
  BY DEF HandleTranscode, RunRead, RunMkdir, RunSetDownloading, RunDownload,
         RunSetTranscoding, RunThumbnail, RunTranscode, RunEncoded, RunSetUploading,
         RunUpload, RunUploaded, RunSetCompleted, RunSetFull, RunFail, RunNotify,
         RunReturn, RunSetStatus, Goto, TypeOK
<1>7. /\ \A j \in Jobs \ {i} : jobs'[j] = jobs[j] /\ stored'[j] = stored[j]
      /\ \A e \in Nodes \X (Jobs \ {i}) : work'[e] = work[e]
  <2>1. \A j \in Jobs \ {i} : jobs'[j] = jobs[j] /\ stored'[j] = stored[j]
    BY <1>2
    DEF HandleTranscode, RunRead, RunMkdir, RunSetDownloading, RunDownload,
        RunSetTranscoding, RunThumbnail, RunTranscode, RunEncoded, RunSetUploading,
        RunUpload, RunUploaded, RunSetCompleted, RunSetFull, RunFail, RunNotify,
        RunReturn, RunSetStatus, Write, files, TypeOK
  <2>2. \A e \in Nodes \X Jobs : e # d => work'[e] = work[e]
    BY <1>2
    DEF HandleTranscode, RunRead, RunMkdir, RunSetDownloading, RunDownload,
        RunSetTranscoding, RunThumbnail, RunTranscode, RunEncoded, RunSetUploading,
        RunUpload, RunUploaded, RunSetCompleted, RunSetFull, RunFail, RunNotify,
        RunReturn, RunSetStatus, files, TypeOK
  <2>3. \A e \in Nodes \X (Jobs \ {i}) : e \in Nodes \X Jobs /\ e # d
    BY <1>2
  <2> QED BY <2>1, <2>2, <2>3
<1>8. jobs[i].status = "completed" =>
        \/ stored[i] = "full"
        \/ "purged" \in mishap[i]
        \/ "overlap" \in mishap[i]
  BY <1>2 DEF OutputInv, CompletedHasOutput
<1> SUFFICES ASSUME "overlap" \notin mishap[i], FilesOf(h)
             PROVE  /\ pc'[h] # "idle" => FilesOf(h)'
                    /\ jobs'[i].status = "completed" =>
                         stored'[i] = "full" \/ "purged" \in mishap'[i]
  BY <1>1, <1>2, <1>3, <1>5, <1>6, <1>7, OutputStep
<1> HIDE DEF i, d
<1>9. CASE RunRead(h) \/ RunNotify(h) \/ RunReturn(h)
  <2>1. UNCHANGED <<jobs, stored>> /\ pc'[h] \in {"idle", "cleanup", "mkdir"}
    BY <1>9 DEF RunRead, RunNotify, RunReturn, Goto, TypeOK, files
  <2> QED BY <1>5, <1>2, <1>8, <2>1
<1>10. CASE RunMkdir(h)
  <2>1. UNCHANGED <<jobs, stored>> /\ pc'[h] \in {"setDownloading", "fail"}
    BY <1>10 DEF RunMkdir, Goto, TypeOK
  <2>2. pc'[h] = "setDownloading" => work'[d] # "absent"
    BY <1>2, <1>10 DEF RunMkdir, Goto, TypeOK, i, d
  <2> QED BY <1>2, <1>4, <1>5, <1>8, <2>1, <2>2
<1>11. CASE RunDownload(h)
  <2>1. UNCHANGED <<jobs, stored>> /\ pc'[h] \in {"setTranscoding", "fail"}
    BY <1>11 DEF RunDownload, Goto, TypeOK
  <2>2. pc'[h] = "setTranscoding" => work'[d] \in {"input", "partial", "output"}
    BY <1>2, <1>11 DEF RunDownload, Goto, TypeOK, DirState, i, d
  <2> QED BY <1>2, <1>4, <1>5, <1>8, <2>1, <2>2
<1>12. CASE RunThumbnail(h)
  <2>1. UNCHANGED jobs /\ pc[h] = "thumbnail" /\ pc'[h] \in {"transcode", "fail"}
    BY <1>12 DEF RunThumbnail, Goto, TypeOK
  <2>2. stored[i] = "full" => stored'[i] = "full"
    BY <1>2, <1>12 DEF RunThumbnail, Goto, TypeOK, i, d
  <2>3. work'[d] \in {"input", "partial", "output"}
    <3>1. work[d] \in {"input", "partial", "output"}
      BY <2>1 DEF d
    <3> QED BY <1>2, <1>12, <3>1 DEF RunThumbnail, TypeOK, d
  <2> QED BY <1>2, <1>4, <1>5, <1>8, <2>1, <2>2, <2>3
<1>13. CASE RunTranscode(h)
  <2>1. UNCHANGED <<jobs, stored>> /\ pc[h] = "transcode" /\ pc'[h] \in {"encoding", "fail"}
    BY <1>13 DEF RunTranscode, Goto, TypeOK
  <2>2. pc'[h] = "encoding" => work'[d] = "partial"
    BY <1>2, <1>13, <2>1 DEF RunTranscode, Goto, TypeOK, i, d
  <2> QED BY <1>2, <1>4, <1>5, <1>8, <2>1, <2>2
<1>14. CASE RunEncoded(h)
  <2>1. UNCHANGED <<jobs, stored>> /\ pc[h] = "encoding" /\ pc'[h] \in {"setUploading", "fail"}
    BY <1>14 DEF RunEncoded, Goto, TypeOK
  <2>2. pc'[h] = "setUploading" => work'[d] = "output"
    BY <1>2, <1>14, <2>1 DEF RunEncoded, Goto, TypeOK, i, d
  <2> QED BY <1>2, <1>4, <1>5, <1>8, <2>1, <2>2
<1>15. CASE RunUpload(h)
  <2>1. UNCHANGED <<jobs, work>> /\ pc[h] = "upload" /\ pc'[h] \in {"uploading", "fail"}
    BY <1>15 DEF RunUpload, Goto, TypeOK
  <2>2. stored[i] = "full" => stored'[i] = "full"
    BY <1>2, <1>15 DEF RunUpload, Goto, TypeOK, i, d
  <2>3. work'[d] = "output"
    BY <2>1 DEF i, d
  <2> QED BY <1>2, <1>4, <1>5, <1>8, <2>1, <2>2, <2>3
<1>16. CASE RunUploaded(h)
  <2>1. UNCHANGED <<jobs, work>> /\ pc[h] = "uploading" /\ pc'[h] \in {"setCompleted", "fail"}
    BY <1>16 DEF RunUploaded, Goto, TypeOK
  <2>2. work[d] = "output"
    BY <2>1 DEF i, d
  <2>3. /\ pc'[h] = "setCompleted" => stored'[i] = "full"
        /\ stored[i] = "full" => stored'[i] = "full"
    BY <1>2, <1>16, <2>2 DEF RunUploaded, Goto, TypeOK, i, d
  <2> QED BY <1>2, <1>4, <1>5, <1>8, <2>1, <2>3
<1>17. CASE RunSetCompleted(h)
  <2>1. UNCHANGED stored /\ pc[h] = "setCompleted" /\ pc'[h] = "setFull"
    BY <1>17 DEF RunSetCompleted, RunSetStatus, Goto, files, TypeOK
  <2>2. stored[i] = "full" \/ "purged" \in mishap[i]
    BY <2>1 DEF i, d
  <2> QED BY <1>2, <1>5, <2>1, <2>2
<1>18. ASSUME NEW row, NEW loss, Write(i, row, loss), UNCHANGED stored,
              row.status = "completed" => jobs[i].status = "completed"
       PROVE  jobs'[i].status = "completed" => stored'[i] = "full" \/ "purged" \in mishap'[i]
  BY <1>2, <1>5, <1>8, <1>18, WriteNotCompleted
<1>19. CASE RunFail(h)
  <2>1. UNCHANGED stored /\ pc'[h] = "notifyFailed" /\ Write(i, UpdateJobError(jobs[i]), {"lostWrite"})
    BY <1>19 DEF RunFail, Goto, files, TypeOK, i, d
  <2> QED BY <1>2, <1>18, <2>1, StatementsAndStatus
<1>20. CASE RunSetFull(h)
  <2>1. UNCHANGED stored /\ pc'[h] = "notifyCompleted" /\ Write(i, UpdateJobProgress(jobs[i], 100), {"lostFull"})
    BY <1>20 DEF RunSetFull, Goto, files, TypeOK, i, d
  <2> QED BY <1>2, <1>18, <2>1, StatementsAndStatus DEF Progress
<1>21. CASE RunSetDownloading(h) \/ RunSetTranscoding(h) \/ RunSetUploading(h)
  <2>1. PICK s \in Running : Write(i, UpdateJobStatus(jobs[i], s), {})
    BY <1>21 DEF RunSetDownloading, RunSetTranscoding, RunSetUploading, RunSetStatus, Running, i
  <2>2. UpdateJobStatus(jobs[i], s).status = "completed" => jobs[i].status = "completed"
    BY <1>2, StatementsAndStatus DEF JobStatus, Active, Running
  <2>3. UNCHANGED <<stored, work>>
    BY <1>21 DEF RunSetDownloading, RunSetTranscoding, RunSetUploading, RunSetStatus, files
  <2>4. \/ pc[h] = "setDownloading" /\ pc'[h] = "download"
        \/ pc[h] = "setTranscoding" /\ pc'[h] = "thumbnail"
        \/ pc[h] = "setUploading" /\ pc'[h] = "upload"
    BY <1>21 DEF RunSetDownloading, RunSetTranscoding, RunSetUploading, RunSetStatus, Goto, TypeOK
  <2>5. FilesOf(h)'
    BY <1>4, <2>3, <2>4 DEF i, d
  <2> QED BY <1>18, <2>1, <2>2, <2>3, <2>5
<1> QED
  BY <1>9, <1>10, <1>11, <1>12, <1>13, <1>14, <1>15, <1>16, <1>17, <1>19, <1>20, <1>21
  DEF HandleTranscode

LEMMA EnvironmentKeepsOutput ==
  ASSUME TypeOK, Wiring, OutputInv, Next,
         \/ \E h \in Runs : \/ Dispatch(h) \/ ReportProgress(h) \/ ReadingEnds(h)
                            \/ Deadline(h)
         \/ \E n \in Nodes : Shutdown(n) \/ ProcessEnds(n)
         \/ \E t \in Tasks : Recover(t)
  PROVE  OutputInv'
<1>0. /\ \A j \in Jobs : mishap[j] \subseteq mishap'[j]
      /\ \A h \in Runs : InFlight(h) => runTask[h] \in Tasks /\ JobOf(h) \in Jobs
  BY StrandedStays, RunHasJob
<1>1. ASSUME NEW h \in Runs, Dispatch(h) PROVE OutputInv'
  <2>1. PICK t \in Tasks :
          /\ Goto(h, "idle", "read")
          /\ Dequeue(t)
          /\ runTask' = [runTask EXCEPT ![h] = t]
          /\ Note(taskJob[t], IF \E g \in Runs : InFlight(g) /\ JobOf(g) = taskJob[t]
                              THEN {"overlap"} ELSE {})
    BY <1>1 DEF Dispatch
  <2>2. UNCHANGED <<jobs, stored, work, taskJob>>
    BY <1>1 DEF Dispatch, Dequeue, files
  <2>3. PICK i \in Jobs : taskJob[t] = i
    BY <2>1 DEF Dequeue, Wiring
  <2>4. \A g \in Runs \ {h} : /\ InFlight(g)' <=> InFlight(g)
                              /\ pc'[g] = pc[g]
                              /\ JobOf(g)' = JobOf(g)
    BY <2>1, <2>2 DEF Goto, InFlight, JobOf, TypeOK
  <2>5. pc'[h] = "read" /\ JobOf(h)' = i
    BY <2>1, <2>2, <2>3 DEF Goto, JobOf, TypeOK
  <2>6. ASSUME NEW g \in Runs \ {h}, InFlight(g), JobOf(g) = i
        PROVE  "overlap" \in mishap'[i]
    BY <2>1, <2>3, <2>6 DEF Note, TypeOK
  <2>7. Alone'
    <3> SUFFICES ASSUME NEW f \in Runs, NEW g \in Runs, InFlight(f)', InFlight(g)',
                        JobOf(f)' = JobOf(g)', f # g
                 PROVE  "overlap" \in mishap'[JobOf(g)']
      BY DEF Alone
    <3>1. CASE f # h /\ g # h
      BY <1>0, <2>4, <3>1 DEF OutputInv, Alone
    <3>2. CASE f = h \/ g = h
      BY <2>4, <2>5, <2>6, <3>2
    <3> QED BY <3>1, <3>2
  <2>8. HandlersHaveFiles'
    <3> SUFFICES ASSUME NEW g \in Runs, InFlight(g)'
                 PROVE  FilesOf(g)' \/ "overlap" \in mishap'[JobOf(g)']
      BY DEF HandlersHaveFiles
    <3>1. CASE g = h
      BY <2>5, <3>1 DEF FilesOf
    <3>2. CASE g # h
      <4>1. PICK k \in Jobs : JobOf(g) = k /\ JobOf(g)' = k
        BY <1>0, <2>4, <3>2
      <4>2. pc'[g] = pc[g] /\ (FilesOf(g) \/ "overlap" \in mishap[k])
        BY <2>4, <3>2, <4>1 DEF OutputInv, HandlersHaveFiles
      <4> QED BY <1>0, <2>2, <4>1, <4>2 DEF FilesOf, Dir
    <3> QED BY <3>1, <3>2
  <2>9. CompletedHasOutput'
    BY <1>0, <2>2 DEF OutputInv, CompletedHasOutput
  <2> QED BY <2>7, <2>8, <2>9 DEF OutputInv
<1>2. ASSUME UNCHANGED <<stored, work, runTask, taskJob>>,
             \A h \in Runs : pc'[h] = pc[h] \/ pc'[h] = "idle",
             \A j \in Jobs : jobs'[j].status = "completed" => jobs[j].status = "completed"
      PROVE  OutputInv'
  <2>1. \A h \in Runs : InFlight(h)' =>
          InFlight(h) /\ pc'[h] = pc[h] /\ JobOf(h)' = JobOf(h) /\ JobOf(h) \in Jobs
    BY <1>0, <1>2 DEF InFlight, JobOf
  <2> QED BY <1>0, <1>2, <2>1, OutputFrame
<1>3. ASSUME NEW h \in Runs, ReportProgress(h) PROVE OutputInv'
  <2>1. JobOf(h) \in Jobs /\ jobs[JobOf(h)] \in Row
    BY <1>3, RunHasJob DEF ReportProgress, TypeOK
  <2>2. PICK p \in Progress :
          jobs' = [jobs EXCEPT ![JobOf(h)] = UpdateJobProgress(jobs[JobOf(h)], p)]
    BY <1>3 DEF ReportProgress
  <2>3. \A j \in Jobs : jobs'[j].status = "completed" => jobs[j].status = "completed"
    BY <2>1, <2>2, StatementsAndStatus DEF TypeOK
  <2> QED BY <1>2, <1>3, <2>3 DEF ReportProgress, files, runVars, queueVars
<1>4. ASSUME NEW h \in Runs, ReadingEnds(h) \/ Deadline(h) PROVE OutputInv'
  BY <1>2, <1>4
  DEF ReadingEnds, Deadline, RetryOrArchive, files, queueVars, TypeOK
<1>6. ASSUME NEW n \in Nodes, Shutdown(n) PROVE OutputInv'
  BY <1>2, <1>6 DEF Shutdown, Requeue, files
<1>7. ASSUME NEW n \in Nodes, ProcessEnds(n) PROVE OutputInv'
  BY <1>2, <1>7, ProcessLeaves DEF queueVars
<1>5. ASSUME NEW t \in Tasks, Recover(t) PROVE OutputInv'
  BY <1>2, <1>5 DEF Recover, RetryOrArchive, files, runVars
<1> QED BY <1>1, <1>3, <1>4, <1>5, <1>6, <1>7

LEMMA OutputHolds == Spec => []OutputInv
<1>1. Init => OutputInv
  BY DEF Init, OutputInv, Alone, HandlersHaveFiles, CompletedHasOutput, InFlight, NoRow
<1>2. TypeOK /\ Wiring /\ OutputInv /\ [Next]_vars => OutputInv'
  <2> SUFFICES ASSUME TypeOK, Wiring, OutputInv, [Next]_vars PROVE OutputInv'
    OBVIOUS
  <2>1. CASE Next
    BY <2>1, RequestKeepsOutput, HandlerKeepsOutput, EnvironmentKeepsOutput DEF Next
  <2>2. CASE UNCHANGED vars
    BY <2>2 DEF vars, files, runVars, queueVars, history, OutputInv, Alone, HandlersHaveFiles,
                FilesOf, CompletedHasOutput, InFlight, JobOf, Dir
  <2> QED BY <2>1, <2>2
<1> QED
  BY <1>1, <1>2, TypeCorrect, PTL DEF Spec

(* In every reachable state a job that says completed has all of its       *)
(* output, unless its handlers overlapped or its upload was deleted.       *)
THEOREM CompletedIsThere == Spec => []CompletedHasOutput
<1>1. OutputInv => CompletedHasOutput
  BY DEF OutputInv
<1> QED BY <1>1, OutputHolds, PTL

-----------------------------------------------------------------------------
(* The working directories.                                                *)

WithRemoval == {"setDownloading", "download", "setTranscoding", "thumbnail", "transcode",
                "encoding", "setUploading", "upload", "uploading", "setCompleted"}

(* A handler defers the removal as soon as it has its directory, and while *)
(* it works it never is without.                                           *)
RemovalDeferred ==
  \A h \in Runs :
    /\ pc[h] \in WithRemoval => hasDir[h]
    /\ hasDir[h] => pc[h] \notin {"idle", "read", "mkdir"}

Removable(d) == d \in deserted \/ \E h \in Runs : hasDir[h] /\ Dir(h) = d

NoneIsLeft == \A d \in Nodes \X Jobs : work[d] # "absent" => Removable(d)

TempInv == RemovalDeferred /\ NoneIsLeft

(* Handlers that go on keep their directories.                             *)
LEMMA PlacesStay ==
  ASSUME TypeOK, Wiring, Next, NEW h \in Runs, InFlight(h), runTask'[h] = runTask[h]
  PROVE  Dir(h)' = Dir(h)
BY StrandedStays DEF Wiring, Dir, JobOf

LEMMA RequestKeepsTemp ==
  ASSUME TypeOK, Wiring, TempInv, Next, NEW r \in Requests, RequestNext(r)
  PROVE  TempInv'
<1>1. UNCHANGED <<work, deserted, pc, runTask, hasDir>>
  BY DEF RequestNext, Create, CreateEnqueue, AutoEnqueue, RetryEnqueue, Enqueue,
         CreateFail, DeleteRead, DeleteCancel, PurgeOutput, DeleteRow, RetryRead, RetryPending,
         RetryProgress, files, runVars
<1>2. \A h \in Runs : hasDir[h] => Dir(h)' = Dir(h)
  BY <1>1, PlacesStay DEF TempInv, RemovalDeferred, InFlight
<1> QED BY <1>1, <1>2 DEF TempInv, RemovalDeferred, NoneIsLeft, Removable

LEMMA HandlerKeepsTemp ==
  ASSUME TypeOK, Wiring, TempInv, Next, NEW h \in Runs, HandleTranscode(h)
  PROVE  TempInv'
<1> USE DEF WithRemoval
<1>1. InFlight(h) /\ UNCHANGED runTask
  BY DEF HandleTranscode, RunRead, RunMkdir, RunSetDownloading, RunDownload,
         RunSetTranscoding, RunThumbnail, RunTranscode, RunEncoded, RunSetUploading,
         RunUpload, RunUploaded, RunSetCompleted, RunSetFull, RunFail, RunNotify,
         RunReturn, RunSetStatus, Goto, InFlight
<1>2. PICK d \in Nodes \X Jobs : d = Dir(h)
  BY <1>1, RunHasPlace
<1>3. Dir(h)' = d /\ \A g \in Runs : hasDir[g] => Dir(g)' = Dir(g)
  BY <1>1, <1>2, PlacesStay DEF TempInv, RemovalDeferred, InFlight
<1>4. \A g \in Runs \ {h} : pc'[g] = pc[g] /\ hasDir'[g] = hasDir[g]
  BY DEF HandleTranscode, RunRead, RunMkdir, RunSetDownloading, RunDownload,
         RunSetTranscoding, RunThumbnail, RunTranscode, RunEncoded, RunSetUploading,
         RunUpload, RunUploaded, RunSetCompleted, RunSetFull, RunFail, RunNotify,
         RunReturn, RunSetStatus, Goto, TypeOK
<1>5. \A e \in Nodes \X Jobs : e # d => work'[e] = work[e] /\ (e \in deserted => e \in deserted')
  BY <1>2 DEF HandleTranscode, RunRead, RunMkdir, RunSetDownloading, RunDownload,
         RunSetTranscoding, RunThumbnail, RunTranscode, RunEncoded, RunSetUploading,
         RunUpload, RunUploaded, RunSetCompleted, RunSetFull, RunFail, RunNotify,
         RunReturn, RunSetStatus, files, TypeOK
<1>6. ASSUME NEW e \in Nodes \X Jobs, e # d, work'[e] # "absent" PROVE Removable(e)'
  <2>1. Removable(e)
    BY <1>5, <1>6 DEF TempInv, NoneIsLeft
  <2>2. ASSUME NEW g \in Runs, hasDir[g], Dir(g) = e PROVE hasDir'[g] /\ Dir(g)' = e
    BY <1>2, <1>3, <1>4, <1>6, <2>2
  <2> QED BY <1>5, <1>6, <2>1, <2>2 DEF Removable
(* What has to be shown of h and its directory in every case.              *)
<1>7. ASSUME \/ hasDir'[h]
             \/ work'[d] = "absent"
             \/ /\ ~hasDir[h]
                /\ UNCHANGED deserted
                /\ work'[d] # "absent" => work[d] # "absent",
             pc'[h] \in WithRemoval => hasDir'[h],
             hasDir'[h] => pc'[h] \notin {"idle", "read", "mkdir"}
      PROVE  TempInv'
  <2>1. RemovalDeferred'
    BY <1>4, <1>7 DEF TempInv, RemovalDeferred
  <2>2. ASSUME work'[d] # "absent" PROVE Removable(d)'
    <3>1. CASE hasDir'[h]
      BY <1>3, <3>1 DEF Removable
    <3>2. CASE ~hasDir'[h]
      <4>1. Removable(d) /\ ~hasDir[h] /\ UNCHANGED deserted
        BY <1>7, <2>2, <3>2 DEF TempInv, NoneIsLeft
      <4>2. ASSUME NEW g \in Runs, hasDir[g], Dir(g) = d PROVE hasDir'[g] /\ Dir(g)' = d
        BY <1>3, <1>4, <4>1, <4>2
      <4> QED BY <4>1, <4>2 DEF Removable
    <3> QED BY <3>1, <3>2
  <2>3. NoneIsLeft'
    BY <1>6, <2>2 DEF NoneIsLeft
  <2> QED BY <2>1, <2>3 DEF TempInv
<1>8. CASE RunRead(h)
  <2>1. ~hasDir[h]
    BY <1>8 DEF RunRead, Goto, TempInv, RemovalDeferred
  <2>2. UNCHANGED <<work, deserted, hasDir>> /\ pc'[h] \in {"idle", "cleanup", "mkdir"}
    BY <1>8 DEF RunRead, Goto, TypeOK, files
  <2> QED BY <1>7, <2>1, <2>2
<1>9. CASE RunMkdir(h)
  <2>1. CASE hasDir'[h] /\ pc'[h] = "setDownloading"
    BY <1>7, <2>1
  <2>2. CASE UNCHANGED <<work, deserted, hasDir>> /\ pc[h] = "mkdir" /\ pc'[h] = "fail"
    BY <1>7, <2>2 DEF TempInv, RemovalDeferred
  <2> QED BY <1>9, <2>1, <2>2 DEF RunMkdir, Goto, TypeOK
<1>10. CASE RunReturn(h)
  <2>1. pc'[h] = "idle" /\ ~hasDir'[h] /\ UNCHANGED deserted
    BY <1>10 DEF RunReturn, Goto, TypeOK
  <2>2. CASE hasDir[h]
    <3>1. work'[d] = "absent"
      BY <1>2, <1>10, <2>2 DEF RunReturn, TypeOK
    <3> QED BY <1>7, <2>1, <3>1
  <2>3. CASE ~hasDir[h]
    <3>1. work'[d] = work[d]
      BY <1>2, <1>10, <2>3 DEF RunReturn, TypeOK
    <3> QED BY <1>7, <2>1, <2>3, <3>1
  <2> QED BY <2>2, <2>3
<1>11. CASE ~RunRead(h) /\ ~RunMkdir(h) /\ ~RunReturn(h)
  <2>1. /\ UNCHANGED <<hasDir, deserted>>
        /\ pc'[h] \notin {"idle", "read", "mkdir"}
        /\ pc'[h] \in WithRemoval => pc[h] \in WithRemoval
    BY <1>11 DEF HandleTranscode, RunSetDownloading, RunDownload,
         RunSetTranscoding, RunThumbnail, RunTranscode, RunEncoded, RunSetUploading,
         RunUpload, RunUploaded, RunSetCompleted, RunSetFull, RunFail, RunNotify,
         RunSetStatus, Goto, TypeOK, files
  <2>2. pc[h] \notin WithRemoval => UNCHANGED work
    BY <1>11 DEF HandleTranscode, RunSetDownloading, RunDownload,
         RunSetTranscoding, RunThumbnail, RunTranscode, RunEncoded, RunSetUploading,
         RunUpload, RunUploaded, RunSetCompleted, RunSetFull, RunFail, RunNotify,
         RunSetStatus, Goto, files
  <2>3. pc[h] \in WithRemoval => hasDir[h]
    BY DEF TempInv, RemovalDeferred
  <2> QED BY <1>7, <2>1, <2>2, <2>3
<1> QED BY <1>8, <1>9, <1>10, <1>11

LEMMA EnvironmentKeepsTemp ==
  ASSUME TypeOK, Wiring, TempInv, Next,
         \/ \E h \in Runs : \/ Dispatch(h) \/ ReportProgress(h) \/ ReadingEnds(h)
                            \/ Deadline(h)
         \/ \E n \in Nodes : Shutdown(n) \/ ProcessEnds(n)
         \/ \E t \in Tasks : Recover(t)
  PROVE  TempInv'
<1> USE DEF WithRemoval
<1>1. UNCHANGED work
  BY DEF Dispatch, ReportProgress, ReadingEnds, Deadline, Shutdown, ProcessEnds, Recover, files
<1>2. ASSUME NEW n \in Nodes, ProcessEnds(n) PROVE TempInv'
  <2>1. RemovalDeferred'
    BY <1>2, ProcessLeaves DEF TempInv, RemovalDeferred
  <2>2. ASSUME NEW d \in Nodes \X Jobs, Removable(d) PROVE Removable(d)'
    <3>1. ASSUME NEW h \in Runs, hasDir[h], Dir(h) = d, Host[h] = n PROVE d \in deserted'
      <4>1. InFlight(h)
        BY <3>1 DEF TempInv, RemovalDeferred, InFlight
      <4> QED BY <1>2, <3>1, <4>1 DEF ProcessEnds
    <3>2. ASSUME NEW h \in Runs, hasDir[h], Dir(h) = d, Host[h] # n
          PROVE  hasDir'[h] /\ Dir(h)' = d
      BY <1>2, <3>2, ProcessLeaves DEF Dir
    <3>3. deserted \subseteq deserted'
      BY <1>2 DEF ProcessEnds
    <3> QED BY <2>2, <3>1, <3>2, <3>3 DEF Removable
  <2> QED BY <1>1, <2>1, <2>2 DEF TempInv, NoneIsLeft
<1>3. ASSUME ~\E n \in Nodes : ProcessEnds(n) PROVE TempInv'
  <2>1. UNCHANGED <<deserted, hasDir>>
    BY <1>3 DEF Dispatch, ReportProgress, ReadingEnds, Deadline, Shutdown, Recover, files, runVars
  <2>2. \A h \in Runs : hasDir[h] => pc'[h] = pc[h] /\ runTask'[h] = runTask[h]
    BY <1>3 DEF TempInv, RemovalDeferred, Dispatch, ReportProgress, ReadingEnds, Deadline,
         Shutdown, Recover, Goto, runVars, TypeOK
  <2>3. \A h \in Runs : pc'[h] = pc[h] \/ pc'[h] = "read"
    BY <1>3 DEF Dispatch, ReportProgress, ReadingEnds, Deadline, Shutdown, Recover, Goto,
         runVars, TypeOK
  <2>4. RemovalDeferred'
    BY <2>1, <2>2, <2>3 DEF TempInv, RemovalDeferred
  <2>5. \A h \in Runs : hasDir[h] => Dir(h)' = Dir(h)
    BY <2>2, PlacesStay DEF TempInv, RemovalDeferred, InFlight
  <2> QED BY <1>1, <2>1, <2>4, <2>5 DEF TempInv, NoneIsLeft, Removable
<1> QED BY <1>2, <1>3

(* Working directories never pile up but for those of killed handlers that *)
(* no later handler of the job has found on the same node: every other     *)
(* directory has a handler under way that removes it.                      *)
THEOREM DirectoriesDoNotPileUp == Spec => []DirectoriesAreRemoved
<1>1. Init => TempInv
  BY DEF Init, TempInv, RemovalDeferred, WithRemoval, NoneIsLeft
<1>2. TypeOK /\ Wiring /\ TempInv /\ [Next]_vars => TempInv'
  <2> SUFFICES ASSUME TypeOK, Wiring, TempInv, [Next]_vars PROVE TempInv'
    OBVIOUS
  <2>1. CASE Next
    BY <2>1, RequestKeepsTemp, HandlerKeepsTemp, EnvironmentKeepsTemp DEF Next
  <2>2. CASE UNCHANGED vars
    BY <2>2 DEF vars, files, runVars, queueVars, TempInv, RemovalDeferred, NoneIsLeft,
                Removable, Dir, JobOf
  <2> QED BY <2>1, <2>2
<1>3. TempInv => DirectoriesAreRemoved
  BY DEF TempInv, RemovalDeferred, NoneIsLeft, Removable, DirectoriesAreRemoved, InFlight
<1> QED
  BY <1>1, <1>2, <1>3, TypeCorrect, PTL DEF Spec

-----------------------------------------------------------------------------
(* One step of the contract.                                               *)

Strike == faults < MaxFaults /\ faults' = faults + 1

(* How a step may change the phase of the one job it is about.             *)
Allowed(from, to) ==
  \/ from = to /\ (Strike \/ UNCHANGED faults)
  \/ from = "unborn" /\ to = "owed" /\ UNCHANGED faults
  \/ from \in {"owed", "lost"} /\ to = "settled" /\ UNCHANGED faults
  \/ from \in {"settled", "lost"} /\ to = "owed" /\ (Strike \/ UNCHANGED faults)
  \/ from \in {"owed", "settled", "lost"} /\ to = "gone" /\ UNCHANGED faults
  \/ from = "owed" /\ to = "lost" /\ Strike

(* No more than Reach: each has a place of its own.                        *)
LEMMA FewHavePlaces ==
  ASSUME NEW S, IsFiniteSet(S), Cardinality(S) <= Reach
  PROVE  \E place \in [S -> 1 .. Reach] : \A i, j \in S : place[i] = place[j] => i = j
<1>1. Cardinality(S) \in Nat /\ ExistsBijection(1 .. Cardinality(S), S)
  BY FS_CardinalityType
<1>2. PICK f \in [1 .. Cardinality(S) -> S] : \A s \in S : \E k \in 1 .. Cardinality(S) : f[k] = s
  BY <1>1 DEF ExistsBijection, Bijection, Surjection
<1> DEFINE place == [s \in S |-> CHOOSE k \in 1 .. Cardinality(S) : f[k] = s]
<1>3. \A s \in S : place[s] \in 1 .. Cardinality(S) /\ f[place[s]] = s
  BY <1>2
<1> HIDE DEF place
<1>4. \A s \in S : place[s] \in 1 .. Reach
  BY <1>1, <1>3, ReachAssumption
<1>5. place \in [S -> 1 .. Reach]
  BY <1>4 DEF place
<1>6. \A i, j \in S : place[i] = place[j] => i = j
  BY <1>3
<1> QED BY <1>5, <1>6

LEMMA PlacesAreFew ==
  ASSUME NEW S, NEW place \in [S -> 1 .. Reach],
         \A i, j \in S : place[i] = place[j] => i = j
  PROVE  IsFiniteSet(S) /\ Cardinality(S) <= Reach
<1>1. place \in Injection(S, 1 .. Reach)
  BY DEF Injection, IsInjective
<1>2. IsFiniteSet(1 .. Reach) /\ Cardinality(1 .. Reach) = Reach
  BY FS_Interval, ReachAssumption
<1> QED BY <1>1, <1>2, FS_Injection

(* A fault flips what is owed of the jobs it is about, or nothing.         *)
LEMMA UpsetStep ==
  ASSUME NEW S \in SUBSET Jobs, IsFiniteSet(S), Cardinality(S) <= Reach, Strike,
         \A j \in Jobs \ S : Phase(j)' = Phase(j),
         \A j \in S : \/ Phase(j)' = Phase(j)
                      \/ Phase(j) = "owed" /\ Phase(j)' = "lost"
                      \/ Phase(j) = "lost" /\ Phase(j)' = "owed"
  PROVE  Contract!Next
<1> DEFINE ph == [j \in Jobs |-> Phase(j)]
           T == {j \in S : Phase(j)' # Phase(j)}
<1>1. T \in SUBSET S
  OBVIOUS
<1>2. IsFiniteSet(T) /\ Cardinality(T) <= Cardinality(S)
  BY <1>1, FS_Subset
<1>3. Cardinality(T) \in Nat /\ Cardinality(S) \in Nat
  BY <1>2, FS_CardinalityType
<1>4. Cardinality(T) <= Reach
  BY <1>2, <1>3, ReachAssumption
<1>5. \A j \in T : ph[j] \in {"owed", "lost"}
  OBVIOUS
<1>6. ph' = [j \in Jobs |-> IF j \notin T THEN ph[j]
                           ELSE IF ph[j] = "owed" THEN "lost" ELSE "owed"]
  OBVIOUS
<1>7. T \in SUBSET Jobs
  OBVIOUS
<1> HIDE DEF T
<1>8. Contract!Few(T)
  BY <1>2, <1>4, FewHavePlaces DEF Contract!Few
<1>9. Contract!Upset(T)
  BY <1>5, <1>6, <1>8 DEF Contract!Upset, Contract!Strike, Strike
<1> QED BY <1>7, <1>9 DEF Contract!Next

LEMMA ContractStep ==
  ASSUME NEW i \in Jobs,
         \A j \in Jobs \ {i} : Phase(j)' = Phase(j),
         Allowed(Phase(i), Phase(i)')
  PROVE  [Contract!Next]_(Contract!vars)
<1> DEFINE ph == [j \in Jobs |-> Phase(j)]
<1> HIDE DEF ph
<1>1. ph[i] = Phase(i) /\ ph'[i] = Phase(i)'
  BY DEF ph
<1>2. ph' = [ph EXCEPT ![i] = Phase(i)']
  BY DEF ph
<1>3. Phase(i) = Phase(i)' => UNCHANGED ph
  BY DEF ph
<1>4. {i} \in SUBSET Jobs /\ IsFiniteSet({i}) /\ Cardinality({i}) <= Reach
  <2>1. IsFiniteSet({i}) /\ Cardinality({i}) = 1
    BY FS_Singleton
  <2>2. 1 <= Reach
    BY ReachAssumption
  <2> QED BY <2>1, <2>2
<1>5. CASE Strike /\ (Phase(i) = Phase(i)' \/ (Phase(i) = "owed" /\ Phase(i)' = "lost"))
  <2>1. \A j \in {i} : Phase(j)' = Phase(j) \/ (Phase(j) = "owed" /\ Phase(j)' = "lost")
    BY <1>5
  <2> QED BY <1>4, <1>5, <2>1, UpsetStep
<1>6. CASE Phase(i) = Phase(i)' /\ UNCHANGED faults
  BY <1>3, <1>6 DEF ph, Contract!vars
<1>7. CASE Phase(i) # Phase(i)' /\ ~(Phase(i) = "owed" /\ Phase(i)' = "lost")
  <2>1. \/ Contract!Submit(i) \/ Contract!Settle(i) \/ Contract!Reopen(i)
        \/ Contract!Remove(i)
    BY <1>1, <1>2, <1>7
    DEF Allowed, Strike, ph, Contract!Submit, Contract!Settle, Contract!Reopen,
        Contract!Remove, Contract!Move, Contract!Perhaps, Contract!Strike
  <2> QED BY <2>1 DEF Contract!Next
<1> QED BY <1>5, <1>6, <1>7 DEF Allowed

(* When a step about job j is allowed: it keeps the row's status and what  *)
(* is owed, or strikes; the row is not one that is owed anything; it opens *)
(* a job that is owed; it settles or removes the row.                      *)
LEMMA AllowedWhen ==
  ASSUME NEW j \in Jobs, jobs[j].status \in RowStatus,
         \/ /\ jobs'[j].status = jobs[j].status
            /\ Strike \/ (UNCHANGED faults /\ (jobs[j].status \in Active /\ Owed(j) => Owed(j)'))
         \/ /\ jobs[j].status \in JobStatus /\ jobs'[j].status \in Active
            /\ Owed(j)' /\ (Strike \/ UNCHANGED faults)
         \/ /\ jobs[j].status = "unborn" /\ jobs'[j].status \in Active
            /\ Owed(j)' /\ UNCHANGED faults
         \/ /\ jobs[j].status \in JobStatus /\ jobs'[j].status \in Settled \cup {"deleted"}
            /\ UNCHANGED faults
  PROVE  Allowed(Phase(j), Phase(j)')
<1> DEFINE now == Owed(j)
           next == Owed(j)'
<1>1. Phase(j) = CASE jobs[j].status = "unborn"  -> "unborn"
                   [] jobs[j].status = "deleted" -> "gone"
                   [] jobs[j].status \in Settled -> "settled"
                   [] OTHER -> IF now THEN "owed" ELSE "lost"
  BY DEF Phase
<1>2. Phase(j)' = CASE jobs'[j].status = "unborn"  -> "unborn"
                    [] jobs'[j].status = "deleted" -> "gone"
                    [] jobs'[j].status \in Settled -> "settled"
                    [] OTHER -> IF next THEN "owed" ELSE "lost"
  BY DEF Phase
<1>3. \/ /\ jobs'[j].status = jobs[j].status
         /\ Strike \/ (UNCHANGED faults /\ (jobs[j].status \in Active /\ now => next))
      \/ /\ jobs[j].status \in JobStatus /\ jobs'[j].status \in Active
         /\ next /\ (Strike \/ UNCHANGED faults)
      \/ /\ jobs[j].status = "unborn" /\ jobs'[j].status \in Active
         /\ next /\ UNCHANGED faults
      \/ /\ jobs[j].status \in JobStatus /\ jobs'[j].status \in Settled \cup {"deleted"}
         /\ UNCHANGED faults
  OBVIOUS
<1> HIDE DEF now, next
<1> QED
  BY <1>1, <1>2, <1>3 DEF Allowed, RowStatus, JobStatus, Active, Running, Settled

(* A statement on the row of job i.                                        *)
LEMMA WriteStep ==
  ASSUME TypeOK, NEW i \in Jobs, NEW row, NEW loss, Write(i, row, loss)
  PROVE  /\ \A j \in Jobs \ {i} : jobs'[j] = jobs[j]
         /\ \/ jobs'[i] = row /\ UNCHANGED faults
            \/ jobs'[i] = jobs[i] /\ Strike
BY DEF Write, Fault, Strike, TypeOK

-----------------------------------------------------------------------------
(* No step changes the phase of two jobs.                                  *)

(* A request that goes on with job i leaves the others to their drivers.   *)
LEMMA RequestSparesOthers ==
  ASSUME TypeOK, Wiring,
         NEW r \in Requests, NEW i \in Jobs,
         \A q \in Requests \ {r} : reqPc'[q] = reqPc[q] /\ reqJob'[q] = reqJob[q],
         reqPc[r] \in Submitting => reqJob[r] = i,
         reqJob'[r] = i,
         EnqueueJob(i) \/ UNCHANGED queueVars,
         UNCHANGED runVars,
         \A j \in Jobs \ {i} : jobs'[j] = jobs[j]
  PROVE  \A j \in Jobs \ {i} : Phase(j)' = Phase(j)
<1> SUFFICES ASSUME NEW j \in Jobs \ {i} PROVE Phase(j)' = Phase(j)
  OBVIOUS
<1>1. (\E q \in Requests : reqJob[q] = j /\ reqPc[q] \in Submitting)'
      <=> \E q \in Requests : reqJob[q] = j /\ reqPc[q] \in Submitting
  OBVIOUS
<1>2. UNCHANGED <<pc, runTask, attached>>
  BY DEF runVars
<1>3. \A t \in Tasks : (taskJob'[t] = j /\ WillRun(t)') <=> (taskJob[t] = j /\ WillRun(t))
  <2>1. CASE UNCHANGED queueVars
    BY <1>2, <2>1 DEF queueVars, WillRun
  <2>2. CASE EnqueueJob(i)
    <3>1. PICK u \in Tasks :
            /\ taskState[u] = "free"
            /\ taskState' = [taskState EXCEPT ![u] = "queued"]
            /\ taskJob' = [taskJob EXCEPT ![u] = i]
            /\ UNCHANGED retried
      BY <2>2 DEF EnqueueJob
    <3>2. ~WillRun(u) /\ taskJob'[u] = i
      BY <3>1 DEF WillRun, TypeOK, QueueTypeOK
    <3>3. ASSUME NEW t \in Tasks \ {u}
          PROVE taskJob'[t] = taskJob[t] /\ taskState'[t] = taskState[t] /\ retried'[t] = retried[t]
      BY <3>1 DEF TypeOK, QueueTypeOK
    <3> QED BY <1>2, <3>2, <3>3 DEF WillRun
  <2> QED BY <2>1, <2>2
<1>4. \A h \in Runs : (pc'[h] \in Working /\ JobOf(h)' = j) <=> (pc[h] \in Working /\ JobOf(h) = j)
  <2> SUFFICES ASSUME NEW h \in Runs, pc[h] \in Working PROVE JobOf(h)' = JobOf(h)
    BY <1>2
  <2>1. runTask[h] \in Tasks /\ taskState[runTask[h]] # "free"
    BY DEF Wiring, InFlight, Working
  <2> QED BY <1>2, <2>1, EnqueueTyped DEF JobOf, queueVars
<1>5. Owed(j)' <=> Owed(j)
  BY <1>1, <1>3, <1>4 DEF Owed
<1> QED BY <1>5 DEF Phase

(* So does whatever happens to handlers of a task of job i, and            *)
(* whatever the queue does with that task.                                 *)
LEMMA RunSparesOthers ==
  ASSUME TypeOK, Wiring,
         NEW t \in Tasks, NEW i, taskJob[t] = i,
         \A g \in Runs :
           \/ pc'[g] = pc[g] /\ attached'[g] = attached[g] /\ runTask'[g] = runTask[g]
           \/ runTask'[g] = t /\ (attached[g] \/ pc[g] \in Working => runTask[g] = t),
         \A u \in Tasks \ {t} : taskState'[u] = taskState[u] /\ retried'[u] = retried[u],
         UNCHANGED <<taskJob, requestVars>>,
         \A j \in Jobs \ {i} : jobs'[j] = jobs[j]
  PROVE  \A j \in Jobs \ {i} : Phase(j)' = Phase(j)
<1> SUFFICES ASSUME NEW j \in Jobs \ {i} PROVE Phase(j)' = Phase(j)
  OBVIOUS
<1>1. ASSUME NEW u \in Tasks \ {t} PROVE WillRun(u)' <=> WillRun(u)
  <2>1. \A g \in Runs : (attached'[g] /\ runTask'[g] = u) <=> (attached[g] /\ runTask[g] = u)
    OBVIOUS
  <2>2. \A g \in Runs : attached[g] /\ runTask[g] = u => pc'[g] = pc[g]
    OBVIOUS
  <2> QED BY <2>1, <2>2 DEF WillRun
<1>2. \A u \in Tasks : (taskJob'[u] = j /\ WillRun(u)') <=> (taskJob[u] = j /\ WillRun(u))
  BY <1>1
<1>3. \A g \in Runs : (pc'[g] \in Working /\ JobOf(g)' = j) <=> (pc[g] \in Working /\ JobOf(g) = j)
  BY DEF JobOf
<1>4. Owed(j)' <=> Owed(j)
  BY <1>2, <1>3 DEF Owed, requestVars
<1> QED BY <1>4 DEF Phase

(* What keeps owing a job, whatever its handler h does.                    *)
LEMMA OwedElsewhere ==
  ASSUME NEW j, Owed(j), UNCHANGED <<taskJob, requestVars>>,
         \A g \in Runs : pc[g] \in Working /\ JobOf(g) = j => pc'[g] \in Working /\ JobOf(g)' = j,
         \A u \in Tasks : taskJob[u] = j /\ WillRun(u) => WillRun(u)'
  PROVE  Owed(j)'
BY DEF Owed, requestVars

-----------------------------------------------------------------------------
(* Every step keeps the contract.                                          *)

LEMMA StepOfOneJob ==
  ASSUME TypeOK, NEW i \in Jobs,
         \A j \in Jobs \ {i} : Phase(j)' = Phase(j),
         \/ /\ jobs'[i].status = jobs[i].status
            /\ Strike \/ (UNCHANGED faults /\ (jobs[i].status \in Active /\ Owed(i) => Owed(i)'))
         \/ /\ jobs[i].status \in JobStatus /\ jobs'[i].status \in Active
            /\ Owed(i)' /\ (Strike \/ UNCHANGED faults)
         \/ /\ jobs[i].status = "unborn" /\ jobs'[i].status \in Active
            /\ Owed(i)' /\ UNCHANGED faults
         \/ /\ jobs[i].status \in JobStatus /\ jobs'[i].status \in Settled \cup {"deleted"}
            /\ UNCHANGED faults
  PROVE  [Contract!Next]_(Contract!vars)
<1>1. jobs[i].status \in RowStatus
  BY DEF TypeOK, Row
<1> QED BY <1>1, AllowedWhen, ContractStep

(* A statement of the one job a step is about: it leaves the status alone, *)
(* settles or removes the job, or opens it and leaves it owed.             *)
LEMMA StatementOfOneJob ==
  ASSUME TypeOK, NEW i \in Jobs,
         \A j \in Jobs \ {i} : Phase(j)' = Phase(j),
         NEW row, NEW loss, Write(i, row, loss),
         \/ row.status \in Settled \cup {"deleted"} /\ Exists(jobs[i])
         \/ row.status \in Active /\ Owed(i)' /\ Exists(jobs[i])
         \/ row.status = jobs[i].status /\ (Owed(i) => Owed(i)')
         \/ row.status = jobs[i].status /\ ~Exists(jobs[i])
  PROVE  [Contract!Next]_(Contract!vars)
<1>1. CASE jobs'[i] = jobs[i] /\ Strike
  BY <1>1, StepOfOneJob
<1>2. CASE jobs'[i] = row /\ UNCHANGED faults
  <2>1. /\ ~Exists(jobs[i]) => jobs[i].status \notin Active
        /\ \A s \in Settled \cup {"deleted"} : s \notin Active
    BY DEF Exists, JobStatus, Settled, Active, Running
  <2>2. CASE row.status = jobs[i].status
    BY <1>2, <2>1, <2>2, StepOfOneJob
  <2>3. CASE row.status # jobs[i].status
    BY <1>2, <2>3, StepOfOneJob DEF Exists
  <2> QED BY <2>2, <2>3
<1> QED BY <1>1, <1>2, WriteStep

LEMMA RequestKeepsContract ==
  ASSUME TypeOK, Wiring, NEW r \in Requests, RequestNext(r)
  PROVE  [Contract!Next]_(Contract!vars)
<1> USE DEF RequestPc, Submitting
<1>1. ASSUME NEW i \in Jobs, Begin(r, i, "createEnqueue") \/ Begin(r, i, "autoEnqueue"),
             jobs[i].status = "unborn", jobs' = [jobs EXCEPT ![i] = CreateJob],
             UNCHANGED <<files, runVars, queueVars, faults, history>>
      PROVE  [Contract!Next]_(Contract!vars)
  <2>1. \A j \in Jobs \ {i} : Phase(j)' = Phase(j)
    BY <1>1, RequestSparesOthers DEF Begin, TypeOK
  <2>2. jobs'[i].status \in Active
    BY <1>1 DEF CreateJob, NoRow, Active, TypeOK
  <2>3. reqJob'[r] = i /\ reqPc'[r] \in Submitting
    BY <1>1 DEF Begin, TypeOK
  <2>4. Owed(i)'
    BY <2>3 DEF Owed
  <2> QED BY <1>1, <2>1, <2>2, <2>4, StepOfOneJob
<1>2. ASSUME NEW i \in Jobs, NEW first \in {"cancel", "delete", "purgeCancel", "purgeOutput", "retryPending"},
             Begin(r, i, first), UNCHANGED <<jobs, files, runVars, queueVars, faults, history>>
      PROVE  [Contract!Next]_(Contract!vars)
  <2>1. \A j \in Jobs \ {i} : Phase(j)' = Phase(j)
    BY <1>2, RequestSparesOthers DEF Begin, TypeOK
  <2>2. Owed(i) => Owed(i)'
    BY <1>2 DEF Owed, Begin, TypeOK, WillRun, JobOf, runVars, queueVars
  <2> QED BY <1>2, <2>1, <2>2, StepOfOneJob
<1>3. CASE Create(r)
  BY <1>1, <1>3 DEF Create
<1>4. CASE DeleteRead(r) \/ RetryRead(r)
  BY <1>2, <1>4 DEF DeleteRead, RetryRead
<1>5. ASSUME NEW i \in Jobs, i = reqJob[r], ~Create(r), ~DeleteRead(r), ~RetryRead(r)
      PROVE  [Contract!Next]_(Contract!vars)
  <2>1. ASSUME NEW from, NEW to, Step(r, from, to),
               EnqueueJob(i) \/ UNCHANGED queueVars, UNCHANGED runVars,
               \A j \in Jobs \ {i} : jobs'[j] = jobs[j]
        PROVE  \A j \in Jobs \ {i} : Phase(j)' = Phase(j)
    BY <1>5, <2>1, RequestSparesOthers DEF Step, TypeOK
  <2>2. ASSUME NEW from, NEW to, Enqueue(r, from, to)
        PROVE  [Contract!Next]_(Contract!vars)
    <3>1. UNCHANGED <<jobs, runVars>>
      BY <2>2 DEF Enqueue
    <3>2. CASE Step(r, from, "done") /\ EnqueueJob(i) /\ UNCHANGED faults
      <4>1. \A j \in Jobs \ {i} : Phase(j)' = Phase(j)
        BY <2>1, <3>1, <3>2
      <4>2. \E t \in Tasks : taskState'[t] = "queued" /\ taskJob'[t] = i
        BY <3>2 DEF EnqueueJob, TypeOK, QueueTypeOK
      <4>3. Owed(i)'
        BY <4>2 DEF Owed, WillRun
      <4> QED BY <3>1, <3>2, <4>1, <4>3, StepOfOneJob
    <3>3. CASE Step(r, from, to) /\ Fault("enqueue") /\ (EnqueueJob(i) \/ UNCHANGED queueVars)
      <4>1. \A j \in Jobs \ {i} : Phase(j)' = Phase(j)
        BY <2>1, <3>1, <3>3
      <4>2. Strike
        BY <3>3 DEF Strike, Fault
      <4> QED BY <3>1, <4>1, <4>2, StepOfOneJob
    <3> QED BY <1>5, <2>2, <3>2, <3>3 DEF Enqueue
  <2>3. CASE CreateEnqueue(r) \/ AutoEnqueue(r) \/ RetryEnqueue(r)
    BY <2>2, <2>3 DEF CreateEnqueue, AutoEnqueue, RetryEnqueue
  <2>4. CASE PurgeOutput(r)
    <3>1. Step(r, "purgeOutput", "purgeRow") /\ UNCHANGED <<jobs, runVars, queueVars, faults>>
      BY <2>4 DEF PurgeOutput
    <3>2. \A j \in Jobs \ {i} : Phase(j)' = Phase(j)
      BY <2>1, <3>1
    <3>3. Owed(i) => Owed(i)'
      BY <3>1 DEF Owed, Step, TypeOK, WillRun, JobOf, runVars, queueVars
    <3> QED BY <3>1, <3>2, <3>3, StepOfOneJob
  <2>5. ASSUME NEW from, NEW to, Step(r, from, to), UNCHANGED <<runVars, queueVars>>,
               NEW row, NEW loss, Write(i, row, loss),
               \/ row.status = IF Exists(jobs[i]) THEN "failed" ELSE jobs[i].status
               \/ row.status = IF Exists(jobs[i]) THEN "cancelled" ELSE jobs[i].status
               \/ row.status = IF Exists(jobs[i]) THEN "deleted" ELSE jobs[i].status
               \/ row.status = (IF Exists(jobs[i]) THEN "pending" ELSE jobs[i].status) /\ to \in Submitting
               \/ row.status = jobs[i].status /\ to \in Submitting
        PROVE  [Contract!Next]_(Contract!vars)
    <3>1. \A j \in Jobs \ {i} : jobs'[j] = jobs[j]
      BY <2>5, WriteStep
    <3>2. \A j \in Jobs \ {i} : Phase(j)' = Phase(j)
      BY <2>1, <2>5, <3>1
    <3>3. to \in Submitting => Owed(i)'
      <4>1. reqJob'[r] = i /\ reqPc'[r] = to
        BY <1>5, <2>5 DEF Step, TypeOK
      <4> QED BY <4>1 DEF Owed
    <3> HIDE DEF Submitting
    <3>4. \/ row.status \in Settled \cup {"deleted"} /\ Exists(jobs[i])
          \/ row.status \in Active /\ Owed(i)' /\ Exists(jobs[i])
          \/ row.status = jobs[i].status /\ (Owed(i) => Owed(i)')
          \/ row.status = jobs[i].status /\ ~Exists(jobs[i])
      BY <2>5, <3>3 DEF Settled, Active
    <3> QED BY <2>5, <3>2, <3>4, StatementOfOneJob
  <2>6. jobs[i] \in Row /\ "cancelled" \in JobStatus /\ "pending" \in JobStatus /\ 0 \in Progress
    BY DEF TypeOK, JobStatus, Settled, Active, Progress
  <2>7. CASE CreateFail(r)
    BY <1>5, <2>5, <2>6, <2>7, StatementsAndStatus DEF CreateFail
  <2>8. CASE DeleteCancel(r)
    BY <1>5, <2>5, <2>6, <2>8, StatementsAndStatus DEF DeleteCancel
  <2>9. CASE DeleteRow(r)
    BY <1>5, <2>5, <2>6, <2>9, StatementsAndStatus DEF DeleteRow
  <2>10. CASE RetryPending(r)
    BY <1>5, <2>5, <2>6, <2>10, StatementsAndStatus DEF RetryPending
  <2>11. CASE RetryProgress(r)
    BY <1>5, <2>5, <2>6, <2>11, StatementsAndStatus DEF RetryProgress
  <2> QED
    BY <1>5, <2>3, <2>4, <2>7, <2>8, <2>9, <2>10, <2>11 DEF RequestNext
<1>6. CASE reqPc[r] = "idle"
  BY <1>3, <1>4, <1>6
  DEF RequestNext, CreateEnqueue, AutoEnqueue, RetryEnqueue, Enqueue, CreateFail,
      DeleteCancel, PurgeOutput, DeleteRow, RetryPending, RetryProgress, Step
<1>7. CASE reqPc[r] # "idle"
  BY <1>3, <1>4, <1>5, <1>7 DEF Wiring
<1> QED BY <1>6, <1>7

LEMMA HandlerKeepsContract ==
  ASSUME TypeOK, Wiring, NEW h \in Runs, HandleTranscode(h)
  PROVE  [Contract!Next]_(Contract!vars)
<1> USE DEF Working
<1>0. InFlight(h)
  BY DEF HandleTranscode, RunRead, RunMkdir, RunSetDownloading, RunDownload,
         RunSetTranscoding, RunThumbnail, RunTranscode, RunEncoded, RunSetUploading,
         RunUpload, RunUploaded, RunSetCompleted, RunSetFull, RunFail, RunNotify,
         RunReturn, RunSetStatus, Goto, InFlight
<1>1. PICK t \in Tasks, i \in Jobs : runTask[h] = t /\ taskJob[t] = i
  BY <1>0, RunHasJob DEF JobOf
<1>2. JobOf(h) = i
  BY <1>1 DEF JobOf
<1>3. UNCHANGED <<runTask, requestVars, taskJob>>
  BY DEF HandleTranscode, RunRead, RunMkdir, RunSetDownloading, RunDownload,
         RunSetTranscoding, RunThumbnail, RunTranscode, RunEncoded, RunSetUploading,
         RunUpload, RunUploaded, RunSetCompleted, RunSetFull, RunFail, RunNotify,
         RunReturn, RunSetStatus, Goto, RetryOrArchive, Done, queueVars
(* The others, when the queue does not hear of the step ...                *)
<1>4. ASSUME NEW from, NEW to, Goto(h, from, to), UNCHANGED <<attached, queueVars>>,
             \A j \in Jobs \ {i} : jobs'[j] = jobs[j]
      PROVE  \A j \in Jobs \ {i} : Phase(j)' = Phase(j)
  <2>1. \A g \in Runs \ {h} : pc'[g] = pc[g]
    BY <1>4 DEF Goto, TypeOK
  <2> QED BY <1>1, <1>3, <1>4, <2>1, RunSparesOthers DEF queueVars
(* ... and when it does.                                                   *)
<1>5. ASSUME NEW from, Goto(h, from, "idle"), attached' = [attached EXCEPT ![h] = FALSE],
             UNCHANGED jobs,
             UNCHANGED queueVars \/ RetryOrArchive(t) \/ Done(t)
      PROVE  \A j \in Jobs \ {i} : Phase(j)' = Phase(j)
  <2>1. \A g \in Runs \ {h} : pc'[g] = pc[g] /\ attached'[g] = attached[g]
    BY <1>5 DEF Goto, TypeOK
  <2>2. \A u \in Tasks \ {t} : taskState'[u] = taskState[u] /\ retried'[u] = retried[u]
    BY <1>5 DEF RetryOrArchive, Done, queueVars, TypeOK, QueueTypeOK
  <2>3. /\ \A g \in Runs \ {h} : runTask'[g] = runTask[g]
        /\ runTask'[h] = t
        /\ \A j \in Jobs \ {i} : jobs'[j] = jobs[j]
    BY <1>1, <1>3, <1>5
  <2> QED BY <1>1, <1>3, <2>1, <2>2, <2>3, RunSparesOthers
(* Working on the job, and ending without having to read it.               *)
<1>6. ASSUME NEW to \in Working, Goto(h, pc[h], to) PROVE Owed(i)'
  <2>1. pc'[h] \in Working /\ JobOf(h)' = i
    BY <1>1, <1>3, <1>6 DEF Goto, JobOf, TypeOK
  <2> QED BY <2>1 DEF Owed
<1>7. ASSUME NEW to, Goto(h, pc[h], to), pc[h] \notin Working \cup {"read"}, Owed(i),
             \/ UNCHANGED <<attached, queueVars>>
             \/ /\ attached' = [attached EXCEPT ![h] = FALSE]
                /\ IF attached[h] THEN Done(t) ELSE UNCHANGED queueVars
      PROVE  Owed(i)'
  <2>1. \A g \in Runs : pc[g] \in Working /\ JobOf(g) = i => pc'[g] \in Working /\ JobOf(g)' = i
    BY <1>3, <1>7 DEF Goto, JobOf, TypeOK
  <2>2. ASSUME NEW u \in Tasks, WillRun(u) PROVE WillRun(u)'
    <3>1. CASE u = t /\ attached[h]
      BY <1>1, <1>7, <2>2, <3>1 DEF WillRun, Wiring
    <3>2. CASE UNCHANGED <<taskState, retried>> /\ ~(u = t /\ attached[h])
      <4>1. \A g \in Runs : (attached'[g] /\ runTask'[g] = u) <=> (attached[g] /\ runTask[g] = u)
        BY <1>1, <1>3, <1>7, <3>2 DEF TypeOK
      <4>2. \A g \in Runs : attached[g] /\ runTask[g] = u => pc'[g] = pc[g]
        BY <1>1, <1>7, <3>2 DEF Goto, TypeOK
      <4> QED BY <2>2, <3>2, <4>1, <4>2 DEF WillRun
    <3>3. CASE attached[h] /\ Done(t) /\ u # t /\ attached' = [attached EXCEPT ![h] = FALSE]
      <4>1. \A g \in Runs : (attached'[g] /\ runTask'[g] = u) <=> (attached[g] /\ runTask[g] = u)
        BY <1>1, <1>3, <3>3 DEF TypeOK
      <4>2. \A g \in Runs : attached[g] /\ runTask[g] = u => pc'[g] = pc[g]
        BY <1>1, <1>7, <3>3 DEF Goto, TypeOK
      <4>3. taskState'[u] = taskState[u] /\ retried'[u] = retried[u]
        BY <3>3 DEF Done, TypeOK, QueueTypeOK
      <4> QED BY <2>2, <4>1, <4>2, <4>3 DEF WillRun
    <3> QED BY <1>7, <3>1, <3>2, <3>3 DEF queueVars
  <2> QED BY <1>3, <1>7, <2>1, <2>2, OwedElsewhere
<1>8. /\ jobs[i] \in Row /\ 100 \in Progress
      /\ {"downloading", "transcoding", "uploading", "completed"} \subseteq JobStatus
  BY DEF TypeOK, JobStatus, Settled, Active, Running, Progress
<1>9. CASE RunRead(h)
  <2>1. UNCHANGED jobs
    BY <1>9 DEF RunRead
  <2>2. CASE Goto(h, "read", "mkdir") /\ UNCHANGED <<attached, queueVars, faults>>
    BY <1>4, <1>6, <2>1, <2>2, StepOfOneJob DEF Goto
  <2>3. CASE Goto(h, "read", "cleanup") /\ UNCHANGED <<attached, queueVars, faults>>
             /\ jobs[i].status = "cancelled"
    BY <1>4, <2>1, <2>3, StepOfOneJob DEF Active, Running
  <2>4. CASE /\ (~Exists(jobs[i]) /\ UNCHANGED faults) \/ Fault("db")
             /\ Goto(h, "read", "idle")
             /\ attached' = [attached EXCEPT ![h] = FALSE]
             /\ IF attached[h] THEN RetryOrArchive(t) ELSE UNCHANGED queueVars
    <3>1. \A j \in Jobs \ {i} : Phase(j)' = Phase(j)
      BY <1>5, <2>1, <2>4
    <3>2. (jobs[i].status \notin Active /\ UNCHANGED faults) \/ Strike
      BY <2>4 DEF Fault, Strike, Exists, JobStatus
    <3> QED BY <2>1, <3>1, <3>2, StepOfOneJob
  <2> QED BY <1>1, <1>2, <1>9, <2>2, <2>3, <2>4 DEF RunRead
<1>10. CASE RunReturn(h)
  <2>1. UNCHANGED <<jobs, faults>> /\ Goto(h, "cleanup", "idle")
    BY <1>10 DEF RunReturn
  <2>2. \A j \in Jobs \ {i} : Phase(j)' = Phase(j)
    BY <1>1, <1>5, <1>10, <2>1 DEF RunReturn
  <2>3. Owed(i) => Owed(i)'
    BY <1>1, <1>7, <1>10, <2>1 DEF RunReturn, Goto
  <2> QED BY <2>1, <2>2, <2>3, StepOfOneJob
<1>11. ASSUME NEW from, NEW to, Goto(h, from, to), UNCHANGED <<attached, queueVars>>,
              NEW row, NEW loss, Write(i, row, loss),
              \/ row.status = IF Exists(jobs[i]) THEN "completed" ELSE jobs[i].status
              \/ row.status = IF Exists(jobs[i]) THEN "failed" ELSE jobs[i].status
              \/ \E s \in Active : /\ row.status = IF Exists(jobs[i]) THEN s ELSE jobs[i].status
                                   /\ to \in Working
              \/ row.status = jobs[i].status /\ (to \in Working \/ pc[h] \notin Working \cup {"read"})
       PROVE  [Contract!Next]_(Contract!vars)
  <2>1. \A j \in Jobs \ {i} : jobs'[j] = jobs[j]
    BY <1>11, WriteStep
  <2>2. \A j \in Jobs \ {i} : Phase(j)' = Phase(j)
    BY <1>4, <1>11, <2>1
  <2>3. to \in Working => Owed(i)'
    BY <1>6, <1>11 DEF Goto
  <2>4. pc[h] \notin Working \cup {"read"} => (Owed(i) => Owed(i)')
    BY <1>7, <1>11 DEF Goto
  <2> HIDE DEF Working
  <2>5. \/ row.status \in Settled \cup {"deleted"} /\ Exists(jobs[i])
        \/ row.status \in Active /\ Owed(i)' /\ Exists(jobs[i])
        \/ row.status = jobs[i].status /\ (Owed(i) => Owed(i)')
        \/ row.status = jobs[i].status /\ ~Exists(jobs[i])
    BY <1>11, <2>3, <2>4 DEF Settled
  <2> QED BY <1>11, <2>2, <2>5, StatementOfOneJob
<1>12. ASSUME NEW from, NEW to, NEW s, NEW loss, RunSetStatus(h, from, s, to, loss),
              (s \in Active /\ to \in Working) \/ s = "completed"
       PROVE  [Contract!Next]_(Contract!vars)
  <2>1. s \in JobStatus
    BY <1>12 DEF JobStatus, Settled
  <2>2. UpdateJobStatus(jobs[i], s).status = IF Exists(jobs[i]) THEN s ELSE jobs[i].status
    BY <1>8, <2>1, StatementsAndStatus
  <2> QED BY <1>2, <1>11, <1>12, <2>2 DEF RunSetStatus
<1>13. CASE RunSetDownloading(h) \/ RunSetTranscoding(h) \/ RunSetUploading(h) \/ RunSetCompleted(h)
  BY <1>12, <1>13
  DEF RunSetDownloading, RunSetTranscoding, RunSetUploading, RunSetCompleted, Active, Running
<1>14. CASE RunFail(h)
  BY <1>2, <1>8, <1>11, <1>14, StatementsAndStatus DEF RunFail
<1>15. CASE RunSetFull(h)
  <2>1. UpdateJobProgress(jobs[i], 100).status = jobs[i].status
    BY <1>8, StatementsAndStatus
  <2>2. pc[h] \notin Working \cup {"read"}
    BY <1>15 DEF RunSetFull, Goto
  <2> QED BY <1>2, <1>11, <1>15, <2>1, <2>2 DEF RunSetFull
<1>16. CASE RunNotify(h)
  <2>1. /\ Goto(h, "notifyCompleted", "cleanup") \/ Goto(h, "notifyFailed", "cleanup")
        /\ UNCHANGED <<jobs, attached, queueVars>>
        /\ UNCHANGED faults \/ Strike
    BY <1>16 DEF RunNotify, Fault, Strike
  <2>2. \A j \in Jobs \ {i} : Phase(j)' = Phase(j)
    BY <1>4, <2>1
  <2>3. Owed(i) => Owed(i)'
    BY <1>7, <2>1 DEF Goto
  <2> QED BY <2>1, <2>2, <2>3, StepOfOneJob
<1>17. CASE RunMkdir(h) \/ RunDownload(h) \/ RunThumbnail(h) \/ RunTranscode(h)
            \/ RunEncoded(h) \/ RunUpload(h) \/ RunUploaded(h)
  <2>1. UNCHANGED <<jobs, attached, queueVars, faults>>
    BY <1>17 DEF RunMkdir, RunDownload, RunThumbnail, RunTranscode, RunEncoded,
                 RunUpload, RunUploaded
  <2>2. \E to \in Working : Goto(h, pc[h], to)
    BY <1>17 DEF RunMkdir, RunDownload, RunThumbnail, RunTranscode, RunEncoded,
                 RunUpload, RunUploaded, Goto
  <2> QED BY <1>4, <1>6, <2>1, <2>2, StepOfOneJob
<1> QED
  BY <1>9, <1>10, <1>13, <1>14, <1>15, <1>16, <1>17 DEF HandleTranscode

(* The jobs a process has in hand: those of its handlers and requests.     *)
Concerned(n) ==
  {j \in Jobs :
     \/ \E h \in Runs : Host[h] = n /\ InFlight(h) /\ JobOf(h) = j
     \/ \E r \in Requests : Host[r] = n /\ reqPc[r] # "idle" /\ reqJob[r] = j}

(* They are no more than its handlers and requests.                        *)
LEMMA ConcernedAreFew ==
  ASSUME NEW n \in Nodes
  PROVE  IsFiniteSet(Concerned(n)) /\ Cardinality(Concerned(n)) <= Reach
<1> DEFINE Concerns(a, j) == \/ a \in Runs /\ InFlight(a) /\ JobOf(a) = j
                             \/ a \in Requests /\ reqPc[a] # "idle" /\ reqJob[a] = j
           C == Concerned(n)
           f == [j \in C |-> CHOOSE a \in HostedBy(n) : Concerns(a, j)]
<1>1. \A j \in C : \E a \in HostedBy(n) : Concerns(a, j)
  BY DEF Concerned, HostedBy
<1>2. \A j \in C : f[j] \in HostedBy(n) /\ Concerns(f[j], j)
  BY <1>1
<1>3. \A a \in HostedBy(n) : \A i, j : Concerns(a, i) /\ Concerns(a, j) => i = j
  BY HostAssumption DEF HostedBy
<1> HIDE DEF Concerns, C
<1>4. f \in [C -> HostedBy(n)]
  BY <1>2
<1>5. \A i, j \in C : f[i] = f[j] => i = j
  BY <1>2, <1>3
<1> HIDE DEF f
<1>6. f \in Injection(C, HostedBy(n))
  BY <1>4, <1>5 DEF Injection, IsInjective
<1>7. IsFiniteSet(HostedBy(n)) /\ Cardinality(HostedBy(n)) <= Reach
  BY ReachAssumption
<1>8. IsFiniteSet(C) /\ Cardinality(C) <= Cardinality(HostedBy(n))
  BY <1>6, <1>7, FS_Injection
<1>9. Cardinality(C) \in Nat /\ Cardinality(HostedBy(n)) \in Nat
  BY <1>7, <1>8, FS_CardinalityType
<1>10. IsFiniteSet(C) /\ Cardinality(C) <= Reach
  BY <1>7, <1>8, <1>9, ReachAssumption
<1> QED BY <1>10 DEF C

(* A fault that strikes a process, writes no row and leaves what is owed   *)
(* of other jobs alone.                                                    *)
LEMMA ProcessUpset ==
  ASSUME NEW n \in Nodes, Strike, UNCHANGED jobs,
         \A j \in Jobs \ Concerned(n) : Owed(j)' <=> Owed(j)
  PROVE  Contract!Next
<1>1. \A j \in Jobs : (Owed(j)' <=> Owed(j)) => Phase(j)' = Phase(j)
  BY DEF Phase
<1>2. \A j \in Jobs : \/ Phase(j)' = Phase(j)
                      \/ Phase(j) = "owed" /\ Phase(j)' = "lost"
                      \/ Phase(j) = "lost" /\ Phase(j)' = "owed"
  BY DEF Phase
<1>3. Concerned(n) \in SUBSET Jobs
  BY DEF Concerned
<1> QED BY <1>1, <1>2, <1>3, ConcernedAreFew, UpsetStep

LEMMA ShutdownKeepsContract ==
  ASSUME TypeOK, Wiring, NEW n \in Nodes, Shutdown(n)
  PROVE  Contract!Next
<1> DEFINE unfinished == {h \in Runs : Host[h] = n /\ attached[h]}
<1>1. /\ Strike
      /\ UNCHANGED <<jobs, pc, runTask, requestVars, taskJob, retried>>
      /\ attached' = [h \in Runs |-> attached[h] /\ h \notin unfinished]
      /\ taskState' = [t \in Tasks |-> IF t \in {runTask[h] : h \in unfinished}
                                       THEN "queued" ELSE taskState[t]]
  BY DEF Shutdown, Fault, Strike, Requeue
<1>2. ASSUME NEW j \in Jobs \ Concerned(n) PROVE Owed(j)' <=> Owed(j)
  <2>1. \A h \in unfinished : taskJob[runTask[h]] # j
    BY <1>2 DEF Concerned, JobOf, Wiring
  <2>2. ASSUME NEW t \in Tasks, taskJob[t] = j PROVE WillRun(t)' <=> WillRun(t)
    <3>1. t \notin {runTask[h] : h \in unfinished}
      BY <2>1, <2>2
    <3>2. taskState'[t] = taskState[t]
      BY <1>1, <3>1
    <3>3. \A h \in Runs : (attached'[h] /\ runTask'[h] = t) <=> (attached[h] /\ runTask[h] = t)
      BY <1>1, <3>1
    <3> QED BY <1>1, <3>2, <3>3 DEF WillRun
  <2>3. \A h \in Runs : (pc'[h] \in Working /\ JobOf(h)' = j) <=> (pc[h] \in Working /\ JobOf(h) = j)
    BY <1>1 DEF JobOf
  <2> QED BY <1>1, <2>2, <2>3 DEF Owed, requestVars
<1> QED BY <1>1, <1>2, ProcessUpset

LEMMA EndKeepsContract ==
  ASSUME TypeOK, Wiring, NEW n \in Nodes, ProcessEnds(n)
  PROVE  Contract!Next
<1>1. /\ Strike
      /\ UNCHANGED <<jobs, runTask, reqJob, queueVars>>
      /\ pc' = [h \in Runs |-> IF Host[h] = n THEN "idle" ELSE pc[h]]
      /\ attached' = [h \in Runs |-> attached[h] /\ Host[h] # n]
      /\ reqPc' = [r \in Requests |->
                     IF Host[r] = n /\ reqPc[r] # "idle" THEN "done" ELSE reqPc[r]]
  BY DEF ProcessEnds, Fault, Strike
<1>2. ASSUME NEW j \in Jobs \ Concerned(n) PROVE Owed(j)' <=> Owed(j)
  <2>1. \A h \in Runs : Host[h] = n /\ InFlight(h) => JobOf(h) # j
    BY <1>2 DEF Concerned
  <2>2. ASSUME NEW t \in Tasks, taskJob[t] = j PROVE WillRun(t)' <=> WillRun(t)
    <3>1. \A h \in Runs : Host[h] = n => ~(attached[h] /\ runTask[h] = t)
      BY <2>1, <2>2 DEF JobOf, Wiring
    <3>2. \A h \in Runs : (attached'[h] /\ runTask'[h] = t) <=> (attached[h] /\ runTask[h] = t)
      BY <1>1, <3>1
    <3>3. \A h \in Runs : attached[h] /\ runTask[h] = t => pc'[h] = pc[h]
      BY <1>1, <3>1
    <3> QED BY <1>1, <3>2, <3>3 DEF WillRun, queueVars
  <2>3. ASSUME NEW h \in Runs
        PROVE  (pc'[h] \in Working /\ JobOf(h)' = j) <=> (pc[h] \in Working /\ JobOf(h) = j)
    <3>1. CASE Host[h] = n
      BY <1>1, <2>1, <3>1 DEF InFlight, Working
    <3>2. CASE Host[h] # n
      BY <1>1, <3>2 DEF JobOf, queueVars
    <3> QED BY <3>1, <3>2
  <2>4. ASSUME NEW r \in Requests
        PROVE  (reqJob'[r] = j /\ reqPc'[r] \in Submitting) <=> (reqJob[r] = j /\ reqPc[r] \in Submitting)
    <3>1. CASE Host[r] = n /\ reqPc[r] # "idle"
      BY <1>1, <1>2, <3>1 DEF Concerned, Submitting
    <3>2. CASE ~(Host[r] = n /\ reqPc[r] # "idle")
      BY <1>1, <3>2
    <3> QED BY <3>1, <3>2
  <2>5. \A t \in Tasks : (taskJob'[t] = j /\ WillRun(t)') <=> (taskJob[t] = j /\ WillRun(t))
    BY <1>1, <2>2 DEF queueVars
  <2> QED BY <2>3, <2>4, <2>5 DEF Owed
<1> QED BY <1>1, <1>2, ProcessUpset

LEMMA EnvironmentKeepsContract ==
  ASSUME TypeOK, Wiring,
         \/ \E h \in Runs : \/ Dispatch(h) \/ ReportProgress(h) \/ ReadingEnds(h)
                            \/ Deadline(h)
         \/ \E n \in Nodes : Shutdown(n) \/ ProcessEnds(n)
         \/ \E t \in Tasks : Recover(t)
  PROVE  [Contract!Next]_(Contract!vars)
<1> USE DEF Working
<1>1. ASSUME NEW h \in Runs, Dispatch(h) PROVE [Contract!Next]_(Contract!vars)
  <2>1. PICK t \in Tasks :
          /\ Goto(h, "idle", "read")
          /\ Dequeue(t)
          /\ runTask' = [runTask EXCEPT ![h] = t]
          /\ attached' = [attached EXCEPT ![h] = TRUE]
    BY <1>1 DEF Dispatch
  <2>2. UNCHANGED <<jobs, requestVars, faults, taskJob, retried>>
    BY <1>1 DEF Dispatch, Dequeue
  <2>3. PICK i \in Jobs : taskJob[t] = i
    BY <2>1 DEF Dequeue, Wiring
  <2>4. pc[h] = "idle" /\ ~attached[h]
    BY <2>1 DEF Goto, Wiring, InFlight
  <2>5. \A g \in Runs \ {h} : pc'[g] = pc[g] /\ attached'[g] = attached[g] /\ runTask'[g] = runTask[g]
    BY <2>1 DEF Goto, TypeOK
  <2>6. pc'[h] = "read" /\ attached'[h] /\ runTask'[h] = t
    BY <2>1 DEF Goto, TypeOK
  <2>7. \A u \in Tasks \ {t} : taskState'[u] = taskState[u] /\ retried'[u] = retried[u]
    BY <2>1, <2>2 DEF Dequeue, TypeOK, QueueTypeOK
  <2>8. \A j \in Jobs \ {i} : Phase(j)' = Phase(j)
    BY <2>2, <2>3, <2>4, <2>5, <2>6, <2>7, RunSparesOthers
  <2>9. taskState'[t] = "active" /\ \A g \in Runs \ {h} : ~(attached'[g] /\ runTask'[g] = t)
    BY <2>1, <2>5 DEF Dequeue, Wiring, TypeOK, QueueTypeOK
  <2>10. Owed(i)'
    BY <2>2, <2>3, <2>6, <2>9 DEF Owed, WillRun
  <2> QED BY <2>2, <2>8, <2>10, StepOfOneJob
<1>2. ASSUME NEW h \in Runs, ReportProgress(h) PROVE [Contract!Next]_(Contract!vars)
  <2>1. PICK t \in Tasks, i \in Jobs : runTask[h] = t /\ taskJob[t] = i
    BY <1>2, RunHasJob DEF ReportProgress, JobOf
  <2>2. PICK p \in Progress : jobs' = [jobs EXCEPT ![i] = UpdateJobProgress(jobs[i], p)]
    BY <1>2, <2>1 DEF ReportProgress, JobOf
  <2>3. UNCHANGED <<runVars, requestVars, queueVars>>
    BY <1>2 DEF ReportProgress
  <2>4. \A j \in Jobs : Owed(j)' <=> Owed(j)
    BY <2>3 DEF Owed, WillRun, JobOf, runVars, requestVars, queueVars
  <2>5. \A j \in Jobs \ {i} : Phase(j)' = Phase(j)
    BY <2>2, <2>4 DEF Phase, TypeOK
  <2>6. UpdateJobProgress(jobs[i], p).status = jobs[i].status
    BY StatementsAndStatus DEF TypeOK
  <2>7. jobs'[i].status = jobs[i].status /\ UNCHANGED faults
    BY <1>2, <2>2, <2>6 DEF ReportProgress, TypeOK
  <2> QED BY <2>4, <2>5, <2>7, StepOfOneJob
<1>3. ASSUME NEW h \in Runs, ReadingEnds(h) PROVE [Contract!Next]_(Contract!vars)
  <2>1. UNCHANGED <<jobs, pc, runTask, attached, requestVars, queueVars, faults>>
    BY <1>3 DEF ReadingEnds
  <2>2. PICK i \in Jobs : i = JobOf(h)
    BY <1>3, RunHasJob DEF ReadingEnds
  <2>3. \A j \in Jobs : Owed(j)' <=> Owed(j)
    BY <2>1 DEF Owed, WillRun, JobOf, requestVars, queueVars
  <2>4. \A j \in Jobs \ {i} : Phase(j)' = Phase(j)
    BY <2>1, <2>3 DEF Phase
  <2> QED BY <2>1, <2>3, <2>4, StepOfOneJob
<1>4. ASSUME NEW h \in Runs, Deadline(h)
      PROVE  [Contract!Next]_(Contract!vars)
  <2>1. /\ InFlight(h)
        /\ UNCHANGED <<jobs, runTask, requestVars, taskJob>>
        /\ attached' = [attached EXCEPT ![h] = FALSE]
        /\ Strike
    BY <1>4 DEF Deadline, Fault, Strike, Wiring, RetryOrArchive
  <2>2. PICK t \in Tasks, i \in Jobs : runTask[h] = t /\ taskJob[t] = i
    BY <2>1, RunHasJob DEF JobOf
  <2>3. \A g \in Runs \ {h} : pc'[g] = pc[g] /\ attached'[g] = attached[g] /\ runTask'[g] = runTask[g]
    BY <1>4, <2>1 DEF Deadline, TypeOK
  <2>4. \A u \in Tasks \ {t} : taskState'[u] = taskState[u] /\ retried'[u] = retried[u]
    BY <1>4, <2>2 DEF Deadline, RetryOrArchive, TypeOK, QueueTypeOK
  <2>5. /\ runTask'[h] = t
        /\ \A j \in Jobs \ {i} : jobs'[j] = jobs[j]
        /\ UNCHANGED <<taskJob, requestVars>>
    BY <2>1, <2>2
  <2>6. \A j \in Jobs \ {i} : Phase(j)' = Phase(j)
    BY <2>2, <2>3, <2>4, <2>5, RunSparesOthers
  <2> QED BY <2>1, <2>6, StepOfOneJob
<1>5. ASSUME NEW t \in Tasks, Recover(t) PROVE [Contract!Next]_(Contract!vars)
  <2>1. /\ taskState[t] = "active"
        /\ \A g \in Runs : ~(attached[g] /\ runTask[g] = t)
        /\ RetryOrArchive(t)
        /\ UNCHANGED <<jobs, pc, runTask, attached, requestVars, taskJob, faults>>
    BY <1>5 DEF Recover, runVars, RetryOrArchive
  <2>2. PICK i \in Jobs : taskJob[t] = i
    BY <2>1 DEF Wiring
  <2>3. \A u \in Tasks \ {t} : taskState'[u] = taskState[u] /\ retried'[u] = retried[u]
    BY <2>1 DEF RetryOrArchive, TypeOK, QueueTypeOK
  <2>4. \A g \in Runs : pc'[g] = pc[g] /\ attached'[g] = attached[g] /\ runTask'[g] = runTask[g]
    BY <2>1
  <2>5. \A j \in Jobs \ {i} : Phase(j)' = Phase(j)
    BY <2>1, <2>2, <2>3, <2>4, RunSparesOthers
  <2>6. WillRun(t) => taskState'[t] = "queued"
    BY <2>1 DEF WillRun, RetryOrArchive, TypeOK, QueueTypeOK
  <2>7. ASSUME NEW u \in Tasks, WillRun(u) PROVE WillRun(u)'
    BY <2>1, <2>3, <2>6, <2>7 DEF WillRun
  <2>8. Owed(i) => Owed(i)'
    BY <2>1, <2>7, OwedElsewhere DEF JobOf
  <2> QED BY <2>1, <2>5, <2>8, StepOfOneJob
<1> QED BY <1>1, <1>2, <1>3, <1>4, <1>5, ShutdownKeepsContract, EndKeepsContract

-----------------------------------------------------------------------------
(* The refinement, and what it is worth.                                   *)

(* Every step of the code is a step of the contract, or changes nothing it *)
(* speaks of.                                                              *)
LEMMA NextKeepsContract ==
  ASSUME TypeOK, Wiring, [Next]_vars
  PROVE  [Contract!Next]_(Contract!vars)
<1>1. CASE Next
  BY <1>1, RequestKeepsContract, HandlerKeepsContract, EnvironmentKeepsContract DEF Next
<1>2. CASE UNCHANGED vars
  <2>1. \A j \in Jobs : Owed(j)' <=> Owed(j)
    BY <1>2 DEF vars, runVars, requestVars, queueVars, Owed, WillRun, JobOf
  <2>2. \A j \in Jobs : Phase(j)' = Phase(j)
    BY <1>2, <2>1 DEF vars, Phase
  <2> QED BY <1>2, <2>2 DEF vars, Contract!vars
<1> QED BY <1>1, <1>2

LEMMA InitKeepsContract == Init => Contract!Init
<1> SUFFICES ASSUME Init PROVE Contract!Init
  OBVIOUS
<1>1. ASSUME NEW j \in Jobs PROVE Phase(j) = "unborn"
  <2>1. jobs[j].status = "unborn"
    BY DEF Init, NoRow
  <2> QED BY <2>1 DEF Phase, Settled
<1> QED BY <1>1 DEF Init, Contract!Init

(* Requests, handlers, the queue and the recoverer implement the contract: *)
(* jobs are lost by faults alone, to each at most as many as a process has *)
(* in hand, and no other step changes the phase of two jobs.               *)
THEOREM ImplementsContract == Spec => KeepsContract
BY InitKeepsContract, NextKeepsContract, TypeCorrect, PTL DEF Spec, KeepsContract, Contract!Spec

(* What the contract is worth: what one process has in hand, MAX_WORKERS   *)
(* handlers and the requests it serves, is the price of a fault.           *)
Lost == {j \in Jobs : Phase(j) = "lost"}
NoMoreThanFaults == Cardinality(Lost) <= faults * Reach

(* However the faults fall, the ends of whole processes included, no more  *)
(* jobs are lost at any time than the faults that have struck account for. *)
THEOREM LossesAreBounded ==
  ASSUME IsFiniteSet(Jobs)
  PROVE  Spec => []NoMoreThanFaults
<1> DEFINE ph == [j \in Jobs |-> Phase(j)]
           L == {j \in Jobs : ph[j] = "lost"}
<1>0. Lost = L
  BY DEF Lost
<1>1. ASSUME Contract!Init PROVE NoMoreThanFaults
  <2>1. ph = [j \in Jobs |-> "unborn"] /\ faults = 0
    BY <1>1 DEF Contract!Init
  <2> HIDE DEF ph
  <2>2. L = {}
    BY <2>1
  <2>3. Cardinality({}) = 0
    BY FS_EmptySet
  <2>4. Cardinality(L) <= faults * Reach
    BY <2>1, <2>2, <2>3, ReachAssumption
  <2> HIDE DEF L
  <2> QED BY <1>0, <2>4 DEF NoMoreThanFaults
<1>2. ASSUME TypeOK, [Contract!Next]_(Contract!vars), NoMoreThanFaults
      PROVE  NoMoreThanFaults'
  <2> DEFINE M == {j \in Jobs : ph'[j] = "lost"}
  <2>1. Lost' = M
    BY DEF Lost
  <2>2. ph = [j \in Jobs |-> Phase(j)]
    OBVIOUS
  <2>3. \/ \E j \in Jobs : \E to : /\ ph' = [ph EXCEPT ![j] = to]
                                   /\ to # "lost"
                                   /\ faults' = faults \/ faults' = faults + 1
        \/ \E S \in SUBSET Jobs : Contract!Upset(S)
        \/ UNCHANGED <<ph, faults>>
    <3>1. CASE Contract!Next
      BY <3>1
      DEF Contract!Next, Contract!Submit, Contract!Settle, Contract!Reopen, Contract!Remove,
          Contract!Move, Contract!Perhaps, Contract!Strike
    <3>2. CASE UNCHANGED Contract!vars
      BY <3>2 DEF Contract!vars
    <3> QED BY <1>2, <3>1, <3>2
  <2>4. ASSUME NEW S \in SUBSET Jobs, Contract!Upset(S)
        PROVE  /\ IsFiniteSet(S) /\ Cardinality(S) <= Reach
               /\ faults' = faults + 1
               /\ \A j \in Jobs \ S : ph'[j] = ph[j]
    <3>1. /\ Contract!Few(S)
          /\ faults' = faults + 1
          /\ ph' = [j \in Jobs |-> IF j \notin S THEN ph[j]
                                 ELSE IF ph[j] = "owed" THEN "lost" ELSE "owed"]
      BY <2>4 DEF Contract!Upset, Contract!Strike
    <3>2. IsFiniteSet(S) /\ Cardinality(S) <= Reach
      BY <3>1, PlacesAreFew DEF Contract!Few
    <3> HIDE DEF ph
    <3> QED BY <3>1, <3>2
  <2> HIDE DEF ph
  <2>5. L \subseteq Jobs /\ M \subseteq Jobs
    OBVIOUS
  <2>6. \/ M \subseteq L /\ (faults' = faults \/ faults' = faults + 1)
        \/ /\ faults' = faults + 1
           /\ \E S \in SUBSET Jobs : /\ IsFiniteSet(S) /\ Cardinality(S) <= Reach
                                     /\ M \subseteq L \cup S
    <3>1. ASSUME NEW S \in SUBSET Jobs, Contract!Upset(S) PROVE M \subseteq L \cup S
      BY <2>4, <3>1
    <3>2. CASE \E S \in SUBSET Jobs : Contract!Upset(S)
      BY <2>4, <3>1, <3>2
    <3>3. CASE ~\E S \in SUBSET Jobs : Contract!Upset(S)
      BY <2>2, <2>3, <3>3
    <3> QED BY <3>2, <3>3
  <2> HIDE DEF L, M
  <2>7. IsFiniteSet(L) /\ Cardinality(L) \in Nat /\ IsFiniteSet(M) /\ Cardinality(M) \in Nat
    BY <2>5, FS_Subset, FS_CardinalityType
  <2>8. faults \in Nat /\ Reach \in Nat /\ Cardinality(L) <= faults * Reach
    BY <1>0, <1>2, MaxFaultsAssumption, ReachAssumption DEF TypeOK, NoMoreThanFaults
  <2>9. (faults + 1) * Reach = faults * Reach + Reach /\ faults * Reach \in Nat
    BY <2>8
  <2>10. Cardinality(M) <= faults' * Reach
    <3>1. CASE M \subseteq L /\ (faults' = faults \/ faults' = faults + 1)
      <4>1. Cardinality(M) <= Cardinality(L)
        BY <2>7, <3>1, FS_Subset
      <4>2. faults * Reach <= faults' * Reach
        BY <2>8, <2>9, <3>1
      <4> HIDE DEF M, L
      <4>3. faults' * Reach \in Nat
        BY <2>8, <2>9, <3>1
      <4> QED BY <2>7, <2>8, <2>9, <4>1, <4>2, <4>3
    <3>2. ASSUME NEW S \in SUBSET Jobs, IsFiniteSet(S), Cardinality(S) <= Reach,
                 M \subseteq L \cup S, faults' = faults + 1
          PROVE  Cardinality(M) <= faults' * Reach
      <4>1. /\ IsFiniteSet(L \cup S)
            /\ Cardinality(L \cup S) = Cardinality(L) + Cardinality(S) - Cardinality(L \cap S)
        BY <2>7, <3>2, FS_Union
      <4>2. Cardinality(L \cap S) \in Nat /\ Cardinality(S) \in Nat /\ Cardinality(L \cup S) \in Nat
        BY <2>7, <3>2, <4>1, FS_Subset, FS_CardinalityType
      <4>3. Cardinality(M) <= Cardinality(L \cup S)
        BY <3>2, <4>1, FS_Subset
      <4>4. Cardinality(M) <= faults * Reach + Reach
        BY <2>7, <2>8, <2>9, <3>2, <4>1, <4>2, <4>3
      <4> QED BY <2>9, <3>2, <4>4
    <3> QED BY <2>6, <3>1, <3>2
  <2> QED BY <2>1, <2>10 DEF NoMoreThanFaults
<1> QED
  BY <1>1, <1>2, InitKeepsContract, NextKeepsContract, TypeCorrect, PTL DEF Spec

-----------------------------------------------------------------------------
(* Handlers take turns.                                                    *)

(* A request keeps to its job, and what it has enqueued it does not        *)
(* enqueue again.                                                          *)
Submitted == {"createFail", "done"}

LEMMA RequestMoves ==
  ASSUME TypeOK, Wiring, NEW r \in Requests, RequestNext(r)
  PROVE  /\ \A q \in Requests \ {r} : reqPc'[q] = reqPc[q] /\ reqJob'[q] = reqJob[q]
         /\ reqPc'[r] # "idle"
         /\ reqPc[r] # "idle" => reqJob'[r] = reqJob[r]
         /\ reqPc[r] \in Submitted => reqPc'[r] \in Submitted
<1>1. CASE \E from \in RequestPc \ {"idle"}, to \in RequestPc \ {"idle"} :
             Step(r, from, to) /\ (from \in Submitted => to \in Submitted)
  BY <1>1 DEF Step, TypeOK
<1>2. CASE \E j \in Jobs, to \in RequestPc \ {"idle"} : Begin(r, j, to)
  BY <1>2 DEF Begin, TypeOK, Submitted
<1>3. CASE Create(r) \/ DeleteRead(r) \/ RetryRead(r)
  BY <1>2, <1>3 DEF Create, DeleteRead, RetryRead, RequestPc, Submitting
<1>4. CASE CreateEnqueue(r) \/ AutoEnqueue(r) \/ RetryEnqueue(r)
  BY <1>1, <1>4 DEF CreateEnqueue, AutoEnqueue, RetryEnqueue, Enqueue, RequestPc, Submitting,
                    Submitted
<1>5. CASE CreateFail(r) \/ DeleteCancel(r) \/ PurgeOutput(r) \/ DeleteRow(r)
           \/ RetryPending(r) \/ RetryProgress(r)
  BY <1>1, <1>5 DEF CreateFail, DeleteCancel, PurgeOutput, DeleteRow, RetryPending,
                    RetryProgress, RequestPc, Submitting, Submitted
<1> QED BY <1>3, <1>4, <1>5 DEF RequestNext

(* Nobody else touches requests, but for the end of their process.         *)
LEMMA RequestsAreTheirOwn ==
  ASSUME TypeOK, Wiring, [Next]_vars, NEW r \in Requests, ~RequestNext(r)
  PROVE  /\ reqJob'[r] = reqJob[r]
         /\ reqPc'[r] = reqPc[r] \/ (reqPc[r] # "idle" /\ reqPc'[r] = "done")
<1>1. ASSUME NEW h \in Runs, HandleTranscode(h) PROVE UNCHANGED requestVars
  BY <1>1
  DEF HandleTranscode, RunRead, RunMkdir, RunSetDownloading, RunDownload, RunSetTranscoding,
      RunThumbnail, RunTranscode, RunEncoded, RunSetUploading, RunUpload, RunUploaded,
      RunSetCompleted, RunSetFull, RunFail, RunNotify, RunReturn, RunSetStatus
<1>2. ASSUME NEW h \in Runs,
             \/ Dispatch(h) \/ ReportProgress(h) \/ ReadingEnds(h)
             \/ Deadline(h)
      PROVE  UNCHANGED requestVars
  BY <1>2 DEF Dispatch, ReportProgress, ReadingEnds, Deadline
<1>3. ASSUME NEW t \in Tasks, Recover(t) PROVE UNCHANGED requestVars
  BY <1>3 DEF Recover
<1>4. CASE UNCHANGED vars
  BY <1>4 DEF vars, requestVars
<1>5. ASSUME NEW n \in Nodes, Shutdown(n) PROVE UNCHANGED requestVars
  BY <1>5 DEF Shutdown
<1>6. CASE UNCHANGED requestVars
  BY <1>6 DEF requestVars
<1>7. ASSUME NEW n \in Nodes, ProcessEnds(n)
      PROVE  /\ reqJob'[r] = reqJob[r]
             /\ reqPc'[r] = reqPc[r] \/ (reqPc[r] # "idle" /\ reqPc'[r] = "done")
  BY <1>7, ProcessLeaves
<1>8. ASSUME NEW q \in Requests, RequestNext(q)
      PROVE  reqJob'[r] = reqJob[r] /\ reqPc'[r] = reqPc[r]
  BY <1>8, RequestMoves
<1> QED BY <1>1, <1>2, <1>3, <1>4, <1>5, <1>6, <1>7, <1>8 DEF Next

LEMMA AboutStays ==
  ASSUME TypeOK, Wiring, [Next]_vars
  PROVE  /\ \A r \in Requests : reqPc[r] \in Submitted => reqPc'[r] \in Submitted
         /\ \A r \in Requests : \A j : About(r, j) => About(r, j)'
         /\ \A j : Contested(j) => Contested(j)'
<1>1. /\ \A r \in Requests : reqPc[r] \in Submitted => reqPc'[r] \in Submitted
      /\ \A r \in Requests : reqPc[r] # "idle" => reqPc'[r] # "idle" /\ reqJob'[r] = reqJob[r]
  <2>1. ASSUME NEW r \in Requests, RequestNext(r)
        PROVE  /\ reqPc[r] \in Submitted => reqPc'[r] \in Submitted
               /\ reqPc[r] # "idle" => reqPc'[r] # "idle" /\ reqJob'[r] = reqJob[r]
    BY <2>1, RequestMoves
  <2>2. ASSUME NEW r \in Requests, ~RequestNext(r)
        PROVE  /\ reqPc[r] \in Submitted => reqPc'[r] \in Submitted
               /\ reqPc[r] # "idle" => reqPc'[r] # "idle" /\ reqJob'[r] = reqJob[r]
    BY <2>2, RequestsAreTheirOwn DEF Submitted
  <2> QED BY <2>1, <2>2
<1>2. \A r \in Requests : \A j : About(r, j) => About(r, j)'
  BY <1>1 DEF About
<1>3. ASSUME NEW j, Contested(j) PROVE Contested(j)'
  <2>1. PICK q \in Requests, r \in Requests : q # r /\ About(q, j) /\ About(r, j)
    BY <1>3 DEF Contested
  <2>2. About(q, j)' /\ About(r, j)'
    BY <1>2, <2>1
  <2> QED BY <2>1, <2>2 DEF Contested
<1> QED BY <1>1, <1>2, <1>3

(* Whose task a task is: of a request that has enqueued it, and only of    *)
(* one.                                                                    *)
Provenance ==
  /\ \A j \in Jobs : jobs[j].status # "unborn" => \E r \in Requests : About(r, j)
  /\ \A r \in Requests : reqPc[r] \in {"purgeCancel", "purgeOutput"} => Contested(reqJob[r])
  /\ \A t \in Tasks : taskState[t] # "free" =>
       \E r \in Requests : About(r, taskJob[t]) /\ reqPc[r] \in Submitted
  /\ \A t, u \in Tasks :
       /\ t # u /\ taskState[t] # "free" /\ taskState[u] # "free"
       /\ taskJob[t] = taskJob[u]
       => Contested(taskJob[t])

(* A new task is enqueued by a request that has not enqueued any yet.      *)
Enqueued(r, t) ==
  /\ reqPc[r] \notin Submitted \cup {"idle"} /\ reqPc'[r] \in Submitted
  /\ taskState[t] = "free" /\ taskJob'[t] = reqJob[r]
  /\ \A u \in Tasks \ {t} : taskState'[u] = taskState[u] /\ taskJob'[u] = taskJob[u]

Known == \A t \in Tasks : taskState'[t] # "free" => taskState[t] # "free" /\ taskJob'[t] = taskJob[t]

LEMMA NewTasks ==
  ASSUME TypeOK, Wiring, [Next]_vars
  PROVE  Known \/ \E r \in Requests, t \in Tasks : Enqueued(r, t)
<1>0. ASSUME NEW t \in Tasks, taskState[t] # "free",
             RetryOrArchive(t) \/ Done(t) \/ Dequeue(t)
      PROVE  Known
  BY <1>0 DEF RetryOrArchive, Done, Dequeue, Known, TypeOK, QueueTypeOK
<1>1. UNCHANGED queueVars => Known
  BY DEF queueVars, Known
<1>2. ASSUME NEW r \in Requests, CreateEnqueue(r) \/ AutoEnqueue(r) \/ RetryEnqueue(r)
      PROVE  Known \/ \E t \in Tasks : Enqueued(r, t)
  <2>1. CASE UNCHANGED queueVars
    BY <1>1, <2>1
  <2>2. CASE ~UNCHANGED queueVars
    <3>1. /\ EnqueueJob(reqJob[r])
          /\ reqPc[r] \notin Submitted \cup {"idle"} /\ reqPc'[r] \in Submitted
      BY <1>2, <2>2
      DEF CreateEnqueue, AutoEnqueue, RetryEnqueue, Enqueue, Step, Submitted, TypeOK
    <3>2. PICK t \in Tasks :
            /\ taskState[t] = "free"
            /\ taskState' = [taskState EXCEPT ![t] = "queued"]
            /\ taskJob' = [taskJob EXCEPT ![t] = reqJob[r]]
      BY <3>1 DEF EnqueueJob
    <3>3. /\ taskJob'[t] = reqJob[r]
          /\ \A u \in Tasks \ {t} : taskState'[u] = taskState[u] /\ taskJob'[u] = taskJob[u]
      BY <3>2 DEF TypeOK, QueueTypeOK
    <3> QED BY <3>1, <3>2, <3>3 DEF Enqueued
  <2> QED BY <2>1, <2>2
<1>3. ASSUME NEW r \in Requests,
             \/ PurgeOutput(r) \/ CreateFail(r) \/ DeleteCancel(r)
             \/ DeleteRow(r) \/ RetryPending(r) \/ RetryProgress(r)
             \/ Create(r) \/ DeleteRead(r) \/ RetryRead(r)
      PROVE  Known
  <2>1. UNCHANGED queueVars
    BY <1>3 DEF PurgeOutput, CreateFail, DeleteCancel, DeleteRow, RetryPending,
                RetryProgress, Create, DeleteRead, RetryRead
  <2> QED BY <1>1, <2>1
<1>4. ASSUME NEW h \in Runs, HandleTranscode(h) PROVE Known
  <2>1. CASE RunRead(h) \/ RunReturn(h)
    <3>1. \/ UNCHANGED queueVars
          \/ attached[h] /\ (RetryOrArchive(runTask[h]) \/ Done(runTask[h]))
      BY <2>1 DEF RunRead, RunReturn
    <3>2. attached[h] => runTask[h] \in Tasks /\ taskState[runTask[h]] # "free"
      BY DEF Wiring
    <3> QED BY <1>0, <1>1, <3>1, <3>2
  <2>2. CASE ~RunRead(h) /\ ~RunReturn(h)
    <3>1. UNCHANGED queueVars
      BY <1>4, <2>2
      DEF HandleTranscode, RunMkdir, RunSetDownloading, RunDownload,
          RunSetTranscoding, RunThumbnail, RunTranscode, RunEncoded, RunSetUploading,
          RunUpload, RunUploaded, RunSetCompleted, RunSetFull, RunFail, RunNotify,
          RunSetStatus
    <3> QED BY <1>1, <3>1
  <2> QED BY <2>1, <2>2
<1>5. ASSUME NEW h \in Runs, Dispatch(h) PROVE Known
  <2>1. PICK t \in Tasks : Dequeue(t)
    BY <1>5 DEF Dispatch
  <2> QED BY <1>0, <2>1 DEF Dequeue
<1>6. ASSUME NEW h \in Runs, ReportProgress(h) \/ ReadingEnds(h) PROVE Known
  BY <1>1, <1>6 DEF ReportProgress, ReadingEnds
<1>7. ASSUME NEW h \in Runs, Deadline(h) PROVE Known
  <2>1. runTask[h] \in Tasks /\ taskState[runTask[h]] # "free"
    BY <1>7 DEF Deadline, Wiring
  <2> QED BY <1>0, <1>7, <2>1 DEF Deadline
<1>8. ASSUME NEW t \in Tasks, Recover(t) PROVE Known
  BY <1>0, <1>8 DEF Recover
<1>9. CASE UNCHANGED vars
  BY <1>1, <1>9 DEF vars
<1>10. ASSUME NEW n \in Nodes, Shutdown(n) PROVE Known
  <2>1. \A t \in Tasks : taskState'[t] # "free" => taskState[t] # "free" /\ taskJob'[t] = taskJob[t]
    BY <1>10, ShutdownHandsBack
  <2> QED BY <2>1 DEF Known
<1>11. ASSUME NEW n \in Nodes, ProcessEnds(n) PROVE Known
  BY <1>1, <1>11, ProcessLeaves
<1> QED
  BY <1>2, <1>3, <1>4, <1>5, <1>6, <1>7, <1>8, <1>9, <1>10, <1>11 DEF Next, RequestNext

LEMMA ProvenanceStep ==
  ASSUME TypeOK, Wiring, Provenance, [Next]_vars
  PROVE  Provenance'
<1>1. ASSUME NEW j \in Jobs, jobs'[j].status # "unborn"
      PROVE  \E r \in Requests : About(r, j)'
  <2>1. CASE jobs[j].status # "unborn"
    BY <2>1, AboutStays DEF Provenance
  <2>2. CASE jobs[j].status = "unborn"
    <3>1. jobs[j] \in Row /\ ~Exists(jobs[j])
      BY <2>2 DEF TypeOK, Exists, JobStatus, Active, Running, Settled
    <3>2. PICK r \in Requests : Begin(r, j, "createEnqueue") \/ Begin(r, j, "autoEnqueue")
      BY <1>1, <2>2, <3>1, OnlyStatements, StatementsAndStatus
    <3> QED BY <3>2 DEF Begin, About, TypeOK
  <2> QED BY <2>1, <2>2
<1>2. ASSUME NEW r \in Requests, reqPc'[r] \in {"purgeCancel", "purgeOutput"}
      PROVE  Contested(reqJob[r])'
  <2>1. CASE reqPc[r] \in {"purgeCancel", "purgeOutput"}
    <3>1. About(r, reqJob[r])
      BY <2>1 DEF About
    <3>2. reqJob'[r] = reqJob[r]
      BY <3>1, AboutStays DEF About
    <3>3. PICK j : j = reqJob[r]
      OBVIOUS
    <3>4. Contested(j)'
      BY <2>1, <3>3, AboutStays DEF Provenance
    <3> QED BY <3>2, <3>3, <3>4 DEF Contested, About
  <2>2. CASE reqPc[r] \notin {"purgeCancel", "purgeOutput"}
    <3>1. DeleteRead(r)
      <4>1. RequestNext(r)
        BY <1>2, <2>2, RequestsAreTheirOwn
      <4>2. \A from, to : Step(r, from, to) => from = reqPc[r] /\ to = reqPc'[r]
        BY DEF Step, TypeOK
      <4>3. \A j, to : Begin(r, j, to) => to = reqPc'[r]
        BY DEF Begin, TypeOK
      <4> QED
        BY <1>2, <2>2, <4>1, <4>2, <4>3
        DEF RequestNext, Create, CreateEnqueue, AutoEnqueue, RetryEnqueue, Enqueue, CreateFail,
            DeleteCancel, PurgeOutput, DeleteRow, RetryRead, RetryPending, RetryProgress
    <3>2. PICK j \in Jobs, to \in RequestPc \ {"idle"} : Exists(jobs[j]) /\ Begin(r, j, to)
      BY <3>1 DEF DeleteRead, RequestPc, Submitting
    <3>3. PICK q \in Requests : About(q, j)
      BY <3>2 DEF Provenance, Exists, JobStatus, Active, Running, Settled
    <3>4. q # r
      BY <3>2, <3>3 DEF Begin, About
    <3>5. About(q, j)' /\ About(r, j)' /\ reqJob'[r] = j
      BY <3>2, <3>3, AboutStays DEF Begin, About, TypeOK
    <3> QED BY <3>4, <3>5 DEF Contested, About
  <2> QED BY <2>1, <2>2
<1>3. ASSUME NEW t \in Tasks, taskState'[t] # "free"
      PROVE  \E r \in Requests : About(r, taskJob[t])' /\ reqPc'[r] \in Submitted
  <2>1. CASE taskState[t] # "free" /\ taskJob'[t] = taskJob[t]
    <3>1. PICK i : i = taskJob[t]
      OBVIOUS
    <3>2. PICK r \in Requests : About(r, i) /\ reqPc[r] \in Submitted
      BY <2>1, <3>1 DEF Provenance
    <3>3. About(r, i)' /\ reqPc'[r] \in Submitted
      BY <3>2, AboutStays
    <3> QED BY <2>1, <3>1, <3>3 DEF About
  <2>2. ASSUME NEW r \in Requests, Enqueued(r, t)
        PROVE  About(r, taskJob[t])' /\ reqPc'[r] \in Submitted
    <3>1. PICK i : i = reqJob[r]
      OBVIOUS
    <3>2. About(r, i)
      BY <2>2, <3>1 DEF Enqueued, About
    <3>3. About(r, i)'
      BY <3>2, AboutStays
    <3> QED BY <2>2, <3>1, <3>3 DEF Enqueued, About
  <2> QED BY <1>3, <2>1, <2>2, NewTasks DEF Known, Enqueued
<1>4. ASSUME NEW t \in Tasks, NEW u \in Tasks, t # u,
             taskState'[t] # "free", taskState'[u] # "free", taskJob'[t] = taskJob'[u]
      PROVE  Contested(taskJob[t])'
  <2>1. SUFFICES \E i : i = taskJob'[t] /\ Contested(i)'
    BY DEF Contested, About
  <2>2. ASSUME taskState[t] # "free", taskState[u] # "free",
               taskJob'[t] = taskJob[t], taskJob'[u] = taskJob[u]
        PROVE  \E i : i = taskJob'[t] /\ Contested(i)'
    <3>1. PICK i : i = taskJob[t]
      OBVIOUS
    <3>2. Contested(i)
      BY <1>4, <2>2, <3>1 DEF Provenance
    <3> QED BY <2>2, <3>1, <3>2, AboutStays
  <2>3. ASSUME NEW r \in Requests, NEW new \in Tasks, NEW old \in Tasks,
               Enqueued(r, new), old # new, taskState'[old] # "free",
               taskJob'[old] = taskJob'[new]
        PROVE  \E i : i = taskJob'[new] /\ Contested(i)'
    <3>1. PICK i : i = reqJob[r]
      OBVIOUS
    <3>2. taskState[old] # "free" /\ taskJob[old] = i
      BY <2>3, <3>1 DEF Enqueued
    <3>3. PICK q \in Requests : About(q, i) /\ reqPc[q] \in Submitted
      BY <3>2 DEF Provenance
    <3>4. About(r, i) /\ q # r
      BY <2>3, <3>1, <3>3 DEF Enqueued, About
    <3>5. Contested(i)
      BY <3>3, <3>4 DEF Contested
    <3> QED BY <2>3, <3>1, <3>5, AboutStays DEF Enqueued
  <2>4. CASE Known
    BY <1>4, <2>2, <2>4 DEF Known
  <2>5. ASSUME NEW r \in Requests, NEW v \in Tasks, Enqueued(r, v)
        PROVE  \E i : i = taskJob'[t] /\ Contested(i)'
    <3>1. CASE v = t
      BY <1>4, <2>3, <2>5, <3>1
    <3>2. CASE v = u
      BY <1>4, <2>3, <2>5, <3>2
    <3>3. CASE v # t /\ v # u
      BY <1>4, <2>2, <2>5, <3>3 DEF Enqueued
    <3> QED BY <3>1, <3>2, <3>3
  <2> QED BY <2>4, <2>5, NewTasks
<1> QED BY <1>1, <1>2, <1>3, <1>4 DEF Provenance

LEMMA ProvenanceHolds == Spec => []Provenance
<1>1. Init => Provenance
  BY DEF Init, QueueInit, Provenance, NoRow
<1> QED BY <1>1, ProvenanceStep, TypeCorrect, PTL DEF Spec

LEMMA TwoTasks ==
  ASSUME Wiring, Provenance,
         NEW g \in Runs, NEW h \in Runs, g # h, attached[g], attached[h], JobOf(g) = JobOf(h)
  PROVE  Contested(JobOf(g))
<1>1. /\ runTask[g] \in Tasks /\ taskState[runTask[g]] # "free"
      /\ runTask[h] \in Tasks /\ taskState[runTask[h]] # "free"
      /\ runTask[g] # runTask[h]
  BY DEF Wiring
<1> QED BY <1>1 DEF Provenance, JobOf

(* In every reachable state, two handlers of a job that the queue both     *)
(* waits for are there because of two requests (handler.go                 *)
(* HandleTranscode, worker.go EnqueueJob).                                 *)
THEOREM TurnsAreTaken == Spec => []HandlersTakeTurns
<1>1. Wiring /\ Provenance => HandlersTakeTurns
  BY TwoTasks DEF HandlersTakeTurns
<1> QED BY <1>1, ProvenanceHolds, TypeCorrect, PTL

-----------------------------------------------------------------------------
(* A job that is left alone.                                               *)

(* Without deadlines and shutdowns the queue waits for every handler.      *)
Awaited == \A h \in Runs : InFlight(h) => attached[h]

(* Overlaps and purges come from a second request.                         *)
Explained ==
  \A j \in Jobs : mishap[j] \cap {"overlap", "purged"} # {} => Contested(j)

LEMMA AwaitedStep ==
  ASSUME FaultKinds \cap {"deadline", "shutdown"} = {}, TypeOK, Wiring, Awaited, [Next]_vars
  PROVE  Awaited'
<1>1. UNCHANGED <<pc, attached>> => Awaited'
  BY DEF Awaited, InFlight
<1>2. ASSUME NEW h \in Runs, HandleTranscode(h) PROVE Awaited'
  <2>1. CASE RunRead(h) \/ RunReturn(h)
    <3>1. /\ pc[h] # "idle"
          /\ \/ \E to : pc' = [pc EXCEPT ![h] = to] /\ UNCHANGED attached
             \/ pc' = [pc EXCEPT ![h] = "idle"] /\ attached' = [attached EXCEPT ![h] = FALSE]
      BY <2>1 DEF RunRead, RunReturn, Goto
    <3> QED BY <3>1 DEF Awaited, InFlight, TypeOK
  <2>2. CASE ~RunRead(h) /\ ~RunReturn(h)
    <3>1. pc[h] # "idle" /\ UNCHANGED attached /\ \E to : pc' = [pc EXCEPT ![h] = to]
      BY <1>2, <2>2
      DEF HandleTranscode, RunMkdir, RunSetDownloading, RunDownload,
          RunSetTranscoding, RunThumbnail, RunTranscode, RunEncoded, RunSetUploading,
          RunUpload, RunUploaded, RunSetCompleted, RunSetFull, RunFail, RunNotify,
          RunSetStatus, Goto
    <3> QED BY <3>1 DEF Awaited, InFlight, TypeOK
  <2> QED BY <2>1, <2>2
<1>3. ASSUME NEW h \in Runs, Dispatch(h) PROVE Awaited'
  BY <1>3 DEF Dispatch, Goto, Awaited, InFlight, TypeOK
<1>4. ASSUME NEW h \in Runs, ReportProgress(h) \/ ReadingEnds(h) PROVE Awaited'
  BY <1>1, <1>4 DEF ReportProgress, ReadingEnds, runVars
<1>5. (\A h \in Runs : ~Deadline(h)) /\ (\A n \in Nodes : ~Shutdown(n))
  BY DEF Deadline, Shutdown, Fault
<1>6. ASSUME NEW r \in Requests, RequestNext(r) PROVE Awaited'
  <2>1. UNCHANGED runVars
    BY <1>6 DEF RequestNext, Create, CreateEnqueue, AutoEnqueue, CreateFail,
                DeleteRead, DeleteCancel, PurgeOutput, DeleteRow, RetryRead, RetryPending,
                RetryProgress, RetryEnqueue, Enqueue
  <2> QED BY <1>1, <2>1 DEF runVars
<1>7. ASSUME NEW t \in Tasks, Recover(t) PROVE Awaited'
  BY <1>1, <1>7 DEF Recover, runVars
<1>8. CASE UNCHANGED vars
  BY <1>1, <1>8 DEF vars, runVars
<1>9. ASSUME NEW n \in Nodes, ProcessEnds(n) PROVE Awaited'
  <2>1. \A h \in Runs : \/ pc'[h] = "idle"
                        \/ pc'[h] = pc[h] /\ attached'[h] = attached[h]
    BY <1>9, ProcessLeaves
  <2> QED BY <2>1 DEF Awaited, InFlight
<1> QED BY <1>2, <1>3, <1>4, <1>5, <1>6, <1>7, <1>8, <1>9 DEF Next

LEMMA ExplainedStep ==
  ASSUME TypeOK, Wiring, Provenance, Awaited, Explained, [Next]_vars
  PROVE  Explained'
<1> DEFINE Plain == {"lostEnqueue", "lostWrite", "lostRun", "late", "lostFull"}
<1>0. \A i \in Jobs : \A m \in SUBSET Mishap :
        Note(i, m) => /\ mishap'[i] = mishap[i] \cup m
                      /\ \A j \in Jobs \ {i} : mishap'[j] = mishap[j]
  BY DEF Note, TypeOK
<1>1. ASSUME \/ UNCHANGED mishap
             \/ \E i \in Jobs : \E m \in SUBSET Plain : Note(i, m)
      PROVE  Explained'
  <2>1. \A j \in Jobs : mishap'[j] \cap {"overlap", "purged"} = mishap[j] \cap {"overlap", "purged"}
    <3>1. CASE UNCHANGED mishap
      BY <3>1
    <3>2. ASSUME NEW i \in Jobs, NEW m \in SUBSET Plain, Note(i, m), NEW j \in Jobs
          PROVE  mishap'[j] \cap {"overlap", "purged"} = mishap[j] \cap {"overlap", "purged"}
      <4>1. m \in SUBSET Mishap /\ m \cap {"overlap", "purged"} = {}
        BY DEF Mishap
      <4>2. mishap'[j] = IF i = j THEN mishap[j] \cup m ELSE mishap[j]
        BY <1>0, <3>2, <4>1
      <4> QED BY <4>1, <4>2
    <3> QED BY <1>1, <3>1, <3>2
  <2> QED BY <2>1, AboutStays DEF Explained
<1>2. ASSUME NEW i \in Jobs, NEW m \in SUBSET Mishap, Note(i, m), Contested(i)
      PROVE  Explained'
  BY <1>0, <1>2, AboutStays DEF Explained
<1>3. ASSUME NEW r \in Requests, RequestNext(r) PROVE Explained'
  <2>0. reqPc[r] # "idle" => reqJob[r] \in Jobs
    BY DEF Wiring
  <2>1. CASE PurgeOutput(r)
    <3>1. Note(reqJob[r], {"purged"}) /\ reqPc[r] = "purgeOutput"
      BY <2>1 DEF PurgeOutput, Step
    <3>2. Contested(reqJob[r])
      BY <3>1 DEF Provenance
    <3> QED BY <1>2, <2>0, <3>1, <3>2 DEF Mishap
  <2>2. CASE CreateEnqueue(r) \/ AutoEnqueue(r) \/ RetryEnqueue(r)
    <3>1. /\ reqPc[r] # "idle"
          /\ UNCHANGED mishap \/ \E m \in {{}, {"lostEnqueue"}} : Note(reqJob[r], m)
      BY <2>2 DEF CreateEnqueue, AutoEnqueue, RetryEnqueue, Enqueue, Step
    <3> QED BY <1>1, <2>0, <3>1
  <2>3. CASE CreateFail(r) \/ DeleteCancel(r) \/ DeleteRow(r) \/ RetryPending(r) \/ RetryProgress(r)
    <3>1. /\ reqPc[r] # "idle"
          /\ UNCHANGED mishap \/ \E m \in {{}, {"lostWrite"}} : Note(reqJob[r], m)
      BY <2>3 DEF CreateFail, DeleteCancel, DeleteRow, RetryPending, RetryProgress, Write, Step
    <3> QED BY <1>1, <2>0, <3>1
  <2>4. CASE Create(r) \/ DeleteRead(r) \/ RetryRead(r)
    BY <1>1, <2>4 DEF Create, DeleteRead, RetryRead, history
  <2> QED BY <1>3, <2>1, <2>2, <2>3, <2>4 DEF RequestNext
<1>4. ASSUME NEW h \in Runs, HandleTranscode(h) PROVE Explained'
  <2>1. CASE RunSetDownloading(h) \/ RunSetTranscoding(h) \/ RunSetUploading(h)
             \/ RunSetCompleted(h) \/ RunSetFull(h) \/ RunFail(h)
    <3>1. /\ InFlight(h)
          /\ \/ UNCHANGED mishap
             \/ \E m \in {{}, {"lostWrite"}, {"lostFull"}} : Note(JobOf(h), m)
      BY <2>1 DEF RunSetDownloading, RunSetTranscoding, RunSetUploading, RunSetCompleted,
                  RunSetFull, RunFail, RunSetStatus, Write, Goto, InFlight
    <3> QED BY <1>1, <3>1, RunHasJob
  <2>2. CASE RunRead(h) \/ RunMkdir(h) \/ RunDownload(h) \/ RunThumbnail(h)
             \/ RunTranscode(h) \/ RunEncoded(h) \/ RunUpload(h) \/ RunUploaded(h)
             \/ RunNotify(h) \/ RunReturn(h)
    BY <1>1, <2>2 DEF RunRead, RunMkdir, RunDownload, RunThumbnail, RunTranscode, RunEncoded,
                RunUpload, RunUploaded, RunNotify, RunReturn, history
  <2> QED BY <1>4, <2>1, <2>2 DEF HandleTranscode
<1>5. ASSUME NEW h \in Runs, Dispatch(h) PROVE Explained'
  <2>1. PICK t \in Tasks :
          /\ taskState[t] = "queued"
          /\ Note(taskJob[t],
                  IF \E g \in Runs : InFlight(g) /\ JobOf(g) = taskJob[t]
                  THEN {"overlap"} ELSE {})
    BY <1>5 DEF Dispatch, Dequeue
  <2>2. taskJob[t] \in Jobs
    BY <2>1 DEF Wiring
  <2>3. CASE \E g \in Runs : InFlight(g) /\ JobOf(g) = taskJob[t]
    <3>1. PICK g \in Runs : InFlight(g) /\ JobOf(g) = taskJob[t]
      BY <2>3
    <3>2. runTask[g] \in Tasks /\ taskState[runTask[g]] = "active"
      BY <3>1, RunHasJob DEF Awaited, Wiring
    <3>3. Contested(taskJob[t])
      BY <2>1, <3>1, <3>2 DEF Provenance, JobOf
    <3> QED BY <1>2, <2>1, <2>2, <2>3, <3>3 DEF Mishap
  <2>4. CASE ~ \E g \in Runs : InFlight(g) /\ JobOf(g) = taskJob[t]
    BY <1>1, <2>1, <2>2, <2>4
  <2> QED BY <2>3, <2>4
<1>6. ASSUME NEW h \in Runs, ReportProgress(h) \/ ReadingEnds(h) PROVE Explained'
  <2>1. JobOf(h) \in Jobs
    BY <1>6, RunHasJob DEF ReportProgress, ReadingEnds
  <2>2. UNCHANGED mishap \/ \E m \in {{}, {"late"}} : Note(JobOf(h), m)
    BY <1>6 DEF ReportProgress, ReadingEnds, history
  <2> QED BY <1>1, <2>1, <2>2
<1>7. /\ \A h \in Runs : Deadline(h) => Explained'
      /\ \A n \in Nodes : Shutdown(n) => Explained'
  BY <1>1 DEF Deadline, Shutdown, history
<1>8. ASSUME NEW t \in Tasks, Recover(t) PROVE Explained'
  BY <1>1, <1>8 DEF Recover, history
<1>9. CASE UNCHANGED vars
  BY <1>1, <1>9 DEF vars, history
<1>10. ASSUME NEW n \in Nodes, ProcessEnds(n) PROVE Explained'
  <2>1. \A j \in Jobs : mishap'[j] \cap {"overlap", "purged"} \subseteq mishap[j] \cap {"overlap", "purged"}
    BY <1>10, ProcessLeaves
  <2> QED BY <2>1, AboutStays DEF Explained
<1> QED BY <1>3, <1>4, <1>5, <1>6, <1>7, <1>8, <1>9, <1>10 DEF Next

(* A job that says completed and that no second request has touched.       *)
LeftAloneIsDelivered ==
  \A j \in Jobs : jobs[j].status = "completed" /\ ~Contested(j) => stored[j] = "full"

(* Where tasks neither run out of time nor are put back by a shutdown, all *)
(* of the output of a job that is left alone is there once it says         *)
(* completed, whatever statements fail and however often its workers crash *)
(* (handler.go HandleTranscode).                                           *)
THEOREM CompletedIsDelivered ==
  ASSUME FaultKinds \cap {"deadline", "shutdown"} = {}
  PROVE  Spec => []LeftAloneIsDelivered
<1>1. Init => Awaited /\ Explained
  BY DEF Init, Awaited, Explained, InFlight
<1>2. TypeOK /\ Wiring /\ Provenance /\ Awaited /\ Explained /\ [Next]_vars
        => (Awaited /\ Explained)'
  BY AwaitedStep, ExplainedStep
<1>3. CompletedHasOutput /\ Explained => LeftAloneIsDelivered
  BY DEF CompletedHasOutput, Explained, LeftAloneIsDelivered
<1> QED
  BY <1>1, <1>2, <1>3, ProvenanceHolds, TypeCorrect, CompletedIsThere, PTL DEF Spec

-----------------------------------------------------------------------------
(* News of a job that is left to itself.                                   *)

LeftToItself(j) == ~Contested(j) /\ mishap[j] \cap {"overlap", "lostWrite"} = {}

(* The event sent for such a job is that of its outcome, but for a job     *)
(* that completed although its submitter was told that the queue had       *)
(* refused it, and has failed it for that.                                 *)
NewsIsTrue ==
  \A e \in events : LeftToItself(e.job) =>
    \/ e.event = "job.completed" /\ e.outcome = "completed"
    \/ e.event = "job.failed" /\ (e.outcome = "failed" \/ "enqueue" \in FaultKinds)

(* What the row says once a handler has settled it.                        *)
SaysOutcome(h) ==
  /\ pc[h] = "notifyFailed" => jobs[JobOf(h)].status = "failed"
  /\ pc[h] \in {"setFull", "notifyCompleted"} =>
       \/ jobs[JobOf(h)].status = "completed"
       \/ jobs[JobOf(h)].status = "failed" /\ "enqueue" \in FaultKinds

RowsSayOutcome ==
  \A h \in Runs :
    InFlight(h) /\ LeftToItself(JobOf(h)) /\ Exists(jobs[JobOf(h)]) => SaysOutcome(h)

Refusals == \A r \in Requests : reqPc[r] = "createFail" => "enqueue" \in FaultKinds

LEMMA RefusalsStep ==
  ASSUME TypeOK, Wiring, Refusals, [Next]_vars
  PROVE  Refusals'
<1> SUFFICES ASSUME NEW r \in Requests, reqPc'[r] = "createFail", reqPc[r] # "createFail"
             PROVE  "enqueue" \in FaultKinds
  BY DEF Refusals
<1>1. RequestNext(r)
  BY RequestsAreTheirOwn
<1>2. \A from, to : Step(r, from, to) => to = "createFail"
  BY DEF Step, TypeOK
<1>3. \A j, to : Begin(r, j, to) => to = "createFail"
  BY DEF Begin, TypeOK
<1>4. CreateEnqueue(r)
  BY <1>1, <1>2, <1>3
  DEF RequestNext, Create, AutoEnqueue, RetryEnqueue, Enqueue, CreateFail, DeleteRead,
      DeleteCancel, PurgeOutput, DeleteRow, RetryRead, RetryPending, RetryProgress
<1> QED BY <1>2, <1>4 DEF CreateEnqueue, Enqueue, Fault

LEMMA LeftToItselfBefore ==
  ASSUME TypeOK, Wiring, Next, NEW j \in Jobs, LeftToItself(j)'
  PROVE  LeftToItself(j)
<1>1. mishap[j] \subseteq mishap'[j]
  BY StrandedStays
<1>2. Contested(j) => Contested(j)'
  BY AboutStays
<1> QED BY <1>1, <1>2 DEF LeftToItself

(* The only request about a job that is left to itself and has a handler   *)
(* is its submission, which may still fail it.                             *)
LEMMA SubmitterMayFail ==
  ASSUME TypeOK, Wiring, Provenance, Refusals, Next,
         NEW r \in Requests, RequestNext(r),
         NEW h \in Runs, InFlight(h), NEW i \in Jobs, JobOf(h) = i, LeftToItself(i)'
  PROVE  \/ jobs'[i] = jobs[i]
         \/ jobs'[i] = UpdateJobError(jobs[i]) /\ "enqueue" \in FaultKinds
<1>1. runTask[h] \in Tasks /\ taskState[runTask[h]] # "free"
  BY DEF Wiring
<1>2. PICK q \in Requests : About(q, i) /\ reqPc[q] \in Submitted
  BY <1>1 DEF Provenance, JobOf
<1>3. About(q, i)' /\ ~Contested(i)'
  BY <1>2, AboutStays DEF LeftToItself
<1>4. About(r, i)' => r = q
  BY <1>3 DEF Contested
<1>5. About(r, i) => About(r, i)'
  BY AboutStays
<1>6. CASE Create(r)
  <2>1. PICK k \in Jobs, to \in {"createEnqueue", "autoEnqueue"} :
          Begin(r, k, to) /\ jobs' = [jobs EXCEPT ![k] = CreateJob]
    BY <1>6 DEF Create
  <2>2. k # i
    BY <1>2, <1>4, <2>1 DEF Begin, About, Submitted, TypeOK
  <2> QED BY <2>1, <2>2 DEF TypeOK
<1>7. CASE UNCHANGED jobs
  BY <1>7
<1>8. ASSUME NEW row, NEW loss, Write(reqJob[r], row, loss), reqPc[r] # "idle",
             reqJob[r] = i => /\ reqPc[r] = "createFail"
                              /\ row = UpdateJobError(jobs[i])
      PROVE  \/ jobs'[i] = jobs[i]
             \/ jobs'[i] = UpdateJobError(jobs[i]) /\ "enqueue" \in FaultKinds
  BY <1>8 DEF Write, Refusals, TypeOK
<1>9. reqPc[r] # "idle" /\ reqJob[r] = i => reqPc[r] \in Submitted
  BY <1>2, <1>4, <1>5 DEF About
<1>10. CASE CreateFail(r)
  BY <1>8, <1>10 DEF CreateFail, Step
<1>11. CASE DeleteCancel(r) \/ DeleteRow(r) \/ RetryPending(r) \/ RetryProgress(r)
  <2>1. reqPc[r] \notin Submitted \cup {"idle"}
    BY <1>11 DEF DeleteCancel, DeleteRow, RetryPending, RetryProgress, Step, Submitted
  <2> QED
    BY <1>8, <1>9, <1>11, <2>1 DEF DeleteCancel, DeleteRow, RetryPending, RetryProgress
<1> QED
  BY <1>6, <1>7, <1>10, <1>11
  DEF RequestNext, CreateEnqueue, AutoEnqueue, RetryEnqueue, Enqueue,
      DeleteRead, PurgeOutput, RetryRead

(* A handler that goes no further finds the row as it was, or failed by    *)
(* the submitter.                                                          *)
LEMMA OutcomeStays ==
  ASSUME TypeOK, RowsSayOutcome, NEW h \in Runs, InFlight(h), NEW i \in Jobs, JobOf(h) = i,
         LeftToItself(i), Exists(jobs'[i]), pc'[h] = pc[h], JobOf(h)' = i,
         \/ jobs'[i].status = jobs[i].status
         \/ jobs'[i] = UpdateJobError(jobs[i]) /\ "enqueue" \in FaultKinds
  PROVE  SaysOutcome(h)'
<1>1. jobs[i] \in Row
  BY DEF TypeOK
<1>2. Exists(jobs[i])
  BY <1>1 DEF Exists, UpdateJobError
<1>3. SaysOutcome(h)
  BY <1>2 DEF RowsSayOutcome
<1>4. UpdateJobError(jobs[i]).status = "failed"
  BY <1>1, <1>2, StatementsAndStatus
<1> QED BY <1>3, <1>4 DEF SaysOutcome

(* A statement of handler h about its own row, and what it says then.      *)
LEMMA OutcomeSaid ==
  ASSUME TypeOK, Wiring, RowsSayOutcome, Next, NEW h \in Runs, HandleTranscode(h),
         InFlight(h)', NEW i \in Jobs, JobOf(h) = i, JobOf(h)' = i,
         LeftToItself(i)', Exists(jobs'[i])
  PROVE  SaysOutcome(h)'
<1>0. LeftToItself(i) /\ jobs[i] \in Row
  BY LeftToItselfBefore DEF TypeOK
<1>1. \A row, loss : Write(i, row, loss) =>
        jobs'[i] = row \/ (jobs'[i] = jobs[i] /\ loss \subseteq mishap'[i])
  BY DEF Write, Note, TypeOK
<1>2. CASE RunSetCompleted(h)
  <2>1. /\ Write(i, UpdateJobStatus(jobs[i], "completed"), {"lostWrite"})
        /\ pc'[h] = "setFull"
    BY <1>2 DEF RunSetCompleted, RunSetStatus, Goto, TypeOK
  <2>2. jobs'[i] = UpdateJobStatus(jobs[i], "completed")
    BY <1>1, <2>1 DEF LeftToItself
  <2>3. jobs'[i].status = "completed"
    BY <1>0, <2>2, StatementsAndStatus DEF Exists, JobStatus, Settled
  <2> QED BY <2>1, <2>3 DEF SaysOutcome
<1>3. CASE RunFail(h)
  <2>1. Write(i, UpdateJobError(jobs[i]), {"lostWrite"}) /\ pc'[h] = "notifyFailed"
    BY <1>3 DEF RunFail, Goto, TypeOK
  <2>2. jobs'[i] = UpdateJobError(jobs[i])
    BY <1>1, <2>1 DEF LeftToItself
  <2>3. jobs'[i].status = "failed"
    BY <1>0, <2>2, StatementsAndStatus DEF Exists
  <2> QED BY <2>1, <2>3 DEF SaysOutcome
<1>4. CASE RunSetFull(h)
  <2>1. /\ Write(i, UpdateJobProgress(jobs[i], 100), {"lostFull"})
        /\ pc[h] = "setFull" /\ pc'[h] = "notifyCompleted"
    BY <1>4 DEF RunSetFull, Goto, TypeOK
  <2>2. jobs'[i].status = jobs[i].status
    BY <1>0, <1>1, <2>1, StatementsAndStatus DEF Progress
  <2>3. SaysOutcome(h)
    BY <1>0, <2>1, <2>2 DEF RowsSayOutcome, InFlight, Exists
  <2> QED BY <2>1, <2>2, <2>3 DEF SaysOutcome
<1>5. CASE ~RunSetCompleted(h) /\ ~RunFail(h) /\ ~RunSetFull(h)
  <2>1. pc'[h] \notin {"setFull", "notifyCompleted", "notifyFailed"}
    BY <1>5
    DEF HandleTranscode, RunRead, RunMkdir, RunSetDownloading, RunDownload,
        RunSetTranscoding, RunThumbnail, RunTranscode, RunEncoded, RunSetUploading,
        RunUpload, RunUploaded, RunNotify, RunReturn, RunSetStatus, Goto, TypeOK
  <2> QED BY <2>1 DEF SaysOutcome
<1> QED BY <1>2, <1>3, <1>4, <1>5

LEMMA HandlerConcerns ==
  ASSUME TypeOK, Wiring, NEW h \in Runs, HandleTranscode(h)
  PROVE  /\ InFlight(h)
         /\ \A g \in Runs \ {h} : pc'[g] = pc[g]
         /\ \A j \in Jobs : j # JobOf(h) => jobs'[j] = jobs[j]
         /\ UNCHANGED <<runTask, taskJob>>
<1>1. InFlight(h)
  BY DEF HandleTranscode, RunRead, RunMkdir, RunSetDownloading, RunDownload,
         RunSetTranscoding, RunThumbnail, RunTranscode, RunEncoded, RunSetUploading,
         RunUpload, RunUploaded, RunSetCompleted, RunSetFull, RunFail, RunNotify,
         RunReturn, RunSetStatus, Goto, InFlight
<1>2. \A g \in Runs \ {h} : pc'[g] = pc[g]
  BY DEF HandleTranscode, RunRead, RunMkdir, RunSetDownloading, RunDownload,
         RunSetTranscoding, RunThumbnail, RunTranscode, RunEncoded, RunSetUploading,
         RunUpload, RunUploaded, RunSetCompleted, RunSetFull, RunFail, RunNotify,
         RunReturn, RunSetStatus, Goto, TypeOK
<1>3. \A j \in Jobs : j # JobOf(h) => jobs'[j] = jobs[j]
  BY DEF HandleTranscode, RunRead, RunMkdir, RunSetDownloading, RunDownload,
         RunSetTranscoding, RunThumbnail, RunTranscode, RunEncoded, RunSetUploading,
         RunUpload, RunUploaded, RunSetCompleted, RunSetFull, RunFail, RunNotify,
         RunReturn, RunSetStatus, Write, TypeOK
<1>4. UNCHANGED <<runTask, taskJob>>
  BY DEF HandleTranscode, RunRead, RunMkdir, RunSetDownloading, RunDownload,
         RunSetTranscoding, RunThumbnail, RunTranscode, RunEncoded, RunSetUploading,
         RunUpload, RunUploaded, RunSetCompleted, RunSetFull, RunFail, RunNotify,
         RunReturn, RunSetStatus, Goto, RetryOrArchive, Done, queueVars
<1> QED BY <1>1, <1>2, <1>3, <1>4

LEMMA RowsSayOutcomeStep ==
  ASSUME TypeOK, Wiring, Provenance, Alone, Refusals, RowsSayOutcome, Next
  PROVE  RowsSayOutcome'
<1> SUFFICES ASSUME NEW h \in Runs, InFlight(h)', LeftToItself(JobOf(h))',
                    Exists(jobs'[JobOf(h)'])
             PROVE  SaysOutcome(h)'
  BY DEF RowsSayOutcome, LeftToItself, Contested, About
<1>0. ASSUME InFlight(h), JobOf(h)' = JobOf(h), pc'[h] = pc[h], NEW i \in Jobs, JobOf(h) = i,
             \/ jobs'[i].status = jobs[i].status
             \/ jobs'[i] = UpdateJobError(jobs[i]) /\ "enqueue" \in FaultKinds
      PROVE  SaysOutcome(h)'
  <2>1. LeftToItself(i)'
    BY <1>0 DEF LeftToItself, Contested, About
  <2>2. LeftToItself(i)
    BY <2>1, LeftToItselfBefore
  <2> QED BY <1>0, <2>2, OutcomeStays
<1>1. ASSUME NEW r \in Requests, RequestNext(r) PROVE SaysOutcome(h)'
  <2>1. UNCHANGED <<pc, runTask>>
    BY <1>1
    DEF RequestNext, Create, CreateEnqueue, AutoEnqueue, RetryEnqueue, Enqueue,
        CreateFail, DeleteRead, DeleteCancel, PurgeOutput, DeleteRow, RetryRead, RetryPending,
        RetryProgress, runVars
  <2>2. InFlight(h)
    BY <2>1 DEF InFlight
  <2>3. runTask[h] \in Tasks /\ taskState[runTask[h]] # "free"
    BY <2>2 DEF Wiring
  <2>4. PICK i \in Jobs : JobOf(h) = i
    BY <2>2, RunHasJob
  <2>5. JobOf(h)' = i
    BY <2>1, <2>3, <2>4, StrandedStays DEF JobOf
  <2>6. LeftToItself(i)'
    BY <2>5 DEF LeftToItself, Contested, About
  <2> QED BY <1>0, <1>1, <2>1, <2>2, <2>4, <2>5, <2>6, SubmitterMayFail
<1>2. ASSUME NEW g \in Runs, HandleTranscode(g) PROVE SaysOutcome(h)'
  <2>1. /\ InFlight(g) /\ UNCHANGED <<runTask, taskJob>>
        /\ \A f \in Runs \ {g} : pc'[f] = pc[f]
        /\ \A j \in Jobs : j # JobOf(g) => jobs'[j] = jobs[j]
    BY <1>2, HandlerConcerns
  <2>2. InFlight(h) /\ JobOf(h)' = JobOf(h)
    BY <2>1 DEF InFlight, JobOf
  <2>3. PICK i \in Jobs : JobOf(h) = i
    BY <2>2, RunHasJob
  <2>4. LeftToItself(i)'
    BY <2>2, <2>3 DEF LeftToItself, Contested, About
  <2>5. CASE g = h
    BY <1>2, <2>2, <2>3, <2>4, <2>5, OutcomeSaid
  <2>6. CASE g # h
    <3>1. LeftToItself(i)
      BY <2>4, LeftToItselfBefore
    <3>2. JobOf(g) # i
      BY <2>1, <2>2, <2>3, <2>6, <3>1 DEF Alone, LeftToItself
    <3> QED BY <1>0, <2>1, <2>2, <2>3, <2>6, <3>2
  <2> QED BY <2>5, <2>6
<1>3. ASSUME NEW g \in Runs, Dispatch(g) PROVE SaysOutcome(h)'
  <2>1. PICK t \in Tasks : Goto(g, "idle", "read") /\ runTask' = [runTask EXCEPT ![g] = t]
    BY <1>3 DEF Dispatch
  <2>2. UNCHANGED <<jobs, taskJob>>
    BY <1>3 DEF Dispatch, Dequeue
  <2>3. CASE g = h
    BY <2>1, <2>3 DEF Goto, SaysOutcome, TypeOK
  <2>4. CASE g # h
    <3>1. pc'[h] = pc[h] /\ JobOf(h)' = JobOf(h)
      BY <2>1, <2>2, <2>4 DEF Goto, JobOf, TypeOK
    <3>2. InFlight(h)
      BY <3>1 DEF InFlight
    <3>3. JobOf(h) \in Jobs
      BY <3>2, RunHasJob
    <3> QED BY <1>0, <2>2, <3>1, <3>2, <3>3
  <2> QED BY <2>3, <2>4
<1>4. ASSUME UNCHANGED <<runTask, taskJob>>, pc'[h] = pc[h] \/ pc'[h] = "idle",
             \A j \in Jobs : jobs'[j].status = jobs[j].status
      PROVE  SaysOutcome(h)'
  <2>1. InFlight(h) /\ pc'[h] = pc[h] /\ JobOf(h)' = JobOf(h)
    BY <1>4 DEF InFlight, JobOf
  <2>2. JobOf(h) \in Jobs
    BY <2>1, RunHasJob
  <2> QED BY <1>0, <1>4, <2>1, <2>2
<1>5. ASSUME NEW g \in Runs, ReportProgress(g) PROVE SaysOutcome(h)'
  <2>1. JobOf(g) \in Jobs /\ jobs[JobOf(g)] \in Row
    BY <1>5, RunHasJob DEF ReportProgress, TypeOK
  <2>2. PICK p \in Progress :
          jobs' = [jobs EXCEPT ![JobOf(g)] = UpdateJobProgress(jobs[JobOf(g)], p)]
    BY <1>5 DEF ReportProgress
  <2>3. \A j \in Jobs : jobs'[j].status = jobs[j].status
    BY <2>1, <2>2, StatementsAndStatus DEF TypeOK
  <2> QED BY <1>4, <1>5, <2>3 DEF ReportProgress, runVars, queueVars
<1>6. ASSUME \/ \E g \in Runs : ReadingEnds(g) \/ Deadline(g)
             \/ \E n \in Nodes : Shutdown(n) \/ ProcessEnds(n)
      PROVE  SaysOutcome(h)'
  <2>1. UNCHANGED <<jobs, runTask, taskJob>>
    BY <1>6 DEF ReadingEnds, Deadline, Shutdown, ProcessEnds, RetryOrArchive, Requeue, queueVars
  <2>2. pc'[h] = pc[h] \/ pc'[h] = "idle"
    BY <1>6 DEF ReadingEnds, Deadline, Shutdown, ProcessEnds, TypeOK
  <2> QED BY <1>4, <2>1, <2>2
<1>7. ASSUME NEW t \in Tasks, Recover(t) PROVE SaysOutcome(h)'
  BY <1>4, <1>7 DEF Recover, RetryOrArchive, runVars
<1> QED BY <1>1, <1>2, <1>3, <1>5, <1>6, <1>7 DEF Next

LEMMA NewsStep ==
  ASSUME TypeOK, Wiring, RowsSayOutcome, NewsIsTrue, Next
  PROVE  NewsIsTrue'
<1>1. ASSUME NEW e \in events, LeftToItself(e.job)'
      PROVE  \/ e.event = "job.completed" /\ e.outcome = "completed"
             \/ e.event = "job.failed" /\ (e.outcome = "failed" \/ "enqueue" \in FaultKinds)
  <2>1. e.job \in Jobs
    BY DEF TypeOK, Event
  <2>2. PICK i \in Jobs : i = e.job
    BY <2>1
  <2>3. LeftToItself(i)
    BY <1>1, <2>2, LeftToItselfBefore
  <2> QED BY <2>2, <2>3 DEF NewsIsTrue
<1>2. CASE UNCHANGED events
  BY <1>1, <1>2 DEF NewsIsTrue, LeftToItself, Contested, About
<1>3. ASSUME NEW h \in Runs, RunNotify(h), ~UNCHANGED events PROVE NewsIsTrue'
  <2>1. PICK i \in Jobs : i = JobOf(h)
    BY <1>3, RunHasJob DEF RunNotify, Goto, InFlight
  <2>2. PICK e : e = [job |-> i,
                      outcome |-> IF pc[h] = "notifyFailed" THEN "failed" ELSE "completed",
                      event |-> EventOf(jobs[i])]
    OBVIOUS
  <2>3. /\ events' = events \cup {e}
        /\ Exists(jobs[i])
        /\ pc[h] \in {"notifyCompleted", "notifyFailed"}
    BY <1>3, <2>1, <2>2 DEF RunNotify, Goto
  <2>4. ASSUME LeftToItself(i)'
        PROVE  \/ e.event = "job.completed" /\ e.outcome = "completed"
               \/ e.event = "job.failed" /\ (e.outcome = "failed" \/ "enqueue" \in FaultKinds)
    <3>1. LeftToItself(i)
      BY <2>4, LeftToItselfBefore
    <3>2. SaysOutcome(h)
      BY <2>1, <2>3, <3>1 DEF RowsSayOutcome, InFlight
    <3> QED BY <2>1, <2>2, <2>3, <3>2 DEF SaysOutcome, EventOf
  <2>5. e.job = i
    BY <2>2
  <2> QED BY <1>1, <2>3, <2>4, <2>5 DEF NewsIsTrue, LeftToItself, Contested, About
<1>4. UNCHANGED events \/ \E h \in Runs : RunNotify(h)
  <2>1. ASSUME NEW r \in Requests, RequestNext(r) PROVE UNCHANGED events
    BY <2>1
    DEF RequestNext, Create, CreateEnqueue, AutoEnqueue, RetryEnqueue, Enqueue,
        CreateFail, DeleteRead, DeleteCancel, PurgeOutput, DeleteRow, RetryRead, RetryPending,
        RetryProgress, history
  <2>2. ASSUME NEW h \in Runs, HandleTranscode(h) PROVE UNCHANGED events \/ RunNotify(h)
    BY <2>2
    DEF HandleTranscode, RunRead, RunMkdir, RunSetDownloading, RunDownload,
        RunSetTranscoding, RunThumbnail, RunTranscode, RunEncoded, RunSetUploading,
        RunUpload, RunUploaded, RunSetCompleted, RunSetFull, RunFail, RunReturn,
        RunSetStatus, history
  <2>3. ASSUME \/ \E h \in Runs : \/ Dispatch(h) \/ ReportProgress(h) \/ ReadingEnds(h)
                                  \/ Deadline(h)
               \/ \E n \in Nodes : Shutdown(n) \/ ProcessEnds(n)
               \/ \E t \in Tasks : Recover(t)
        PROVE  UNCHANGED events
    BY <2>3 DEF Dispatch, ReportProgress, ReadingEnds, Deadline, Shutdown, ProcessEnds, Recover,
                history
  <2> QED BY <2>1, <2>2, <2>3 DEF Next
<1> QED BY <1>2, <1>3, <1>4

(* What is left of the documentation's job.completed: at any number of     *)
(* jobs, handlers and faults, the event sent for a job that no second      *)
(* request touches, whose handlers do not overlap and whose settling       *)
(* statements are not lost says how its run ended (handler.go              *)
(* HandleTranscode, failJob; webhook.go NotifyJobComplete).                *)
THEOREM NewsOfOneRunIsTrue == Spec => []NewsIsTrue
<1> DEFINE Inv == Refusals /\ RowsSayOutcome /\ NewsIsTrue
<1>1. Init => Inv
  BY DEF Init, Refusals, RowsSayOutcome, NewsIsTrue, InFlight
<1>2. ASSUME TypeOK, Wiring, Provenance, Alone, Inv, [Next]_vars PROVE Inv'
  <2>1. CASE Next
    BY <1>2, <2>1, RefusalsStep, RowsSayOutcomeStep, NewsStep
  <2>2. CASE UNCHANGED vars
    BY <1>2, <2>2
    DEF vars, runVars, requestVars, queueVars, history, Refusals, RowsSayOutcome, NewsIsTrue,
        InFlight, JobOf, SaysOutcome, LeftToItself, Contested, About
  <2> QED BY <1>2, <2>1, <2>2
<1>3. OutputInv => Alone
  BY DEF OutputInv
<1>4. Inv => NewsIsTrue
  OBVIOUS
<1> QED
  BY <1>1, <1>2, <1>3, <1>4, OutputHolds, ProvenanceHolds, TypeCorrect, PTL DEF Spec
=============================================================================
