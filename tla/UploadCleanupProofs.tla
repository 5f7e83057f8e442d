------------------------- MODULE UploadCleanupProofs -------------------------
(* Theorems about UploadCleanup for any number of videos, jobs, handlers,  *)
(* requests and incidents, and for any template.                           *)
EXTENDS UploadCleanup, SequenceTheorems, TLAPS

USE NoJobAssumption, BoundAssumption

-----------------------------------------------------------------------------
(* What a step may do to the rows.                                         *)

LEMMA IncidentType ==
  ASSUME TypeOK, NEW kind, Incident(kind)
  PROVE  incidents' \in 0 .. MaxIncidents
BY DEF Incident, TypeOK

(* UpdateJobStatus changes the status of one row, if it exists.            *)
LEMMA UpdateStep ==
  ASSUME TypeOK, NEW j \in Jobs, NEW s \in Status, UpdateJobStatus(j, s)
  PROVE  /\ jobs' \in [Jobs -> Row]
         /\ \A i \in Jobs :
              /\ jobs'[i].video = jobs[i].video
              /\ jobs'[i].tasks = jobs[i].tasks
              /\ i # j => jobs'[i].status = jobs[i].status
         /\ jobs'[j].status = IF Exists(j) THEN s ELSE jobs[j].status
<1>0. jobs \in [Jobs -> Row] /\ jobs[j] \in Row
  BY DEF TypeOK
<1>1. CASE Exists(j)
  <2>1. jobs' = [jobs EXCEPT ![j] = [jobs[j] EXCEPT !.status = s]]
    BY <1>1 DEF UpdateJobStatus
  <2> QED BY <1>0, <1>1, <2>1 DEF Row
<1>2. CASE ~Exists(j)
  BY <1>0, <1>2 DEF UpdateJobStatus
<1> QED BY <1>1, <1>2

(* The rows after a step: a job keeps its video, none comes back, and only *)
(* one that was inserted has a task.                                       *)
RowsKept ==
  /\ jobs' \in [Jobs -> Row]
  /\ \A j \in Jobs :
       /\ jobs[j].status # "unborn" => /\ jobs'[j].status # "unborn"
                                       /\ jobs'[j].video = jobs[j].video
       /\ jobs'[j].status # "unborn" => jobs'[j].video \in Videos
       /\ jobs'[j].tasks > 0 => jobs'[j].status # "unborn"

LEMMA SameRows ==
  ASSUME TypeOK, UNCHANGED jobs
  PROVE  RowsKept
BY DEF TypeOK, RowsKept

LEMMA UpdatedRows ==
  ASSUME TypeOK, NEW j \in Jobs, jobs[j].status # "unborn",
         NEW s \in Status \ {"unborn"}, UpdateJobStatus(j, s)
  PROVE  RowsKept
<1>1. /\ jobs' \in [Jobs -> Row]
      /\ \A i \in Jobs :
           /\ jobs'[i].video = jobs[i].video
           /\ jobs'[i].tasks = jobs[i].tasks
           /\ i # j => jobs'[i].status = jobs[i].status
      /\ jobs'[j].status = IF Exists(j) THEN s ELSE jobs[j].status
  BY UpdateStep
<1>2. \A i \in Jobs : jobs[i].status # "unborn" => jobs[i].video \in Videos
  BY DEF TypeOK
<1>3. \A i \in Jobs : jobs[i].tasks > 0 => jobs[i].status # "unborn"
  BY DEF TypeOK
<1>4. jobs'[j].status # "unborn"
  BY <1>1 DEF Exists
<1>5. ASSUME NEW i \in Jobs
      PROVE  /\ jobs[i].status # "unborn" => /\ jobs'[i].status # "unborn"
                                             /\ jobs'[i].video = jobs[i].video
             /\ jobs'[i].status # "unborn" => jobs'[i].video \in Videos
             /\ jobs'[i].tasks > 0 => jobs'[i].status # "unborn"
  <2>0. /\ jobs'[i].video = jobs[i].video
        /\ jobs'[i].tasks = jobs[i].tasks
        /\ i # j => jobs'[i].status = jobs[i].status
    BY <1>1
  <2>1. CASE i = j
    <3>1. jobs'[i].status # "unborn" /\ jobs[i].status # "unborn"
      BY <2>1, <1>4
    <3>2. jobs[i].video \in Videos
      BY <3>1, <1>2
    <3> QED BY <3>1, <3>2, <2>0
  <2>2. CASE i # j
    <3>1. jobs'[i].status = jobs[i].status
      BY <2>0, <2>2
    <3> QED BY <3>1, <2>0, <1>2, <1>3
  <2> QED BY <2>1, <2>2
<1> QED BY <1>1, <1>5 DEF RowsKept

LEMMA ScanRows ==
  ASSUME TypeOK, ScanCheck
  PROVE  RowsKept
<1>0. jobs \in [Jobs -> Row] /\ listed \subseteq Videos
  BY DEF TypeOK
<1>1. CASE UNCHANGED jobs
  BY <1>1, SameRows
<1>2. CASE \E v \in listed, j \in Jobs :
             /\ jobs[j].status = "unborn"
             /\ jobs' = [jobs EXCEPT ![j] =
                           [status |-> "pending", video |-> v, tasks |-> 1]]
  <2>1. PICK v \in listed, j \in Jobs :
             /\ jobs[j].status = "unborn"
             /\ jobs' = [jobs EXCEPT ![j] =
                           [status |-> "pending", video |-> v, tasks |-> 1]]
    BY <1>2
  <2>2. [status |-> "pending", video |-> v, tasks |-> 1] \in Row
    BY <1>0 DEF Row, Status, Active
  <2>3. jobs' \in [Jobs -> Row]
    BY <1>0, <2>1, <2>2
  <2>4. jobs'[j] = [status |-> "pending", video |-> v, tasks |-> 1]
    BY <1>0, <2>1
  <2>5. \A i \in Jobs \ {j} : jobs'[i] = jobs[i]
    BY <1>0, <2>1
  <2>6. /\ \A i \in Jobs : jobs[i].status # "unborn" => jobs[i].video \in Videos
        /\ \A i \in Jobs : jobs[i].tasks > 0 => jobs[i].status # "unborn"
    BY DEF TypeOK
  <2>7. \A i \in Jobs :
       /\ jobs[i].status # "unborn" => /\ jobs'[i].status # "unborn"
                                       /\ jobs'[i].video = jobs[i].video
       /\ jobs'[i].status # "unborn" => jobs'[i].video \in Videos
       /\ jobs'[i].tasks > 0 => jobs'[i].status # "unborn"
    <3> TAKE i \in Jobs
    <3>1. CASE i = j
      BY <3>1, <2>1, <2>4, <1>0
    <3>2. CASE i # j
      BY <3>2, <2>5, <2>6
    <3> QED BY <3>1, <3>2
  <2> QED BY <2>3, <2>7 DEF RowsKept
<1> QED BY <1>1, <1>2 DEF ScanCheck

(* A change of the status and the tasks of one inserted row.               *)
LEMMA ChangedRow ==
  ASSUME TypeOK, NEW j \in Jobs, jobs[j].status # "unborn",
         NEW s \in Status \ {"unborn"}, NEW n \in Nat,
         jobs' = [jobs EXCEPT ![j] = [jobs[j] EXCEPT !.status = s, !.tasks = n]]
  PROVE  /\ RowsKept
         /\ jobs'[j] = [jobs[j] EXCEPT !.status = s, !.tasks = n]
         /\ \A i \in Jobs \ {j} : jobs'[i] = jobs[i]
<1>0. jobs \in [Jobs -> Row] /\ jobs[j] \in Row
  BY DEF TypeOK
<1>1. [jobs[j] EXCEPT !.status = s, !.tasks = n] \in Row
  BY <1>0 DEF Row
<1>2. jobs' \in [Jobs -> Row]
  BY <1>0, <1>1
<1>3. jobs'[j] = [jobs[j] EXCEPT !.status = s, !.tasks = n]
  BY <1>0
<1>4. \A i \in Jobs \ {j} : jobs'[i] = jobs[i]
  BY <1>0
<1>5. jobs'[j].status = s /\ jobs'[j].video = jobs[j].video
  BY <1>0, <1>3 DEF Row
<1>6. /\ \A i \in Jobs : jobs[i].status # "unborn" => jobs[i].video \in Videos
      /\ \A i \in Jobs : jobs[i].tasks > 0 => jobs[i].status # "unborn"
  BY DEF TypeOK
<1>7. \A i \in Jobs :
       /\ jobs[i].status # "unborn" => /\ jobs'[i].status # "unborn"
                                       /\ jobs'[i].video = jobs[i].video
       /\ jobs'[i].status # "unborn" => jobs'[i].video \in Videos
       /\ jobs'[i].tasks > 0 => jobs'[i].status # "unborn"
  <2> TAKE i \in Jobs
  <2>1. CASE i = j
    BY <2>1, <1>5, <1>6
  <2>2. CASE i # j
    BY <2>2, <1>4, <1>6
  <2> QED BY <2>1, <2>2
<1> QED BY <1>2, <1>3, <1>4, <1>7 DEF RowsKept

LEMMA RunJobInserted ==
  ASSUME TypeOK, NEW h \in Runs, pc[h] # "idle"
  PROVE  /\ runJob[h] \in Jobs /\ jobs[runJob[h]].status # "unborn"
         /\ jobs[runJob[h]] \in Row /\ RunVideo(h) \in Videos
BY DEF TypeOK, RunVideo

LEMMA ReqJobInserted ==
  ASSUME TypeOK, NEW r \in Requests, reqPc[r] # "idle"
  PROVE  /\ reqJob[r] \in Jobs /\ jobs[reqJob[r]].status # "unborn"
         /\ jobs[reqJob[r]] \in Row /\ ReqVideo(r) \in Videos
BY DEF TypeOK, ReqVideo

(* A change of the tasks of one inserted row.                              *)
LEMMA ChangedTasks ==
  ASSUME TypeOK, NEW j \in Jobs, jobs[j].status # "unborn", NEW n \in Nat,
         jobs' = [jobs EXCEPT ![j] = [jobs[j] EXCEPT !.tasks = n]]
  PROVE  /\ RowsKept
         /\ jobs'[j] = [jobs[j] EXCEPT !.tasks = n]
         /\ \A i \in Jobs \ {j} : jobs'[i] = jobs[i]
<1>1. jobs \in [Jobs -> Row] /\ jobs[j] \in Row
  BY DEF TypeOK
<1>2. PICK row \in Row : row = [jobs[j] EXCEPT !.tasks = n]
  BY <1>1 DEF Row
<1>3. row.status = jobs[j].status /\ row.video = jobs[j].video
  BY <1>1, <1>2 DEF Row
<1>4. jobs' = [jobs EXCEPT ![j] = row]
  BY <1>2
<1>5. jobs' \in [Jobs -> Row] /\ jobs'[j] = row /\ \A i \in Jobs \ {j} : jobs'[i] = jobs[i]
  BY <1>1, <1>4
<1>6. /\ \A i \in Jobs : jobs[i].status # "unborn" => jobs[i].video \in Videos
      /\ \A i \in Jobs : jobs[i].tasks > 0 => jobs[i].status # "unborn"
  BY DEF TypeOK
<1>7. \A i \in Jobs :
       /\ jobs[i].status # "unborn" => /\ jobs'[i].status # "unborn"
                                       /\ jobs'[i].video = jobs[i].video
       /\ jobs'[i].status # "unborn" => jobs'[i].video \in Videos
       /\ jobs'[i].tasks > 0 => jobs'[i].status # "unborn"
  <2> TAKE i \in Jobs
  <2>1. CASE i = j
    BY <2>1, <1>3, <1>5, <1>6
  <2>2. CASE i # j
    BY <2>2, <1>5, <1>6
  <2> QED BY <2>1, <2>2
<1> QED BY <1>2, <1>5, <1>7 DEF RowsKept

LEMMA DispatchRows ==
  ASSUME TypeOK, NEW j \in Jobs, jobs[j].tasks > 0,
         jobs' = [jobs EXCEPT ![j].tasks = @ - 1]
  PROVE  /\ RowsKept
         /\ jobs'[j] = [jobs[j] EXCEPT !.tasks = jobs[j].tasks - 1]
         /\ \A i \in Jobs \ {j} : jobs'[i] = jobs[i]
<1>1. jobs[j] \in Row /\ jobs[j].status # "unborn"
  BY DEF TypeOK
<1>2. PICK n \in Nat : n = jobs[j].tasks - 1
  BY <1>1 DEF Row
<1>3. jobs' = [jobs EXCEPT ![j] = [jobs[j] EXCEPT !.tasks = n]]
  BY <1>2
<1> QED BY <1>1, <1>2, <1>3, ChangedTasks

LEMMA CrashRows ==
  ASSUME TypeOK, NEW j \in Jobs, jobs[j].status # "unborn",
         jobs' = [jobs EXCEPT ![j].tasks = @ + 1]
  PROVE  /\ RowsKept
         /\ jobs'[j] = [jobs[j] EXCEPT !.tasks = jobs[j].tasks + 1]
         /\ \A i \in Jobs \ {j} : jobs'[i] = jobs[i]
<1>1. jobs[j] \in Row
  BY DEF TypeOK
<1>2. PICK n \in Nat : n = jobs[j].tasks + 1
  BY <1>1 DEF Row
<1>3. jobs' = [jobs EXCEPT ![j] = [jobs[j] EXCEPT !.tasks = n]]
  BY <1>2
<1> QED BY <1>2, <1>3, ChangedTasks

LEMMA RetryRows ==
  ASSUME TypeOK, NEW j \in Jobs, Retry(j)
  PROVE  /\ RowsKept
         /\ jobs'[j].video = jobs[j].video /\ jobs'[j].status = "pending"
         /\ \A i \in Jobs \ {j} : jobs'[i] = jobs[i]
<1>1. jobs[j] \in Row /\ jobs[j].status # "unborn"
  BY DEF TypeOK, Retry
<1>2. jobs[j].tasks + 1 \in Nat /\ "pending" \in Status \ {"unborn"}
  BY <1>1 DEF Row, Status, Active
<1>3. jobs' = [jobs EXCEPT ![j] = [jobs[j] EXCEPT !.status = "pending",
                                                 !.tasks = jobs[j].tasks + 1]]
  BY DEF Retry
<1>4. /\ RowsKept
      /\ jobs'[j] = [jobs[j] EXCEPT !.status = "pending", !.tasks = jobs[j].tasks + 1]
      /\ \A i \in Jobs \ {j} : jobs'[i] = jobs[i]
  BY <1>1, <1>2, <1>3, ChangedRow
<1> QED BY <1>1, <1>4 DEF Row

LEMMA DeleteRows ==
  ASSUME TypeOK, NEW j \in Jobs, DeleteJob(j)
  PROVE  /\ RowsKept
         /\ jobs'[j].status = "deleted" /\ jobs'[j].tasks = jobs[j].tasks
         /\ \A i \in Jobs \ {j} : jobs'[i] = jobs[i]
<1>1. jobs[j] \in Row /\ jobs[j].status # "unborn"
  BY DEF TypeOK, DeleteJob, Exists
<1>2. jobs[j].tasks \in Nat /\ "deleted" \in Status \ {"unborn"}
  BY <1>1 DEF Row, Status
<1>3. [jobs[j] EXCEPT !.status = "deleted"]
        = [jobs[j] EXCEPT !.status = "deleted", !.tasks = jobs[j].tasks]
  BY <1>1 DEF Row
<1>4. jobs' = [jobs EXCEPT ![j] = [jobs[j] EXCEPT !.status = "deleted",
                                                 !.tasks = jobs[j].tasks]]
  BY <1>3 DEF DeleteJob
<1>5. /\ RowsKept
      /\ jobs'[j] = [jobs[j] EXCEPT !.status = "deleted", !.tasks = jobs[j].tasks]
      /\ \A i \in Jobs \ {j} : jobs'[i] = jobs[i]
  BY <1>1, <1>2, <1>4, ChangedRow
<1> QED BY <1>1, <1>5 DEF Row

(* No step loses or moves a row.                                           *)
LEMMA StepKeepsRows ==
  ASSUME TypeOK, Next
  PROVE  RowsKept
<1> USE DEF Status, Active
<1>1. CASE \E v \in Videos : Drop(v)
  BY <1>1, SameRows DEF Drop
<1>2. CASE ScanStart
  BY <1>2, SameRows DEF ScanStart
<1>3. CASE ScanCheck
  BY <1>3, ScanRows
<1>4. ASSUME NEW h \in Runs, Dispatch(h) \/ HandleTranscode(h) \/ RunCrash(h)
      PROVE  RowsKept
  <2>1. CASE Dispatch(h)
    BY <2>1, DispatchRows DEF Dispatch
  <2>2. CASE UNCHANGED jobs
    BY <2>2, SameRows
  <2>3. CASE ~UNCHANGED jobs /\ HandleTranscode(h)
    <3>1. pc[h] # "idle"
      BY <2>3 DEF HandleTranscode, RunRead, RunBegin, RunDownload, RunPut, RunStuck,
                  RunComplete, RunFail, Goto
    <3>2. runJob[h] \in Jobs /\ jobs[runJob[h]].status # "unborn"
      BY <3>1, RunJobInserted
    <3>3. \/ UpdateJobStatus(runJob[h], "running")
          \/ UpdateJobStatus(runJob[h], "completed")
          \/ UpdateJobStatus(runJob[h], "failed")
      BY <2>3 DEF HandleTranscode, RunRead, RunBegin, RunDownload, RunPut, RunStuck,
                  RunComplete, RunFail
    <3> QED BY <3>2, <3>3, UpdatedRows
  <2>4. CASE RunCrash(h)
    <3>1. runJob[h] \in Jobs /\ jobs[runJob[h]].status # "unborn"
      BY <2>4, RunJobInserted DEF RunCrash
    <3> QED BY <2>4, <3>1, CrashRows DEF RunCrash
  <2> QED BY <1>4, <2>1, <2>2, <2>3, <2>4
<1>5. ASSUME NEW j \in Jobs, Retry(j) \/ DeleteJob(j)
      PROVE  RowsKept
  BY <1>5, RetryRows, DeleteRows
<1>6. ASSUME NEW r \in Requests, DeleteUpload(r) \/ RequestDies(r)
      PROVE  RowsKept
  <2>1. CASE UNCHANGED jobs
    BY <2>1, SameRows
  <2>2. CASE UpdateJobStatus(reqJob[r], "cancelled") \/ UpdateJobStatus(reqJob[r], "deleted")
    <3>1. reqPc[r] # "idle" \/ UNCHANGED jobs
      BY <1>6 DEF DeleteUpload, DeleteRead, DeleteCancel, PurgePage, DeleteSource,
                  DeleteRow, RequestDies, Step
    <3>2. CASE reqPc[r] # "idle"
      <4>1. reqJob[r] \in Jobs /\ jobs[reqJob[r]].status # "unborn"
        BY <3>2, ReqJobInserted
      <4> QED BY <2>2, <4>1, UpdatedRows
    <3> QED BY <3>1, <3>2, <2>1
  <2> QED BY <1>6, <2>1, <2>2 DEF DeleteUpload, DeleteRead, DeleteCancel, PurgePage,
                                  DeleteSource, DeleteRow, RequestDies
<1> QED BY <1>1, <1>2, <1>3, <1>4, <1>5, <1>6 DEF Next

-----------------------------------------------------------------------------
(* Types.                                                                  *)

LEMMA KeysOfVideos ==
  ASSUME NEW v \in Videos
  PROVE  /\ SourceKey(v) \in AllKeys
         /\ \A p \in Parts : OutputKey(v, p) \in AllKeys
BY DEF AllKeys, Keys

LEMMA PutType ==
  ASSUME TypeOK, NEW v \in Videos, NEW k \in AllKeys, bucket' = Put(k, v)
  PROVE  bucket' \subseteq Object
<1>1. [key |-> k, of |-> v] \in Object
  BY DEF Object
<1> QED BY <1>1 DEF TypeOK, Put

(* Handlers and requests keep pointing at rows.                            *)
LEMMA TypeOfRest ==
  ASSUME TypeOK, RowsKept,
         bucket' \subseteq Object, listed' \subseteq Videos, gone' \subseteq Videos,
         incidents' \in 0 .. MaxIncidents,
         UNCHANGED runVars \/
           /\ pc' \in [Runs -> {"idle", "read"} \cup PastRead]
           /\ runJob' \in [Runs -> Jobs \cup {NoJob}]
           /\ left' \in [Runs -> SUBSET Parts]
           /\ \A h \in Runs : pc'[h] # "idle" =>
                runJob'[h] \in Jobs /\ jobs'[runJob'[h]].status # "unborn",
         UNCHANGED requestVars \/
           /\ reqPc' \in [Requests -> {"idle", "cancel", "row", "done"} \cup Purging]
           /\ reqJob' \in [Requests -> Jobs \cup {NoJob}]
           /\ passed' \in [Requests -> SUBSET AllKeys]
           /\ warned' \in [Requests -> BOOLEAN]
           /\ disturbed' \in [Requests -> BOOLEAN]
           /\ \A r \in Requests : reqPc'[r] # "idle" =>
                reqJob'[r] \in Jobs /\ jobs'[reqJob'[r]].status # "unborn"
  PROVE  TypeOK'
<1>1. /\ pc' \in [Runs -> {"idle", "read"} \cup PastRead]
      /\ runJob' \in [Runs -> Jobs \cup {NoJob}]
      /\ left' \in [Runs -> SUBSET Parts]
      /\ \A h \in Runs : pc'[h] # "idle" =>
           runJob'[h] \in Jobs /\ jobs'[runJob'[h]].status # "unborn"
  <2>1. CASE UNCHANGED runVars
    <3>1. pc' = pc /\ runJob' = runJob /\ left' = left
      BY <2>1 DEF runVars
    <3> QED BY <3>1 DEF TypeOK, RowsKept
  <2> QED BY <2>1
<1>2. /\ reqPc' \in [Requests -> {"idle", "cancel", "row", "done"} \cup Purging]
      /\ reqJob' \in [Requests -> Jobs \cup {NoJob}]
      /\ passed' \in [Requests -> SUBSET AllKeys]
      /\ warned' \in [Requests -> BOOLEAN]
      /\ disturbed' \in [Requests -> BOOLEAN]
      /\ \A r \in Requests : reqPc'[r] # "idle" =>
           reqJob'[r] \in Jobs /\ jobs'[reqJob'[r]].status # "unborn"
  <2>1. CASE UNCHANGED requestVars
    <3>1. UNCHANGED <<reqPc, reqJob, passed, warned, disturbed>>
      BY <2>1 DEF requestVars
    <3> QED BY <3>1 DEF TypeOK, RowsKept
  <2> QED BY <2>1
<1> QED BY <1>1, <1>2 DEF TypeOK, RowsKept

(* The control of one handler moves.                                       *)
LEMMA RunTypes ==
  ASSUME TypeOK, RowsKept, NEW h \in Runs,
         NEW to \in {"idle", "read"} \cup PastRead,
         pc' = [pc EXCEPT ![h] = to], pc[h] # "idle", UNCHANGED runJob,
         left' \in [Runs -> SUBSET Parts]
  PROVE  /\ pc' \in [Runs -> {"idle", "read"} \cup PastRead]
         /\ runJob' \in [Runs -> Jobs \cup {NoJob}]
         /\ left' \in [Runs -> SUBSET Parts]
         /\ \A g \in Runs : pc'[g] # "idle" =>
              runJob'[g] \in Jobs /\ jobs'[runJob'[g]].status # "unborn"
BY DEF TypeOK, RowsKept

LEMMA HandlerType ==
  ASSUME TypeOK, RowsKept, NEW h \in Runs, HandleTranscode(h) \/ RunCrash(h)
  PROVE  TypeOK'
<1> DEFINE RunTyped ==
      /\ pc' \in [Runs -> {"idle", "read"} \cup PastRead]
      /\ runJob' \in [Runs -> Jobs \cup {NoJob}]
      /\ left' \in [Runs -> SUBSET Parts]
      /\ \A g \in Runs : pc'[g] # "idle" =>
           runJob'[g] \in Jobs /\ jobs'[runJob'[g]].status # "unborn"
<1>0. /\ left \in [Runs -> SUBSET Parts] /\ bucket \subseteq Object /\ listed \subseteq Videos
      /\ gone \subseteq Videos /\ incidents \in 0 .. MaxIncidents
  BY DEF TypeOK
<1>1. CASE RunRead(h)
  <2>1. RunTyped
    <3>1. \E to \in {"idle", "begin"} : pc' = [pc EXCEPT ![h] = to]
      BY <1>1 DEF RunRead, Goto
    <3>2. pc[h] # "idle" /\ UNCHANGED <<runJob, left>>
      BY <1>1 DEF RunRead
    <3> QED BY <1>0, <3>1, <3>2, RunTypes DEF PastRead
  <2>2. disturbed' \in [Requests -> BOOLEAN]
    BY <1>1 DEF RunRead, Disturb, TypeOK
  <2>3. UNCHANGED <<bucket, listed, gone, incidents, reqPc, reqJob, passed, warned>>
    BY <1>1 DEF RunRead
  <2>4. \A r \in Requests : reqPc'[r] # "idle" =>
           reqJob'[r] \in Jobs /\ jobs'[reqJob'[r]].status # "unborn"
    BY <2>3 DEF TypeOK, RowsKept
  <2>5. /\ reqPc \in [Requests -> {"idle", "cancel", "row", "done"} \cup Purging]
        /\ reqJob \in [Requests -> Jobs \cup {NoJob}]
        /\ passed \in [Requests -> SUBSET AllKeys]
        /\ warned \in [Requests -> BOOLEAN]
    BY DEF TypeOK
  <2> QED BY <1>0, <2>1, <2>2, <2>3, <2>4, <2>5, TypeOfRest
<1>2. CASE RunBegin(h)
  <2>1. RunTyped
    BY <1>0, <1>2, RunTypes DEF RunBegin, Goto, PastRead
  <2>2. UNCHANGED <<bucket, listed, gone, incidents, requestVars>>
    BY <1>2 DEF RunBegin
  <2> QED BY <1>0, <2>1, <2>2, TypeOfRest
<1>3. CASE RunDownload(h)
  <2>1. left' \in [Runs -> SUBSET Parts] /\ pc[h] # "idle" /\ UNCHANGED runJob
    BY <1>0, <1>3 DEF RunDownload
  <2>2. \E to \in {"upload", "fail"} : pc' = [pc EXCEPT ![h] = to]
    BY <1>3 DEF RunDownload, Goto
  <2>3. RunTyped
    BY <2>1, <2>2, RunTypes DEF PastRead
  <2>4. incidents' \in 0 .. MaxIncidents
    BY <1>0, <1>3, IncidentType DEF RunDownload
  <2>5. UNCHANGED <<bucket, listed, gone, requestVars>>
    BY <1>3 DEF RunDownload
  <2> QED BY <1>0, <2>3, <2>4, <2>5, TypeOfRest
<1>4. CASE RunPut(h)
  <2>1. PICK p \in left[h] :
          /\ pc[h] = "upload"
          /\ bucket' = Put(OutputKey(RunVideo(h), p), RunVideo(h))
          /\ left' = [left EXCEPT ![h] = @ \ {p}]
          /\ UNCHANGED <<jobs, listed, pc, runJob, requestVars, gone, incidents>>
    BY <1>4 DEF RunPut
  <2>2. RunVideo(h) \in Videos /\ p \in Parts
    BY <1>0, <2>1, RunJobInserted
  <2>3. OutputKey(RunVideo(h), p) \in AllKeys
    BY <2>2, KeysOfVideos
  <2>4. bucket' \subseteq Object
    BY <2>1, <2>2, <2>3, PutType
  <2>5. left' \in [Runs -> SUBSET Parts]
    BY <1>0, <2>1
  <2>6. RunTyped
    BY <2>1, <2>5 DEF TypeOK, RowsKept
  <2> QED BY <1>0, <2>1, <2>4, <2>6, TypeOfRest
<1>5. CASE RunStuck(h)
  <2>1. left' \in [Runs -> SUBSET Parts] /\ pc[h] # "idle" /\ UNCHANGED runJob
    BY <1>0, <1>5 DEF RunStuck, Goto
  <2>2. RunTyped
    BY <1>5, <2>1, RunTypes DEF RunStuck, Goto, PastRead
  <2>3. incidents' \in 0 .. MaxIncidents
    BY <1>5, IncidentType DEF RunStuck
  <2>4. UNCHANGED <<bucket, listed, gone, requestVars>>
    BY <1>5 DEF RunStuck
  <2> QED BY <1>0, <2>2, <2>3, <2>4, TypeOfRest
<1>6. CASE RunComplete(h) \/ RunFail(h)
  <2>1. RunTyped
    BY <1>0, <1>6, RunTypes DEF RunComplete, RunFail, Goto, PastRead
  <2>2. UNCHANGED <<bucket, listed, gone, incidents, requestVars>>
    BY <1>6 DEF RunComplete, RunFail
  <2> QED BY <1>0, <2>1, <2>2, TypeOfRest
<1>7. CASE RunCrash(h)
  <2>1. left' \in [Runs -> SUBSET Parts] /\ pc[h] # "idle" /\ UNCHANGED runJob
    BY <1>0, <1>7 DEF RunCrash
  <2>2. RunTyped
    BY <1>7, <2>1, RunTypes DEF RunCrash
  <2>3. incidents' \in 0 .. MaxIncidents
    BY <1>7, IncidentType DEF RunCrash
  <2>4. UNCHANGED <<bucket, listed, gone, requestVars>>
    BY <1>7 DEF RunCrash
  <2> QED BY <1>0, <2>2, <2>3, <2>4, TypeOfRest
<1> QED BY <1>1, <1>2, <1>3, <1>4, <1>5, <1>6, <1>7 DEF HandleTranscode

LEMMA DispatchType ==
  ASSUME TypeOK, RowsKept, NEW h \in Runs, Dispatch(h)
  PROVE  TypeOK'
<1>1. PICK j \in Jobs :
        /\ jobs[j].tasks > 0
        /\ pc' = [pc EXCEPT ![h] = "read"]
        /\ runJob' = [runJob EXCEPT ![h] = j]
        /\ UNCHANGED <<bucket, listed, left, requestVars, gone, incidents>>
  BY DEF Dispatch, Goto
<1>2. jobs[j].status # "unborn"
  BY <1>1 DEF TypeOK
<1>3. jobs'[j].status # "unborn"
  BY <1>2 DEF RowsKept
<1>4. /\ pc' \in [Runs -> {"idle", "read"} \cup PastRead]
      /\ runJob' \in [Runs -> Jobs \cup {NoJob}]
      /\ left' \in [Runs -> SUBSET Parts]
      /\ \A g \in Runs : pc'[g] # "idle" =>
           runJob'[g] \in Jobs /\ jobs'[runJob'[g]].status # "unborn"
  BY <1>1, <1>3 DEF TypeOK, RowsKept
<1>5. /\ bucket' \subseteq Object /\ listed' \subseteq Videos
      /\ gone' \subseteq Videos /\ incidents' \in 0 .. MaxIncidents
  BY <1>1 DEF TypeOK
<1> QED BY <1>1, <1>4, <1>5, TypeOfRest

(* A request moves on, or notes something about itself.                    *)
LEMMA RequestTypes ==
  ASSUME TypeOK, RowsKept, NEW r \in Requests, NEW j \in Jobs,
         jobs[j].status # "unborn",
         NEW to \in {"idle", "cancel", "row", "done"} \cup Purging,
         reqPc' = [reqPc EXCEPT ![r] = to],
         reqJob' = [reqJob EXCEPT ![r] = j],
         passed' \in [Requests -> SUBSET AllKeys],
         UNCHANGED warned \/ Warn(r),
         disturbed' \in [Requests -> BOOLEAN]
  PROVE  /\ reqPc' \in [Requests -> {"idle", "cancel", "row", "done"} \cup Purging]
         /\ reqJob' \in [Requests -> Jobs \cup {NoJob}]
         /\ passed' \in [Requests -> SUBSET AllKeys]
         /\ warned' \in [Requests -> BOOLEAN]
         /\ disturbed' \in [Requests -> BOOLEAN]
         /\ \A q \in Requests : reqPc'[q] # "idle" =>
              reqJob'[q] \in Jobs /\ jobs'[reqJob'[q]].status # "unborn"
<1>1. warned' \in [Requests -> BOOLEAN]
  BY DEF TypeOK, Warn
<1>2. jobs'[j].status # "unborn"
  BY DEF RowsKept
<1> QED BY <1>1, <1>2 DEF TypeOK, RowsKept

LEMMA RequestType ==
  ASSUME TypeOK, RowsKept, NEW r \in Requests, DeleteUpload(r) \/ RequestDies(r)
  PROVE  TypeOK'
<1> DEFINE RequestTyped ==
      /\ reqPc' \in [Requests -> {"idle", "cancel", "row", "done"} \cup Purging]
      /\ reqJob' \in [Requests -> Jobs \cup {NoJob}]
      /\ passed' \in [Requests -> SUBSET AllKeys]
      /\ warned' \in [Requests -> BOOLEAN]
      /\ disturbed' \in [Requests -> BOOLEAN]
      /\ \A q \in Requests : reqPc'[q] # "idle" =>
           reqJob'[q] \in Jobs /\ jobs'[reqJob'[q]].status # "unborn"
<1>0. /\ bucket \subseteq Object /\ gone \subseteq Videos /\ listed \subseteq Videos
      /\ incidents \in 0 .. MaxIncidents
      /\ reqJob \in [Requests -> Jobs \cup {NoJob}]
      /\ passed \in [Requests -> SUBSET AllKeys]
      /\ disturbed \in [Requests -> BOOLEAN]
  BY DEF TypeOK
<1>1. incidents' \in 0 .. MaxIncidents
  BY <1>0, IncidentType DEF DeleteUpload, DeleteRead, DeleteCancel, PurgePage,
                            DeleteSource, DeleteRow, RequestDies
<1>2. UNCHANGED <<listed, runVars>> /\ bucket' \subseteq bucket
  BY DEF DeleteUpload, DeleteRead, DeleteCancel, PurgePage,
         DeleteSource, DeleteRow, RequestDies
<1>3. passed' \in [Requests -> SUBSET AllKeys]
  <2>1. CASE UNCHANGED passed
    BY <1>0, <2>1
  <2>2. ASSUME NEW page \in SUBSET ToPass(r), passed' = [passed EXCEPT ![r] = @ \cup page]
        PROVE  passed' \in [Requests -> SUBSET AllKeys]
    BY <1>0, <2>2 DEF ToPass, Under
  <2> QED BY <2>1, <2>2 DEF DeleteUpload, DeleteRead, DeleteCancel, PurgePage,
                            DeleteSource, DeleteRow, RequestDies
<1>4. disturbed' \in [Requests -> BOOLEAN]
  BY <1>0 DEF DeleteUpload, DeleteRead, DeleteCancel, PurgePage,
         DeleteSource, DeleteRow, RequestDies, AtWork, StillQueued
<1>5. UNCHANGED warned \/ Warn(r)
  BY DEF DeleteUpload, DeleteRead, DeleteCancel, PurgePage,
         DeleteSource, DeleteRow, RequestDies
<1>6. CASE DeleteRead(r)
  <2>1. PICK j \in Jobs :
          /\ Exists(j)
          /\ reqPc' = [reqPc EXCEPT ![r] = IF jobs[j].status \in Active THEN "cancel" ELSE "purge"]
          /\ reqJob' = [reqJob EXCEPT ![r] = j]
          /\ UNCHANGED gone
    BY <1>6 DEF DeleteRead, Step
  <2>2. \E to \in {"cancel", "purge"} : reqPc' = [reqPc EXCEPT ![r] = to]
    BY <2>1
  <2>3. RequestTyped
    BY <1>3, <1>4, <1>5, <2>1, <2>2, RequestTypes DEF Exists, Purging
  <2> QED BY <1>0, <1>1, <1>2, <2>1, <2>3, TypeOfRest
<1>7. CASE ~DeleteRead(r)
  <2>1. reqPc[r] # "idle" /\ UNCHANGED reqJob
    BY <1>7 DEF DeleteUpload, DeleteCancel, PurgePage, DeleteSource, DeleteRow,
                RequestDies, Step
  <2>2. PICK j \in Jobs : j = reqJob[r] /\ jobs[j].status # "unborn"
    BY <2>1, ReqJobInserted
  <2>3. reqJob' = [reqJob EXCEPT ![r] = j]
    BY <1>0, <2>1, <2>2
  <2>4. \E to \in {"idle", "cancel", "row", "done"} \cup Purging :
          reqPc' = [reqPc EXCEPT ![r] = to]
    <3>1. CASE UNCHANGED reqPc
      <4>1. reqPc[r] \in {"idle", "cancel", "row", "done"} \cup Purging
        BY DEF TypeOK
      <4>2. reqPc' = [reqPc EXCEPT ![r] = reqPc[r]]
        BY <3>1 DEF TypeOK
      <4> QED BY <4>1, <4>2
    <3>2. CASE \E to \in {"purge", "source", "row", "done"} : reqPc' = [reqPc EXCEPT ![r] = to]
      BY <3>2 DEF Purging
    <3> QED BY <1>7, <3>1, <3>2 DEF DeleteUpload, DeleteCancel, PurgePage, DeleteSource,
                                    DeleteRow, RequestDies, Step
  <2>5. RequestTyped
    BY <1>3, <1>4, <1>5, <2>2, <2>3, <2>4, RequestTypes
  <2>6. gone' \subseteq Videos
    <3>1. ReqVideo(r) \in Videos
      BY <2>1, ReqJobInserted
    <3> QED BY <1>0, <1>7, <3>1 DEF DeleteUpload, DeleteCancel, PurgePage, DeleteSource,
                                    DeleteRow, RequestDies
  <2> QED BY <1>0, <1>1, <1>2, <2>5, <2>6, TypeOfRest
<1> QED BY <1>6, <1>7

LEMMA TypeStep ==
  ASSUME TypeOK, [Next]_vars
  PROVE  TypeOK'
<1>0. /\ bucket \subseteq Object /\ gone \subseteq Videos /\ listed \subseteq Videos
      /\ incidents \in 0 .. MaxIncidents
  BY DEF TypeOK
<1>1. CASE UNCHANGED vars
  BY <1>1 DEF vars, runVars, requestVars, TypeOK
<1>2. CASE Next
  <2>0. RowsKept
    BY <1>2, StepKeepsRows
  <2>1. ASSUME NEW v \in Videos, Drop(v)
        PROVE  TypeOK'
    <3>1. bucket' \subseteq Object
      BY <2>1, KeysOfVideos, PutType DEF Drop
    <3>2. incidents' \in 0 .. MaxIncidents
      BY <1>0, <2>1, IncidentType DEF Drop
    <3>3. gone' \subseteq Videos /\ UNCHANGED <<listed, runVars, requestVars>>
      BY <1>0, <2>1 DEF Drop
    <3> QED BY <1>0, <2>0, <3>1, <3>2, <3>3, TypeOfRest
  <2>2. CASE ScanStart \/ ScanCheck
    <3>1. listed' \subseteq Videos /\ UNCHANGED <<bucket, runVars, requestVars, gone, incidents>>
      BY <1>0, <2>2 DEF ScanStart, ScanCheck
    <3> QED BY <1>0, <2>0, <3>1, TypeOfRest
  <2>3. ASSUME NEW j \in Jobs, Retry(j)
        PROVE  TypeOK'
    <3>1. disturbed' \in [Requests -> BOOLEAN]
      BY <2>3 DEF Retry, Disturb, TypeOK
    <3>2. incidents' \in 0 .. MaxIncidents
      BY <2>3, IncidentType DEF Retry
    <3>3. UNCHANGED <<bucket, listed, runVars, reqPc, reqJob, passed, warned, gone>>
      BY <2>3 DEF Retry
    <3>4. /\ reqPc \in [Requests -> {"idle", "cancel", "row", "done"} \cup Purging]
          /\ reqJob \in [Requests -> Jobs \cup {NoJob}]
          /\ passed \in [Requests -> SUBSET AllKeys]
          /\ warned \in [Requests -> BOOLEAN]
      BY DEF TypeOK
    <3>5. \A r \in Requests : reqPc'[r] # "idle" =>
             reqJob'[r] \in Jobs /\ jobs'[reqJob'[r]].status # "unborn"
      BY <2>0, <3>3 DEF TypeOK, RowsKept
    <3> QED BY <1>0, <2>0, <3>1, <3>2, <3>3, <3>4, <3>5, TypeOfRest
  <2>4. ASSUME NEW j \in Jobs, DeleteJob(j)
        PROVE  TypeOK'
    <3>1. incidents' \in 0 .. MaxIncidents
      BY <2>4, IncidentType DEF DeleteJob
    <3>2. UNCHANGED <<bucket, listed, runVars, requestVars, gone>>
      BY <2>4 DEF DeleteJob
    <3> QED BY <1>0, <2>0, <3>1, <3>2, TypeOfRest
  <2> QED BY <1>2, <2>0, <2>1, <2>2, <2>3, <2>4, DispatchType, HandlerType, RequestType
          DEF Next
<1> QED BY <1>1, <1>2

LEMMA TypeInit ==
  ASSUME Init
  PROVE  TypeOK
BY DEF Init, TypeOK, Row, Status, Active

(* Every variable keeps its type, and handlers, requests and tasks refer   *)
(* to rows that were inserted (media.go DeleteUpload, handler.go           *)
(* HandleTranscode, scanner.go scanOnce).                                  *)
THEOREM TypeCorrect == Spec => []TypeOK
BY TypeInit, TypeStep, PTL DEF Spec

-----------------------------------------------------------------------------
(* A deletion is final.                                                    *)

(* What the names have to grant.  No two sources have one key, no output   *)
(* has the key of a source, a prefix covers the output it is made for, and *)
(* no video has its output under the prefix of another.                    *)
DistinctKeys ==
  \A v, w \in Videos :
    /\ SourceKey(v) = SourceKey(w) => v = w
    /\ \A p \in Parts : SourceKey(v) # OutputKey(w, p) /\ OutputKey(v, p) \in Under(v)

KeptApart ==
  \A v, w \in Videos : v # w => \A p \in Parts : OutputKey(v, p) \notin Under(w)

ObjectsHaveKeys ==
  \A o \in bucket : o.key = SourceKey(o.of) \/ \E p \in Parts : o.key = OutputKey(o.of, p)

(* A request in the middle of a purge that nothing has disturbed.          *)
Undisturbed(r) == reqPc[r] \in Purging /\ ~disturbed[r]

(* Nothing will run its job: it is cancelled or gone, or it was settled    *)
(* and has no task.                                                        *)
Halted(j) ==
  \/ jobs[j].status \in {"cancelled", "deleted"}
  \/ /\ jobs[j].status \notin Active
     /\ ~(jobs[j].tasks > 0)
     /\ ~\E h \in Runs : pc[h] = "read" /\ runJob[h] = j

(* What the listing has passed holds nothing of the video any more.        *)
Swept(r) ==
  \A o \in bucket :
    o.of = ReqVideo(r) => o.key = SourceKey(ReqVideo(r)) \/ o.key \notin passed[r]

PurgesAreClean ==
  \A r \in Requests : Undisturbed(r) =>
    ~AtWork(ReqVideo(r)) /\ Halted(reqJob[r]) /\ Swept(r)

ListingsAreComplete ==
  \A r \in Requests :
    /\ reqPc[r] \in {"idle", "cancel"} => passed[r] = {}
    /\ reqPc[r] = "source" /\ ~warned[r] => Under(ReqVideo(r)) \subseteq passed[r]

FinalInv ==
  TypeOK /\ ObjectsHaveKeys /\ PurgesAreClean /\ ListingsAreComplete /\ DeletedVideosStayAway

(* Videos of handlers and requests stay what they are.                     *)
LEMMA VideosStay ==
  ASSUME TypeOK, RowsKept
  PROVE  /\ \A h \in Runs : pc[h] # "idle" /\ runJob'[h] = runJob[h] => RunVideo(h)' = RunVideo(h)
         /\ \A r \in Requests : reqPc[r] # "idle" /\ reqJob'[r] = reqJob[r] => ReqVideo(r)' = ReqVideo(r)
BY DEF TypeOK, RowsKept, RunVideo, ReqVideo

(* A step that leaves the requests alone, puts no object of a video that   *)
(* is being purged or is gone, starts no handler for it and leaves its job *)
(* halted, keeps the invariant.                                            *)
LEMMA StepElsewhere ==
  ASSUME FinalInv, RowsKept, TypeOK',
         UNCHANGED <<reqPc, reqJob, passed, warned>>, gone' \subseteq gone,
         ObjectsHaveKeys',
         \A r \in Requests : disturbed[r] => disturbed'[r],
         \A r \in Requests : Undisturbed(r) /\ Undisturbed(r)' =>
           /\ ~AtWork(ReqVideo(r))' /\ Halted(reqJob[r])'
           /\ \A o \in bucket' \ bucket :
                o.of = ReqVideo(r) => o.key = SourceKey(ReqVideo(r)),
         \A v \in gone' :
           /\ \A o \in bucket' \ bucket : o.of # v
           /\ \A h \in Runs : pc'[h] = "upload" => RunVideo(h)' # v
  PROVE  FinalInv'
<1>1. \A r \in Requests : reqPc[r] # "idle" => ReqVideo(r)' = ReqVideo(r)
  BY VideosStay DEF FinalInv
<1>2. PurgesAreClean'
  <2> SUFFICES ASSUME NEW r \in Requests, Undisturbed(r)'
               PROVE  (~AtWork(ReqVideo(r)) /\ Halted(reqJob[r]) /\ Swept(r))'
    BY DEF PurgesAreClean
  <2>1. Undisturbed(r) /\ reqPc[r] # "idle"
    BY DEF Undisturbed, Purging, FinalInv, TypeOK
  <2>2. ReqVideo(r)' = ReqVideo(r) /\ Swept(r)
    BY <1>1, <2>1 DEF FinalInv, PurgesAreClean
  <2>3. Swept(r)'
    BY <2>1, <2>2 DEF Swept
  <2> QED BY <2>1, <2>2, <2>3
<1>3. ListingsAreComplete'
  BY <1>1 DEF FinalInv, ListingsAreComplete
<1>4. DeletedVideosStayAway'
  BY DEF FinalInv, DeletedVideosStayAway
<1> QED BY <1>2, <1>3, <1>4 DEF FinalInv

(* Rows and readers of a job stay, so it stays halted.                     *)
LEMMA StaysHalted ==
  ASSUME NEW j \in Jobs, Halted(j), jobs'[j] = jobs[j],
         \A h \in Runs : pc'[h] = "read" /\ runJob'[h] = j => pc[h] = "read" /\ runJob[h] = j
  PROVE  Halted(j)'
BY DEF Halted

(* A handler past its look at the status is not of a video being purged.   *)
LEMMA OthersWork ==
  ASSUME FinalInv, NEW h \in Runs, pc[h] \in PastRead, NEW r \in Requests, Undisturbed(r)
  PROVE  RunVideo(h) # ReqVideo(r) /\ runJob[h] # reqJob[r]
BY DEF FinalInv, PurgesAreClean, AtWork, RunVideo, ReqVideo

LEMMA RequestHasJob ==
  ASSUME TypeOK, NEW r \in Requests, Undisturbed(r)
  PROVE  reqJob[r] \in Jobs /\ jobs[reqJob[r]].status # "unborn"
BY DEF TypeOK, Undisturbed, Purging

LEMMA ObjectsFewer ==
  ASSUME ObjectsHaveKeys, bucket' \subseteq bucket
  PROVE  ObjectsHaveKeys'
BY DEF ObjectsHaveKeys

(* A handler at work moves on or ends: what it writes is of its own video. *)
LEMMA WorkerStep ==
  ASSUME FinalInv, TypeOK', RowsKept, DistinctKeys, NEW h \in Runs,
         RunBegin(h) \/ RunDownload(h) \/ RunPut(h) \/ RunStuck(h) \/ RunComplete(h) \/ RunFail(h)
  PROVE  FinalInv'
<1>0. TypeOK /\ ObjectsHaveKeys /\ pc \in [Runs -> {"idle", "read"} \cup PastRead]
  BY DEF FinalInv, TypeOK
<1>1. pc[h] \in PastRead
  BY DEF RunBegin, RunDownload, RunPut, RunStuck, RunComplete, RunFail, Goto, PastRead
<1>2. RunVideo(h) \in Videos /\ runJob[h] \in Jobs /\ jobs[runJob[h]].status # "unborn"
  BY <1>0, <1>1, RunJobInserted DEF PastRead
<1>3. UNCHANGED <<reqPc, reqJob, passed, warned, disturbed, gone, runJob>>
  BY DEF RunBegin, RunDownload, RunPut, RunStuck, RunComplete, RunFail, requestVars
<1>4. \E to \in {"idle"} \cup PastRead : pc' = [pc EXCEPT ![h] = to]
  <2>1. CASE RunPut(h)
    BY <1>0, <1>1, <2>1 DEF RunPut
  <2>2. CASE ~RunPut(h)
    BY <2>2 DEF RunBegin, RunDownload, RunStuck, RunComplete, RunFail, Goto, PastRead
  <2> QED BY <2>1, <2>2
<1>5. \A g \in Runs \ {h} : pc'[g] = pc[g]
  BY <1>0, <1>4
<1>6. pc'[h] # "read"
  BY <1>0, <1>4 DEF PastRead
<1>7. \A i \in Jobs \ {runJob[h]} : jobs'[i] = jobs[i]
  <2>1. CASE UNCHANGED jobs
    BY <2>1
  <2>2. CASE ~UNCHANGED jobs
    <3>1. \E s \in Status : UpdateJobStatus(runJob[h], s)
      BY <2>2 DEF RunBegin, RunDownload, RunPut, RunStuck, RunComplete, RunFail, Status, Active
    <3> QED BY <1>0, <1>2, <3>1 DEF UpdateJobStatus, TypeOK
  <2> QED BY <2>1, <2>2
<1>8. \A g \in Runs : pc[g] # "idle" => RunVideo(g)' = RunVideo(g)
  BY <1>0, <1>3, VideosStay
<1>9. ObjectsHaveKeys' /\ \A o \in bucket' \ bucket : pc[h] = "upload" /\ o.of = RunVideo(h)
  <2>1. CASE bucket' = bucket
    BY <1>0, <2>1 DEF ObjectsHaveKeys
  <2>2. CASE bucket' # bucket
    <3>1. PICK p \in left[h] : pc[h] = "upload" /\ bucket' = Put(OutputKey(RunVideo(h), p), RunVideo(h))
      BY <2>2 DEF RunBegin, RunDownload, RunPut, RunStuck, RunComplete, RunFail
    <3>2. p \in Parts
      BY <1>0 DEF TypeOK
    <3> QED BY <1>0, <3>1, <3>2 DEF Put, ObjectsHaveKeys
  <2> QED BY <2>1, <2>2
<1>10. ASSUME NEW r \in Requests, Undisturbed(r)
       PROVE  /\ ~AtWork(ReqVideo(r))' /\ Halted(reqJob[r])'
              /\ \A o \in bucket' \ bucket :
                   o.of = ReqVideo(r) => o.key = SourceKey(ReqVideo(r))
  <2>1. RunVideo(h) # ReqVideo(r) /\ runJob[h] # reqJob[r]
    BY <1>1, <1>10, OthersWork
  <2>2. ReqVideo(r)' = ReqVideo(r) /\ reqJob[r] \in Jobs /\ reqJob'[r] = reqJob[r]
    BY <1>0, <1>3, <1>10, VideosStay, RequestHasJob DEF Undisturbed, Purging
  <2>3. ~AtWork(ReqVideo(r)) /\ Halted(reqJob[r])
    BY <1>10 DEF FinalInv, PurgesAreClean
  <2>4. ~AtWork(ReqVideo(r))'
    BY <1>1, <1>5, <1>8, <2>1, <2>2, <2>3 DEF AtWork, PastRead
  <2>5. Halted(reqJob[r])'
    <3>1. PICK j \in Jobs : j = reqJob[r]
      BY <2>2
    <3>2. jobs'[j] = jobs[j]
      BY <1>7, <2>1, <3>1
    <3>3. Halted(j)'
      BY <1>3, <1>5, <1>6, <2>3, <3>1, <3>2, StaysHalted
    <3> QED BY <2>2, <3>1, <3>3 DEF Halted
  <2> QED BY <1>9, <2>1, <2>4, <2>5
<1>11. ASSUME NEW v \in gone'
       PROVE  /\ \A o \in bucket' \ bucket : o.of # v
              /\ \A g \in Runs : pc'[g] = "upload" => RunVideo(g)' # v
  <2>1. /\ v \in gone /\ v \in Videos
        /\ \A o \in bucket : o.of # v
        /\ \A g \in Runs : pc[g] = "upload" => RunVideo(g) # v
    BY <1>0, <1>3 DEF FinalInv, DeletedVideosStayAway, TypeOK
  <2>2. \A o \in bucket' \ bucket : o.of # v
    BY <1>9, <2>1
  <2>3. pc'[h] = "upload" => RunVideo(h) # v
    <3>1. CASE RunDownload(h)
      <4>1. SUFFICES ASSUME pc'[h] = "upload"
                     PROVE  RunVideo(h) # v
        OBVIOUS
      <4>2. \E o \in bucket : o.key = SourceKey(RunVideo(h))
        BY <1>0, <3>1, <4>1 DEF RunDownload, Goto
      <4>3. PICK o \in bucket : o.key = SourceKey(RunVideo(h))
        BY <4>2
      <4>4. o.of \in Videos
        BY <1>0 DEF TypeOK, Object
      <4>5. o.of = RunVideo(h)
        BY <1>0, <1>2, <4>3, <4>4 DEF ObjectsHaveKeys, DistinctKeys
      <4> QED BY <2>1, <4>5
    <3>2. CASE RunPut(h)
      BY <2>1, <3>2 DEF RunPut
    <3>3. CASE RunBegin(h) \/ RunStuck(h) \/ RunComplete(h) \/ RunFail(h)
      BY <1>0, <3>3 DEF RunBegin, RunStuck, RunComplete, RunFail, Goto
    <3> QED BY <3>1, <3>2, <3>3
  <2> QED BY <1>1, <1>5, <1>8, <2>1, <2>2, <2>3 DEF PastRead
<1>12. gone' \subseteq gone /\ \A r \in Requests : disturbed[r] => disturbed'[r]
  BY <1>3
<1> QED BY <1>3, <1>9, <1>10, <1>11, <1>12, StepElsewhere

(* Nothing is put and no handler gets to work: what is left is the jobs.   *)
LEMMA QuietStep ==
  ASSUME FinalInv, TypeOK', RowsKept,
         UNCHANGED <<reqPc, reqJob, passed, warned>>, gone' \subseteq gone,
         bucket' = bucket,
         \A r \in Requests : disturbed[r] => disturbed'[r],
         \A h \in Runs : pc'[h] \in PastRead => pc'[h] = pc[h] /\ runJob'[h] = runJob[h],
         \A r \in Requests : Undisturbed(r) /\ Undisturbed(r)' => Halted(reqJob[r])'
  PROVE  FinalInv'
<1>0. TypeOK
  BY DEF FinalInv
<1>1. \A h \in Runs : pc'[h] \in PastRead =>
        /\ pc[h] \in PastRead
        /\ pc'[h] = "upload" => pc[h] = "upload"
        /\ RunVideo(h)' = RunVideo(h)
  BY <1>0, VideosStay DEF PastRead
<1>2. ASSUME NEW r \in Requests, Undisturbed(r)
      PROVE  ~AtWork(ReqVideo(r))'
  <2>1. ReqVideo(r)' = ReqVideo(r)
    BY <1>0, <1>2, VideosStay DEF Undisturbed, Purging
  <2>2. ~AtWork(ReqVideo(r))
    BY <1>2 DEF FinalInv, PurgesAreClean
  <2> QED BY <1>1, <2>1, <2>2 DEF AtWork
<1>3. ASSUME NEW v \in gone'
      PROVE  \A h \in Runs : pc'[h] = "upload" => RunVideo(h)' # v
  BY <1>1, <1>3 DEF FinalInv, DeletedVideosStayAway, PastRead
<1>4. ObjectsHaveKeys'
  BY ObjectsFewer DEF FinalInv
<1> QED BY <1>2, <1>3, <1>4, StepElsewhere

LEMMA ReadStep ==
  ASSUME FinalInv, TypeOK', RowsKept, NEW h \in Runs, RunRead(h)
  PROVE  FinalInv'
<1>0. TypeOK /\ pc \in [Runs -> {"idle", "read"} \cup PastRead]
      /\ disturbed \in [Requests -> BOOLEAN]
  BY DEF FinalInv, TypeOK
<1>1. pc[h] = "read" /\ UNCHANGED <<bucket, jobs, runJob, reqPc, reqJob, passed, warned, gone>>
  BY DEF RunRead
<1>2. \A r \in Requests : disturbed[r] => disturbed'[r]
  BY <1>0 DEF RunRead, Disturb
<1>3. CASE pc' = [pc EXCEPT ![h] = "idle"]
  <2>1. \A g \in Runs : pc'[g] # "idle" => pc'[g] = pc[g]
    BY <1>0, <1>3
  <2>2. ASSUME NEW r \in Requests, Undisturbed(r)
        PROVE  Halted(reqJob[r])'
    <3>1. reqJob[r] \in Jobs /\ Halted(reqJob[r]) /\ reqJob'[r] = reqJob[r]
      BY <1>0, <1>1, <2>2, RequestHasJob DEF FinalInv, PurgesAreClean
    <3> QED BY <1>1, <2>1, <3>1 DEF Halted
  <2> QED BY <1>1, <1>2, <2>1, <2>2, QuietStep DEF PastRead
<1>4. CASE pc' = [pc EXCEPT ![h] = "begin"]
  <2>1. /\ Exists(runJob[h]) /\ jobs[runJob[h]].status # "cancelled"
        /\ Disturb(RunVideo(h), runJob[h])
    BY <1>0, <1>4 DEF RunRead, Goto
  <2>2. pc'[h] = "begin" /\ \A g \in Runs \ {h} : pc'[g] = pc[g]
    BY <1>0, <1>4
  <2>3. \A g \in Runs : pc[g] # "idle" => RunVideo(g)' = RunVideo(g)
    BY <1>0, <1>1, VideosStay
  <2>4. ASSUME NEW r \in Requests, Undisturbed(r), Undisturbed(r)'
        PROVE  ~AtWork(ReqVideo(r))' /\ Halted(reqJob[r])'
    <3>1. /\ ReqVideo(r)' = ReqVideo(r) /\ reqJob[r] \in Jobs /\ reqJob'[r] = reqJob[r]
          /\ ~AtWork(ReqVideo(r)) /\ Halted(reqJob[r])
      BY <1>0, <1>1, <2>4, VideosStay, RequestHasJob DEF Undisturbed, Purging, FinalInv, PurgesAreClean
    <3>2. ~disturbed'[r] /\ reqPc[r] \in Purging
      BY <2>4 DEF Undisturbed
    <3>3. ReqVideo(r) # RunVideo(h) \/ reqJob[r] = runJob[h]
      BY <2>1, <3>2 DEF Disturb
    <3>4. reqJob[r] # runJob[h]
      BY <1>1, <2>1, <3>1 DEF Halted, Exists
    <3>5. ~AtWork(ReqVideo(r))'
      BY <1>1, <2>2, <2>3, <3>1, <3>3, <3>4 DEF AtWork, PastRead
    <3>6. Halted(reqJob[r])'
      BY <1>1, <2>2, <3>1 DEF Halted
    <3> QED BY <3>5, <3>6
  <2>5. ASSUME NEW v \in gone'
        PROVE  \A g \in Runs : pc'[g] = "upload" => RunVideo(g)' # v
    BY <1>1, <2>2, <2>3 DEF FinalInv, DeletedVideosStayAway
  <2>6. ObjectsHaveKeys'
    BY <1>1, ObjectsFewer DEF FinalInv
  <2> QED BY <1>1, <1>2, <2>4, <2>5, <2>6, StepElsewhere
<1> QED BY <1>3, <1>4 DEF RunRead, Goto

LEMMA DispatchStep ==
  ASSUME FinalInv, TypeOK', RowsKept, NEW h \in Runs, Dispatch(h)
  PROVE  FinalInv'
<1>0. TypeOK /\ pc \in [Runs -> {"idle", "read"} \cup PastRead]
      /\ runJob \in [Runs -> Jobs \cup {NoJob}]
  BY DEF FinalInv, TypeOK
<1>1. PICK j \in Jobs :
        /\ jobs[j].tasks > 0
        /\ jobs' = [jobs EXCEPT ![j].tasks = @ - 1]
        /\ pc[h] = "idle" /\ pc' = [pc EXCEPT ![h] = "read"]
        /\ runJob' = [runJob EXCEPT ![h] = j]
        /\ UNCHANGED <<bucket, requestVars, gone>>
  BY DEF Dispatch, Goto
<1>2. /\ pc'[h] = "read" /\ runJob'[h] = j
      /\ \A g \in Runs \ {h} : pc'[g] = pc[g] /\ runJob'[g] = runJob[g]
  BY <1>0, <1>1
<1>3. /\ jobs'[j] = [jobs[j] EXCEPT !.tasks = jobs[j].tasks - 1]
      /\ \A i \in Jobs \ {j} : jobs'[i] = jobs[i]
  BY <1>0, <1>1, DispatchRows
<1>4. jobs'[j].status = jobs[j].status
  BY <1>0, <1>3 DEF TypeOK, Row
<1>5. ASSUME NEW r \in Requests, Undisturbed(r)
      PROVE  Halted(reqJob[r])'
  <2>1. reqJob[r] \in Jobs /\ Halted(reqJob[r]) /\ reqJob'[r] = reqJob[r]
    BY <1>0, <1>1, <1>5, RequestHasJob DEF FinalInv, PurgesAreClean, requestVars
  <2>2. CASE reqJob[r] = j
    BY <1>1, <1>4, <2>1, <2>2 DEF Halted
  <2>3. CASE reqJob[r] # j
    BY <1>2, <1>3, <2>1, <2>3 DEF Halted
  <2> QED BY <2>2, <2>3
<1>6. \A g \in Runs : pc'[g] \in PastRead => pc'[g] = pc[g] /\ runJob'[g] = runJob[g]
  BY <1>2 DEF PastRead
<1>7. UNCHANGED <<bucket, reqPc, reqJob, passed, warned, disturbed, gone>>
  BY <1>1 DEF requestVars
<1> QED BY <1>5, <1>6, <1>7, QuietStep

LEMMA CrashStep ==
  ASSUME FinalInv, TypeOK', RowsKept, NEW h \in Runs, RunCrash(h)
  PROVE  FinalInv'
<1>0. TypeOK /\ pc \in [Runs -> {"idle", "read"} \cup PastRead]
  BY DEF FinalInv, TypeOK
<1>1. /\ pc[h] # "idle" /\ pc' = [pc EXCEPT ![h] = "idle"]
      /\ jobs' = [jobs EXCEPT ![runJob[h]].tasks = @ + 1]
      /\ UNCHANGED <<bucket, runJob, reqPc, reqJob, passed, warned, disturbed, gone>>
  BY DEF RunCrash, requestVars
<1>2. PICK j \in Jobs : j = runJob[h] /\ jobs[j].status # "unborn"
  BY <1>0, <1>1, RunJobInserted
<1>3. /\ jobs'[j] = [jobs[j] EXCEPT !.tasks = jobs[j].tasks + 1]
      /\ \A i \in Jobs \ {j} : jobs'[i] = jobs[i]
  BY <1>0, <1>1, <1>2, CrashRows
<1>4. jobs'[j].status = jobs[j].status
  BY <1>0, <1>3 DEF TypeOK, Row
<1>5. \A g \in Runs : pc'[g] # "idle" => pc'[g] = pc[g]
  BY <1>0, <1>1
<1>6. ASSUME NEW r \in Requests, Undisturbed(r)
      PROVE  Halted(reqJob[r])'
  <2>1. reqJob[r] \in Jobs /\ Halted(reqJob[r]) /\ reqJob'[r] = reqJob[r]
    BY <1>0, <1>1, <1>6, RequestHasJob DEF FinalInv, PurgesAreClean
  <2>2. CASE reqJob[r] = j
    <3>1. pc[h] = "read"
      BY <1>0, <1>1, <1>2, <1>6, <2>2, OthersWork
    <3> QED BY <1>2, <1>4, <2>1, <2>2, <3>1 DEF Halted
  <2>3. CASE reqJob[r] # j
    <3>1. PICK i \in Jobs : i = reqJob[r] /\ Halted(i) /\ jobs'[i] = jobs[i]
      BY <1>3, <2>1, <2>3
    <3>2. \A g \in Runs : pc'[g] = "read" /\ runJob'[g] = i => pc[g] = "read" /\ runJob[g] = i
      BY <1>1, <1>5
    <3>3. Halted(i)'
      BY <3>1, <3>2, StaysHalted
    <3> QED BY <2>1, <3>1, <3>3 DEF Halted
  <2> QED BY <2>2, <2>3
<1>7. /\ UNCHANGED <<reqPc, reqJob, passed, warned>> /\ gone' \subseteq gone
      /\ bucket' = bucket
      /\ \A r \in Requests : disturbed[r] => disturbed'[r]
  BY <1>1
<1>8. \A g \in Runs : pc'[g] \in PastRead => pc'[g] = pc[g] /\ runJob'[g] = runJob[g]
  BY <1>1, <1>5 DEF PastRead
<1>9. \A r \in Requests : Undisturbed(r) /\ Undisturbed(r)' => Halted(reqJob[r])'
  BY <1>6
<1> QED BY <1>7, <1>8, <1>9, QuietStep

LEMMA ClientStep ==
  ASSUME FinalInv, TypeOK', RowsKept, NEW j \in Jobs, Retry(j) \/ DeleteJob(j)
  PROVE  FinalInv'
<1>0. TypeOK /\ disturbed \in [Requests -> BOOLEAN]
  BY DEF FinalInv, TypeOK
<1>1. UNCHANGED <<bucket, pc, runJob, reqPc, reqJob, passed, warned, gone>>
  BY DEF Retry, DeleteJob, runVars, requestVars
<1>2. \A r \in Requests : disturbed[r] => disturbed'[r]
  BY <1>0 DEF Retry, DeleteJob, Disturb, requestVars
<1>3. \A i \in Jobs \ {j} : jobs'[i] = jobs[i]
  BY <1>0, RetryRows, DeleteRows
<1>4. ASSUME NEW r \in Requests, Undisturbed(r), Undisturbed(r)'
      PROVE  Halted(reqJob[r])'
  <2>1. reqJob[r] \in Jobs /\ Halted(reqJob[r]) /\ reqJob'[r] = reqJob[r]
    BY <1>0, <1>1, <1>4, RequestHasJob DEF FinalInv, PurgesAreClean
  <2>2. CASE reqJob[r] = j
    <3>1. CASE Retry(j)
      <4>1. disturbed'[r]
        BY <1>4, <2>1, <2>2, <3>1 DEF Retry, Disturb, Undisturbed, ReqVideo
      <4> QED BY <1>4, <4>1 DEF Undisturbed
    <3>2. CASE DeleteJob(j)
      BY <1>0, <2>1, <2>2, <3>2, DeleteRows DEF Halted
    <3> QED BY <3>1, <3>2
  <2>3. CASE reqJob[r] # j
    BY <1>1, <1>3, <2>1, <2>3 DEF Halted
  <2> QED BY <2>2, <2>3
<1> QED BY <1>1, <1>2, <1>4, QuietStep

LEMMA ScannerStep ==
  ASSUME FinalInv, TypeOK', RowsKept, ScanStart \/ ScanCheck
  PROVE  FinalInv'
<1>0. TypeOK
  BY DEF FinalInv
<1>1. UNCHANGED <<bucket, pc, runJob, reqPc, reqJob, passed, warned, disturbed, gone>>
  BY DEF ScanStart, ScanCheck, runVars, requestVars
<1>2. \A i \in Jobs : jobs[i].status # "unborn" => jobs'[i] = jobs[i]
  <2>1. CASE UNCHANGED jobs
    BY <2>1
  <2>2. CASE ~UNCHANGED jobs
    <3>1. PICK v \in listed, i \in Jobs :
             /\ jobs[i].status = "unborn"
             /\ jobs' = [jobs EXCEPT ![i] =
                           [status |-> "pending", video |-> v, tasks |-> 1]]
      BY <2>2 DEF ScanStart, ScanCheck
    <3> QED BY <1>0, <3>1 DEF TypeOK
  <2> QED BY <2>1, <2>2
<1>3. ASSUME NEW r \in Requests, Undisturbed(r)
      PROVE  Halted(reqJob[r])'
  <2>1. /\ reqJob[r] \in Jobs /\ Halted(reqJob[r]) /\ reqJob'[r] = reqJob[r]
        /\ jobs[reqJob[r]].status # "unborn"
    BY <1>0, <1>1, <1>3, RequestHasJob DEF FinalInv, PurgesAreClean
  <2> QED BY <1>1, <1>2, <2>1 DEF Halted
<1> QED BY <1>1, <1>3, QuietStep

LEMMA DropStep ==
  ASSUME FinalInv, TypeOK', RowsKept, NEW v \in Videos, Drop(v)
  PROVE  FinalInv'
<1>0. TypeOK
  BY DEF FinalInv
<1>1. /\ bucket' = Put(SourceKey(v), v) /\ gone' = gone \ {v}
      /\ UNCHANGED <<jobs, pc, runJob, reqPc, reqJob, passed, warned, disturbed>>
  BY DEF Drop, runVars, requestVars
<1>2. \A o \in bucket' \ bucket : o.key = SourceKey(v) /\ o.of = v
  BY <1>1 DEF Put
<1>3. ObjectsHaveKeys'
  BY <1>1, <1>2 DEF FinalInv, ObjectsHaveKeys, Put
<1>4. ASSUME NEW r \in Requests, Undisturbed(r)
      PROVE  /\ ~AtWork(ReqVideo(r))' /\ Halted(reqJob[r])'
             /\ \A o \in bucket' \ bucket :
                  o.of = ReqVideo(r) => o.key = SourceKey(ReqVideo(r))
  <2>1. /\ ~AtWork(ReqVideo(r)) /\ Halted(reqJob[r]) /\ reqJob'[r] = reqJob[r]
    BY <1>1, <1>4 DEF FinalInv, PurgesAreClean
  <2> QED BY <1>1, <1>2, <2>1 DEF AtWork, Halted, RunVideo, ReqVideo
<1>5. ASSUME NEW w \in gone'
      PROVE  /\ \A o \in bucket' \ bucket : o.of # w
             /\ \A h \in Runs : pc'[h] = "upload" => RunVideo(h)' # w
  BY <1>1, <1>2, <1>5 DEF FinalInv, DeletedVideosStayAway, RunVideo
<1> QED BY <1>1, <1>3, <1>4, <1>5, StepElsewhere

(* The jobs after a statement of a request: its own may have been stopped. *)
LEMMA RequestJobs ==
  ASSUME TypeOK, NEW r \in Requests, DeleteUpload(r) \/ RequestDies(r)
  PROVE  /\ UNCHANGED <<pc, runJob>>
         /\ \A i \in Jobs : Halted(i) => Halted(i)'
<1>1. UNCHANGED <<pc, runJob>>
  BY DEF DeleteUpload, DeleteRead, DeleteCancel, PurgePage, DeleteSource, DeleteRow,
         RequestDies, runVars
<1>2. CASE UNCHANGED jobs
  BY <1>1, <1>2 DEF Halted
<1>3. CASE ~UNCHANGED jobs
  <2>1. reqPc[r] # "idle" /\ \E s \in {"cancelled", "deleted"} : UpdateJobStatus(reqJob[r], s)
    BY <1>3 DEF DeleteUpload, DeleteRead, DeleteCancel, PurgePage, DeleteSource, DeleteRow,
                RequestDies, Step
  <2>2. PICK s \in {"cancelled", "deleted"} : UpdateJobStatus(reqJob[r], s)
    BY <2>1
  <2>3. PICK j \in Jobs : j = reqJob[r]
    BY <2>1, ReqJobInserted
  <2>4. Exists(j) /\ s \in Status
    BY <1>3, <2>2, <2>3 DEF UpdateJobStatus, Status
  <2>5. /\ jobs'[j].status = s
        /\ \A i \in Jobs : jobs'[i].tasks = jobs[i].tasks
        /\ \A i \in Jobs \ {j} : jobs'[i].status = jobs[i].status
    BY <2>2, <2>3, <2>4, UpdateStep
  <2>6. ASSUME NEW i \in Jobs, Halted(i)
        PROVE  Halted(i)'
    <3>1. CASE i = j
      BY <2>5, <3>1 DEF Halted
    <3>2. CASE i # j
      BY <1>1, <2>5, <2>6, <3>2 DEF Halted
    <3> QED BY <3>1, <3>2
  <2> QED BY <1>1, <2>6
<1> QED BY <1>1, <1>2, <1>3

LEMMA RequestStep ==
  ASSUME FinalInv, TypeOK', RowsKept, DistinctKeys, NEW r \in Requests,
         DeleteUpload(r) \/ RequestDies(r)
  PROVE  FinalInv'
<1>0. /\ TypeOK /\ reqJob \in [Requests -> Jobs \cup {NoJob}]
      /\ reqPc \in [Requests -> {"idle", "cancel", "row", "done"} \cup Purging]
      /\ passed \in [Requests -> SUBSET AllKeys]
      /\ warned \in [Requests -> BOOLEAN] /\ disturbed \in [Requests -> BOOLEAN]
      /\ bucket \subseteq Object /\ gone \subseteq Videos
  BY DEF FinalInv, TypeOK
<1>1. UNCHANGED <<pc, runJob>> /\ \A i \in Jobs : Halted(i) => Halted(i)'
  BY <1>0, RequestJobs
<1>2. bucket' \subseteq bucket
  BY DEF DeleteUpload, DeleteRead, DeleteCancel, PurgePage, DeleteSource, DeleteRow, RequestDies
<1>3. ObjectsHaveKeys'
  BY <1>2, ObjectsFewer DEF FinalInv
<1>4. \A q \in Requests \ {r} :
        /\ reqPc'[q] = reqPc[q] /\ reqJob'[q] = reqJob[q] /\ passed'[q] = passed[q]
        /\ warned'[q] = warned[q] /\ disturbed'[q] = disturbed[q]
  BY <1>0 DEF DeleteUpload, DeleteRead, DeleteCancel, PurgePage, DeleteSource, DeleteRow,
              RequestDies, Step, Warn
<1>5. /\ \A h \in Runs : pc[h] # "idle" => RunVideo(h)' = RunVideo(h)
      /\ \A q \in Requests : reqPc[q] # "idle" /\ reqJob'[q] = reqJob[q] => ReqVideo(q)' = ReqVideo(q)
  BY <1>0, <1>1, VideosStay
<1>6. \A v : AtWork(v)' => AtWork(v)
  BY <1>1, <1>5 DEF AtWork, PastRead
<1>7. ASSUME NEW q \in Requests \ {r}, Undisturbed(q)'
      PROVE  (~AtWork(ReqVideo(q)) /\ Halted(reqJob[q]) /\ Swept(q))'
  <2>1. Undisturbed(q) /\ reqPc[q] # "idle" /\ reqJob[q] \in Jobs
    BY <1>0, <1>4, <1>7, RequestHasJob DEF Undisturbed, Purging
  <2>2. ReqVideo(q)' = ReqVideo(q) /\ reqJob'[q] = reqJob[q]
    BY <1>4, <1>5, <2>1
  <2>3. ~AtWork(ReqVideo(q)) /\ Halted(reqJob[q]) /\ Swept(q)
    BY <2>1 DEF FinalInv, PurgesAreClean
  <2>4. PICK j \in Jobs : j = reqJob[q]
    BY <2>1
  <2>5. Halted(j)'
    BY <1>1, <2>3, <2>4
  <2>6. Halted(reqJob[q])'
    BY <2>2, <2>4, <2>5 DEF Halted
  <2>7. Swept(q)'
    BY <1>2, <1>4, <2>2, <2>3 DEF Swept
  <2>8. ~AtWork(ReqVideo(q))'
    <3>1. PICK v : v = ReqVideo(q)
      OBVIOUS
    <3>2. ~AtWork(v)'
      BY <1>6, <2>3, <3>1
    <3> QED BY <2>2, <3>1, <3>2 DEF AtWork
  <2> QED BY <2>6, <2>7, <2>8
<1>8. ASSUME NEW q \in Requests \ {r}
      PROVE  /\ reqPc'[q] \in {"idle", "cancel"} => passed'[q] = {}
             /\ reqPc'[q] = "source" /\ ~warned'[q] => Under(ReqVideo(q)') \subseteq passed'[q]
  BY <1>4, <1>5 DEF FinalInv, ListingsAreComplete
<1>9. ASSUME Undisturbed(r)'
      PROVE  (~AtWork(ReqVideo(r)) /\ Halted(reqJob[r]) /\ Swept(r))'
  <2>1. CASE DeleteRead(r)
    <3>1. PICK j \in Jobs :
            /\ Exists(j)
            /\ reqPc[r] = "idle"
            /\ reqPc' = [reqPc EXCEPT ![r] = IF jobs[j].status \in Active THEN "cancel" ELSE "purge"]
            /\ reqJob' = [reqJob EXCEPT ![r] = j]
            /\ disturbed' = [disturbed EXCEPT ![r] = AtWork(jobs[j].video) \/ StillQueued(j)]
            /\ UNCHANGED <<jobs, passed>>
      BY <2>1 DEF DeleteRead, Step
    <3>2. reqJob'[r] = j /\ passed'[r] = {} /\ ReqVideo(r)' = jobs[j].video
      BY <1>0, <3>1 DEF FinalInv, ListingsAreComplete, ReqVideo
    <3>3. jobs[j].status \notin Active /\ ~AtWork(jobs[j].video) /\ ~StillQueued(j)
      BY <1>0, <1>9, <3>1 DEF Undisturbed, Purging
    <3>4. Halted(j)
      BY <3>3 DEF Halted, StillQueued
    <3>5. Halted(j)'
      BY <1>1, <3>4
    <3>6. Halted(reqJob[r])'
      BY <3>2, <3>5 DEF Halted
    <3>7. ~AtWork(ReqVideo(r))'
      <4>1. PICK v : v = jobs[j].video
        OBVIOUS
      <4>2. ~AtWork(v)'
        BY <1>6, <3>3, <4>1
      <4> QED BY <3>2, <4>1, <4>2 DEF AtWork
    <3>8. Swept(r)'
      BY <3>2 DEF Swept
    <3> QED BY <3>6, <3>7, <3>8
  <2>2. CASE DeleteCancel(r)
    <3>1. /\ reqPc[r] = "cancel" /\ UNCHANGED <<reqJob, passed>>
          /\ UpdateJobStatus(reqJob[r], "cancelled") /\ ~AtWork(ReqVideo(r))
      BY <1>0, <1>9, <2>2 DEF DeleteCancel, Step, Undisturbed
    <3>2. PICK j \in Jobs : j = reqJob[r] /\ jobs[j].status # "unborn"
      BY <1>0, <3>1, ReqJobInserted
    <3>3. jobs'[j].status \in {"cancelled", "deleted"}
      <4>1. CASE Exists(j)
        BY <1>0, <3>1, <3>2, <4>1, UpdateStep DEF Status
      <4>2. CASE ~Exists(j)
        BY <3>1, <3>2, <4>2 DEF UpdateJobStatus, Exists
      <4> QED BY <4>1, <4>2
    <3>4. Halted(reqJob[r])'
      BY <3>1, <3>2, <3>3 DEF Halted
    <3>5. passed'[r] = {}
      BY <3>1 DEF FinalInv, ListingsAreComplete
    <3>6. ReqVideo(r)' = ReqVideo(r)
      BY <1>5, <3>1
    <3>7. ~AtWork(ReqVideo(r))'
      <4>1. PICK v : v = ReqVideo(r)
        OBVIOUS
      <4>2. ~AtWork(v)'
        BY <1>6, <3>1, <4>1
      <4> QED BY <3>6, <4>1, <4>2 DEF AtWork
    <3>8. Swept(r)'
      BY <3>5 DEF Swept
    <3> QED BY <3>4, <3>7, <3>8
  <2>3. CASE ~DeleteRead(r) /\ ~DeleteCancel(r)
    <3>1. PurgePage(r) /\ UNCHANGED <<reqJob, disturbed>> /\ reqPc[r] \in Purging
      BY <1>0, <1>9, <2>3 DEF DeleteUpload, PurgePage, DeleteSource, DeleteRow, RequestDies,
                              Step, Undisturbed, Purging
    <3>2. Undisturbed(r) /\ reqPc[r] # "idle" /\ reqJob[r] \in Jobs
      BY <1>0, <1>9, <3>1, RequestHasJob DEF Undisturbed, Purging
    <3>3. ~AtWork(ReqVideo(r)) /\ Halted(reqJob[r]) /\ Swept(r)
      BY <3>2 DEF FinalInv, PurgesAreClean
    <3>4. ReqVideo(r)' = ReqVideo(r)
      BY <1>5, <3>1, <3>2
    <3>5. Halted(reqJob[r])'
      <4>1. PICK j \in Jobs : j = reqJob[r]
        BY <3>2
      <4>2. Halted(j)'
        BY <1>1, <3>3, <4>1
      <4> QED BY <3>1, <4>1, <4>2 DEF Halted
    <3>6. ~AtWork(ReqVideo(r))'
      <4>1. PICK v : v = ReqVideo(r)
        OBVIOUS
      <4>2. ~AtWork(v)'
        BY <1>6, <3>3, <4>1
      <4> QED BY <3>4, <4>1, <4>2 DEF AtWork
    <3>7. \A o \in bucket' : o \in bucket /\ (o.key \in passed'[r] => o.key \in passed[r])
      <4>1. CASE UNCHANGED <<bucket, passed>>
        BY <4>1
      <4>2. CASE ~UNCHANGED <<bucket, passed>>
        <5>1. PICK page \in SUBSET ToPass(r) : \E refused \in SUBSET (page \cap {o.key : o \in bucket}) :
                /\ passed' = [passed EXCEPT ![r] = @ \cup page]
                /\ bucket' = {o \in bucket : o.key \notin page \ refused}
                /\ refused = {} \/ disturbed' = [disturbed EXCEPT ![r] = TRUE]
          BY <3>1, <4>2 DEF PurgePage
        <5>2. ~(disturbed' = [disturbed EXCEPT ![r] = TRUE])
          BY <1>0, <1>9 DEF Undisturbed
        <5>3. /\ passed' = [passed EXCEPT ![r] = @ \cup page]
              /\ bucket' = {o \in bucket : o.key \notin page}
          BY <5>1, <5>2
        <5> QED BY <1>0, <5>3
      <4> QED BY <4>1, <4>2
    <3>8. Swept(r)'
      BY <3>3, <3>4, <3>7 DEF Swept
    <3> QED BY <3>5, <3>6, <3>8
  <2> QED BY <2>1, <2>2, <2>3
<1>10. /\ reqPc'[r] \in {"idle", "cancel"} => passed'[r] = {}
       /\ reqPc'[r] = "source" /\ ~warned'[r] => Under(ReqVideo(r)') \subseteq passed'[r]
  <2>1. CASE DeleteRead(r)
    <3>1. passed'[r] = {} /\ reqPc'[r] \in {"cancel", "purge"}
      BY <1>0, <2>1 DEF DeleteRead, Step, FinalInv, ListingsAreComplete
    <3> QED BY <3>1
  <2>2. CASE PurgePage(r) /\ reqPc'[r] = "source"
    <3>1. /\ reqPc[r] = "purge" /\ UNCHANGED <<reqJob, passed>>
          /\ warned'[r] \/ ToPass(r) = {}
      BY <1>0, <2>2 DEF PurgePage, Step, Warn
    <3>2. ReqVideo(r)' = ReqVideo(r)
      BY <1>5, <3>1
    <3> QED BY <2>2, <3>1, <3>2 DEF ToPass
  <2>3. CASE ~DeleteRead(r) /\ ~(PurgePage(r) /\ reqPc'[r] = "source")
    <3>1. reqPc'[r] \in {"purge", "row", "done"}
      BY <1>0, <2>3 DEF DeleteUpload, DeleteCancel, PurgePage, DeleteSource, DeleteRow,
                        RequestDies, Step
    <3> QED BY <3>1
  <2> QED BY <2>1, <2>2, <2>3
<1>11. ASSUME NEW v \in gone'
       PROVE  /\ \A o \in bucket' : o.of # v
              /\ \A h \in Runs : pc'[h] = "upload" => RunVideo(h)' # v
  <2>1. CASE v \in gone
    BY <1>1, <1>2, <1>5, <2>1 DEF FinalInv, DeletedVideosStayAway
  <2>2. CASE v \notin gone
    <3>1. /\ reqPc[r] = "source" /\ ~warned[r] /\ ~disturbed[r] /\ v = ReqVideo(r)
          /\ bucket' = {o \in bucket : o.key # SourceKey(v)}
      BY <1>11, <2>2 DEF DeleteUpload, DeleteRead, DeleteCancel, PurgePage, DeleteSource,
                         DeleteRow, RequestDies, Step
    <3>2. ~AtWork(v) /\ Swept(r) /\ Under(v) \subseteq passed[r]
      BY <3>1 DEF FinalInv, PurgesAreClean, ListingsAreComplete, Undisturbed, Purging
    <3>3. ASSUME NEW o \in bucket', o.of = v
          PROVE  FALSE
      <4>1. o \in bucket /\ o.key # SourceKey(v) /\ v \in Videos
        BY <1>0, <3>1, <3>3 DEF Object
      <4>2. PICK p \in Parts : o.key = OutputKey(v, p)
        BY <3>3, <4>1 DEF FinalInv, ObjectsHaveKeys
      <4>3. o.key \in passed[r]
        BY <3>2, <4>1, <4>2 DEF DistinctKeys
      <4> QED BY <3>1, <3>2, <3>3, <4>1, <4>3 DEF Swept
    <3>4. ASSUME NEW h \in Runs, pc'[h] = "upload"
          PROVE  RunVideo(h)' # v
      BY <1>1, <1>5, <3>2, <3>4 DEF AtWork, PastRead
    <3> QED BY <3>3, <3>4
  <2> QED BY <2>1, <2>2
<1>12. PurgesAreClean'
  BY <1>7, <1>9 DEF PurgesAreClean
<1>13. ListingsAreComplete'
  BY <1>8, <1>10 DEF ListingsAreComplete, ReqVideo, Under
<1>14. DeletedVideosStayAway'
  BY <1>11 DEF DeletedVideosStayAway
<1> QED BY <1>3, <1>12, <1>13, <1>14 DEF FinalInv

LEMMA FinalStep ==
  ASSUME FinalInv, TypeOK', DistinctKeys, [Next]_vars
  PROVE  FinalInv'
<1>1. CASE UNCHANGED vars
  BY <1>1 DEF vars, runVars, requestVars, FinalInv, TypeOK, ObjectsHaveKeys, PurgesAreClean,
              ListingsAreComplete, DeletedVideosStayAway, Undisturbed, Halted, Swept, AtWork,
              ReqVideo, RunVideo
<1>2. CASE Next
  <2>1. RowsKept
    BY <1>2, StepKeepsRows DEF FinalInv
  <2>2. ASSUME NEW h \in Runs, HandleTranscode(h)
        PROVE  FinalInv'
    BY <2>1, <2>2, ReadStep, WorkerStep DEF HandleTranscode
  <2> QED BY <1>2, <2>1, <2>2, DropStep, ScannerStep, DispatchStep, CrashStep, ClientStep,
             RequestStep DEF Next
<1> QED BY <1>1, <1>2

LEMMA FinalInit ==
  ASSUME Init
  PROVE  FinalInv
BY TypeInit DEF Init, FinalInv, ObjectsHaveKeys, PurgesAreClean, ListingsAreComplete,
                DeletedVideosStayAway, Undisturbed, Purging

(* With names that keep keys apart, a deletion that nothing disturbed is   *)
(* final, for any number of videos, jobs, handlers, requests and failures  *)
(* (media.go DeleteUpload against scanner.go scanOnce and handler.go       *)
(* HandleTranscode).                                                       *)
THEOREM DeletionIsFinal ==
  ASSUME DistinctKeys
  PROVE  Spec => []DeletedVideosStayAway
<1>1. FinalInv /\ [Next]_vars => FinalInv'
  <2> SUFFICES ASSUME FinalInv, [Next]_vars
               PROVE  FinalInv'
    OBVIOUS
  <2>1. TypeOK'
    BY TypeStep DEF FinalInv
  <2> QED BY <2>1, FinalStep
<1>2. Spec => []FinalInv
  BY <1>1, FinalInit, PTL DEF Spec
<1>3. FinalInv => DeletedVideosStayAway
  BY DEF FinalInv
<1> QED BY <1>2, <1>3, PTL

-----------------------------------------------------------------------------
(* A deletion takes nothing of other videos.                               *)

InPlace(v, p) == [key |-> OutputKey(v, p), of |-> v] \in bucket

Purged(v) ==
  \E r \in Requests : reqPc[r] \in Purging \cup {"row", "done"} /\ ReqVideo(r) = v

(* What a handler has put is there, unless the video is being deleted.     *)
PutsStay ==
  \A h \in Runs : pc[h] = "upload" =>
    (\A p \in Parts \ left[h] : InPlace(RunVideo(h), p)) \/ Purged(RunVideo(h))

OutputsStay ==
  \A j \in Jobs : jobs[j].status = "completed" =>
    (\A p \in Parts : InPlace(jobs[j].video, p)) \/ Purged(jobs[j].video)

PlacedInv == TypeOK /\ PutsStay /\ OutputsStay

(* What every step grants: an object stays in its place unless its video   *)
(* is being purged, and a purge is not forgotten.                          *)
LEMMA PurgedStays ==
  ASSUME TypeOK, RowsKept, [Next]_vars, NEW v, Purged(v)
  PROVE  Purged(v)'
<1>1. PICK r \in Requests : reqPc[r] \in Purging \cup {"row", "done"} /\ ReqVideo(r) = v
  BY DEF Purged
<1>2. reqPc'[r] \in Purging \cup {"row", "done"} /\ reqJob'[r] = reqJob[r]
  <2>1. CASE UNCHANGED <<reqPc, reqJob>>
    BY <1>1, <2>1
  <2>2. ASSUME NEW q \in Requests, DeleteUpload(q) \/ RequestDies(q)
        PROVE  reqPc'[r] \in Purging \cup {"row", "done"} /\ reqJob'[r] = reqJob[r]
    <3>0. /\ reqPc \in [Requests -> {"idle", "cancel", "row", "done"} \cup Purging]
          /\ reqJob \in [Requests -> Jobs \cup {NoJob}]
      BY DEF TypeOK
    <3>1. CASE q # r
      BY <1>1, <2>2, <3>0, <3>1 DEF DeleteUpload, DeleteRead, DeleteCancel, PurgePage,
         DeleteSource, DeleteRow, RequestDies, Step
    <3>2. CASE q = r
      BY <1>1, <2>2, <3>0, <3>2 DEF DeleteUpload, DeleteRead, DeleteCancel, PurgePage,
         DeleteSource, DeleteRow, RequestDies, Step, Purging
    <3> QED BY <3>1, <3>2
  <2>3. UNCHANGED <<reqPc, reqJob>> \/ \E q \in Requests : DeleteUpload(q) \/ RequestDies(q)
    BY DEF Next, vars, requestVars, runVars, Drop, ScanStart, ScanCheck, Dispatch, RunCrash,
           HandleTranscode, RunRead, RunBegin, RunDownload, RunPut, RunStuck, RunComplete,
           RunFail, Retry, DeleteJob
  <2> QED BY <2>1, <2>2, <2>3
<1>3. ReqVideo(r)' = v
  BY <1>1, <1>2, VideosStay DEF Purging
<1> QED BY <1>2, <1>3 DEF Purged

LEMMA ObjectsStay ==
  ASSUME TypeOK, RowsKept, DistinctKeys, KeptApart, [Next]_vars,
         NEW v \in Videos, NEW p \in Parts, InPlace(v, p)
  PROVE  InPlace(v, p)' \/ Purged(v)
<1> DEFINE o == [key |-> OutputKey(v, p), of |-> v]
<1>1. o \in bucket /\ o.key = OutputKey(v, p) /\ o.of = v
  BY DEF InPlace
<1>2. SUFFICES ASSUME o \notin bucket'
               PROVE  Purged(v)
  BY DEF InPlace
<1> HIDE DEF o
<1>3. ASSUME NEW w \in Videos, bucket' = Put(SourceKey(w), w)
      PROVE  FALSE
  BY <1>1, <1>2, <1>3 DEF Put, DistinctKeys
<1>4. ASSUME NEW h \in Runs, RunPut(h)
      PROVE  FALSE
  <2>1. PICK q \in left[h] :
           pc[h] = "upload" /\ bucket' = Put(OutputKey(RunVideo(h), q), RunVideo(h))
    BY <1>4 DEF RunPut
  <2>2. PICK w \in Videos : w = RunVideo(h)
    BY <2>1, RunJobInserted
  <2>3. q \in Parts
    BY <2>1 DEF TypeOK
  <2>4. OutputKey(w, q) = o.key
    BY <1>1, <1>2, <2>1, <2>2 DEF Put
  <2>5. w = v
    BY <1>1, <2>3, <2>4 DEF DistinctKeys, KeptApart
  <2>6. o = [key |-> OutputKey(w, q), of |-> w]
    BY <1>1, <2>4, <2>5 DEF o
  <2> QED BY <1>2, <2>1, <2>2, <2>6 DEF Put
<1>5. ASSUME NEW r \in Requests, PurgePage(r)
      PROVE  Purged(v)
  <2>1. PICK page \in SUBSET ToPass(r) :
           reqPc[r] = "purge" /\ bucket' = {x \in bucket : x.key \notin page}
    BY <1>1, <1>2, <1>5 DEF PurgePage
  <2>2. o.key \in Under(ReqVideo(r))
    BY <1>1, <1>2, <2>1 DEF ToPass
  <2>3. ReqVideo(r) \in Videos
    BY <2>1, ReqJobInserted
  <2>4. ReqVideo(r) = v
    BY <1>1, <2>2, <2>3 DEF KeptApart
  <2> QED BY <2>1, <2>4 DEF Purged, Purging
<1>6. ASSUME NEW r \in Requests, DeleteSource(r)
      PROVE  FALSE
  <2>1. reqPc[r] = "source" /\ bucket' = {x \in bucket : x.key # SourceKey(ReqVideo(r))}
    BY <1>1, <1>2, <1>6 DEF DeleteSource, Step
  <2>2. ReqVideo(r) \in Videos
    BY <2>1, ReqJobInserted
  <2> QED BY <1>1, <1>2, <2>1, <2>2 DEF DistinctKeys
<1>7. \/ \E w \in Videos : bucket' = Put(SourceKey(w), w)
      \/ \E h \in Runs : RunPut(h)
      \/ \E r \in Requests : PurgePage(r) \/ DeleteSource(r)
  BY <1>1, <1>2 DEF Next, vars, Drop, ScanStart, ScanCheck, Dispatch, RunCrash,
       HandleTranscode, RunRead, RunBegin, RunDownload, RunStuck, RunComplete,
       RunFail, Retry, DeleteJob, DeleteUpload, DeleteRead, DeleteCancel, DeleteRow, RequestDies
<1> QED BY <1>3, <1>4, <1>5, <1>6, <1>7

(* A handler that is putting parts began with all of them and takes them   *)
(* one by one.                                                             *)
LEMMA PuttingGoesOn ==
  ASSUME TypeOK, [Next]_vars, NEW h \in Runs, pc'[h] = "upload"
  PROVE  \/ left'[h] = Parts
         \/ /\ pc[h] = "upload" /\ runJob'[h] = runJob[h]
            /\ \/ left'[h] = left[h]
               \/ \E p \in left[h] :
                    /\ left'[h] = left[h] \ {p}
                    /\ bucket' = Put(OutputKey(RunVideo(h), p), RunVideo(h))
<1>0. /\ pc \in [Runs -> {"idle", "read"} \cup PastRead]
      /\ runJob \in [Runs -> Jobs \cup {NoJob}] /\ left \in [Runs -> SUBSET Parts]
  BY DEF TypeOK
<1>1. CASE UNCHANGED runVars
  BY <1>1 DEF runVars
<1>2. ASSUME NEW g \in Runs, Dispatch(g) \/ HandleTranscode(g) \/ RunCrash(g)
      PROVE  \/ left'[h] = Parts
             \/ /\ pc[h] = "upload" /\ runJob'[h] = runJob[h]
                /\ \/ left'[h] = left[h]
                   \/ \E p \in left[h] :
                        /\ left'[h] = left[h] \ {p}
                        /\ bucket' = Put(OutputKey(RunVideo(h), p), RunVideo(h))
  <2>1. CASE g # h
    BY <1>0, <1>2, <2>1 DEF Dispatch, HandleTranscode, RunRead, RunBegin, RunDownload, RunPut,
                            RunStuck, RunComplete, RunFail, RunCrash, Goto
  <2>2. CASE g = h
    <3>1. RunPut(h) \/ RunDownload(h)
      BY <1>0, <1>2, <2>2 DEF Dispatch, HandleTranscode, RunRead, RunBegin,
                              RunStuck, RunComplete, RunFail, RunCrash, Goto
    <3>2. CASE RunPut(h)
      BY <1>0, <3>2 DEF RunPut
    <3>3. CASE RunDownload(h)
      BY <1>0, <3>3 DEF RunDownload, Goto
    <3> QED BY <3>1, <3>2, <3>3
  <2> QED BY <2>1, <2>2
<1>3. UNCHANGED runVars \/ \E g \in Runs : Dispatch(g) \/ HandleTranscode(g) \/ RunCrash(g)
  BY DEF Next, vars, Drop, ScanStart, ScanCheck, Retry, DeleteJob, DeleteUpload, DeleteRead,
         DeleteCancel, PurgePage, DeleteSource, DeleteRow, RequestDies
<1> QED BY <1>1, <1>2, <1>3

(* Only a handler that has put every part completes a job.                 *)
LEMMA CompletedByItsHandler ==
  ASSUME TypeOK, [Next]_vars, NEW j \in Jobs, jobs'[j].status = "completed"
  PROVE  \/ jobs[j].status = "completed"
         \/ \E h \in Runs : pc[h] = "upload" /\ left[h] = {} /\ runJob[h] = j
<1>0. jobs \in [Jobs -> Row]
  BY DEF TypeOK
<1>1. SUFFICES ASSUME jobs[j].status # "completed"
               PROVE  \E h \in Runs : pc[h] = "upload" /\ left[h] = {} /\ runJob[h] = j
  OBVIOUS
<1>2. ASSUME NEW h \in Runs, RunComplete(h)
      PROVE  pc[h] = "upload" /\ left[h] = {} /\ runJob[h] = j
  BY <1>0, <1>1, <1>2 DEF RunComplete, Goto, UpdateJobStatus
<1>3. CASE UNCHANGED jobs
  BY <1>1, <1>3
<1>4. CASE ScanCheck
  BY <1>0, <1>1, <1>4 DEF ScanCheck
<1>5. ASSUME NEW i \in Jobs, Retry(i) \/ DeleteJob(i)
      PROVE  FALSE
  <2>1. i = j \/ jobs'[j] = jobs[j]
    BY <1>0, <1>5, RetryRows, DeleteRows
  <2>2. jobs'[i].status \in {"pending", "deleted"}
    BY <1>0, <1>5, RetryRows, DeleteRows
  <2> QED BY <1>1, <2>1, <2>2
<1>6. ASSUME NEW h \in Runs, Dispatch(h) \/ RunCrash(h)
      PROVE  FALSE
  <2>1. CASE Dispatch(h)
    <3>1. PICK i \in Jobs : jobs[i].tasks > 0 /\ jobs' = [jobs EXCEPT ![i].tasks = @ - 1]
      BY <2>1 DEF Dispatch
    <3>2. jobs'[i] = [jobs[i] EXCEPT !.tasks = jobs[i].tasks - 1] /\ \A k \in Jobs \ {i} : jobs'[k] = jobs[k]
      BY <3>1, DispatchRows
    <3> QED BY <1>0, <1>1, <3>2 DEF Row
  <2>2. CASE RunCrash(h)
    <3>1. PICK i \in Jobs : i = runJob[h] /\ jobs[i].status # "unborn"
      BY <2>2, RunJobInserted DEF RunCrash
    <3>2. jobs' = [jobs EXCEPT ![i].tasks = @ + 1]
      BY <2>2, <3>1 DEF RunCrash
    <3>3. jobs'[i] = [jobs[i] EXCEPT !.tasks = jobs[i].tasks + 1] /\ \A k \in Jobs \ {i} : jobs'[k] = jobs[k]
      BY <3>1, <3>2, CrashRows
    <3> QED BY <1>0, <1>1, <3>3 DEF Row
  <2> QED BY <1>6, <2>1, <2>2
<1>7. ASSUME NEW i, NEW s \in {"running", "failed", "cancelled", "deleted"}, UpdateJobStatus(i, s)
      PROVE  FALSE
  BY <1>0, <1>1, <1>7 DEF UpdateJobStatus
<1>8. \/ UNCHANGED jobs \/ ScanCheck
      \/ \E i \in Jobs : Retry(i) \/ DeleteJob(i)
      \/ \E h \in Runs : Dispatch(h) \/ RunCrash(h) \/ RunComplete(h)
      \/ \E i : \E s \in {"running", "failed", "cancelled", "deleted"} : UpdateJobStatus(i, s)
  BY DEF Next, vars, Drop, ScanStart, HandleTranscode, RunRead, RunBegin, RunDownload, RunPut,
         RunStuck, RunFail, DeleteUpload, DeleteRead, DeleteCancel, PurgePage,
         DeleteSource, DeleteRow, RequestDies
<1> QED BY <1>2, <1>3, <1>4, <1>5, <1>6, <1>7, <1>8

LEMMA PlacedStep ==
  ASSUME PlacedInv, TypeOK', DistinctKeys, KeptApart, [Next]_vars
  PROVE  PlacedInv'
<1>0. TypeOK /\ PutsStay /\ OutputsStay
  BY DEF PlacedInv
<1>1. RowsKept
  BY <1>0, SameRows, StepKeepsRows DEF vars
<1>2. ASSUME NEW h \in Runs, pc'[h] = "upload"
      PROVE  ((\A p \in Parts \ left[h] : InPlace(RunVideo(h), p)) \/ Purged(RunVideo(h)))'
  <2>1. CASE left'[h] = Parts
    BY <2>1
  <2>2. CASE /\ pc[h] = "upload" /\ runJob'[h] = runJob[h]
             /\ \/ left'[h] = left[h]
                \/ \E p \in left[h] :
                     /\ left'[h] = left[h] \ {p}
                     /\ bucket' = Put(OutputKey(RunVideo(h), p), RunVideo(h))
    <3>1. PICK v \in Videos : v = RunVideo(h)
      BY <1>0, <2>2, RunJobInserted
    <3>2. RunVideo(h)' = v
      BY <1>0, <1>1, <2>2, <3>1, VideosStay
    <3>3. (\A p \in Parts \ left[h] : InPlace(v, p)) \/ Purged(v)
      BY <1>0, <2>2, <3>1 DEF PutsStay
    <3>4. CASE Purged(v)
      <4>1. Purged(v)'
        BY <1>0, <1>1, <3>4, PurgedStays
      <4> QED BY <3>2, <4>1 DEF Purged
    <3>5. CASE ~Purged(v)
      <4>1. ASSUME NEW p \in Parts \ left'[h]
            PROVE  InPlace(v, p)'
        <5>1. CASE p \notin left[h]
          BY <1>0, <1>1, <3>3, <3>5, <5>1, ObjectsStay
        <5>2. CASE p \in left[h]
          BY <2>2, <3>1, <4>1, <5>2 DEF Put, InPlace
        <5> QED BY <5>1, <5>2
      <4> QED BY <3>2, <4>1 DEF InPlace
    <3> QED BY <3>4, <3>5
  <2> QED BY <1>0, <1>2, <2>1, <2>2, PuttingGoesOn
<1>3. ASSUME NEW j \in Jobs, jobs'[j].status = "completed"
      PROVE  ((\A p \in Parts : InPlace(jobs[j].video, p)) \/ Purged(jobs[j].video))'
  <2>1. jobs[j].status # "unborn"
    BY <1>0, <1>3, RunJobInserted, CompletedByItsHandler
  <2>2. PICK v \in Videos : v = jobs[j].video
    BY <1>0, <2>1 DEF TypeOK
  <2>3. jobs'[j].video = v
    BY <1>1, <2>1, <2>2 DEF RowsKept
  <2>4. (\A p \in Parts : InPlace(v, p)) \/ Purged(v)
    <3>1. CASE jobs[j].status = "completed"
      BY <1>0, <2>2, <3>1 DEF OutputsStay
    <3>2. ASSUME NEW h \in Runs, pc[h] = "upload", left[h] = {}, runJob[h] = j
          PROVE  (\A p \in Parts : InPlace(v, p)) \/ Purged(v)
      BY <1>0, <2>2, <3>2 DEF PutsStay, RunVideo
    <3> QED BY <1>0, <1>3, <3>1, <3>2, CompletedByItsHandler
  <2>5. CASE Purged(v)
    <3>1. Purged(v)'
      BY <1>0, <1>1, <2>5, PurgedStays
    <3> QED BY <2>3, <3>1 DEF Purged
  <2>6. CASE ~Purged(v)
    <3>1. \A p \in Parts : InPlace(v, p)'
      BY <1>0, <1>1, <2>4, <2>6, ObjectsStay
    <3> QED BY <2>3, <3>1 DEF InPlace
  <2> QED BY <2>5, <2>6
<1> QED BY <1>2, <1>3 DEF PlacedInv, PutsStay, OutputsStay

LEMMA PlacedInit ==
  ASSUME Init
  PROVE  PlacedInv
BY TypeInit DEF Init, PlacedInv, PutsStay, OutputsStay

(* With names that keep outputs apart, a completed video keeps its output  *)
(* until an entry of this very video is deleted, whatever else is          *)
(* scanned, transcoded, retried or deleted (scanner.go outputPrefixForKey, *)
(* s3.go DeletePrefix).                                                    *)
THEOREM PurgesSpareOthers ==
  ASSUME DistinctKeys, KeptApart
  PROVE  Spec => []OthersKeepTheirOutput
<1>1. PlacedInv /\ [Next]_vars => PlacedInv'
  <2> SUFFICES ASSUME PlacedInv, [Next]_vars
               PROVE  PlacedInv'
    OBVIOUS
  <2>1. TypeOK'
    BY TypeStep DEF PlacedInv
  <2> QED BY <2>1, PlacedStep
<1>2. Spec => []PlacedInv
  BY <1>1, PlacedInit, PTL DEF Spec
<1>3. PlacedInv => OthersKeepTheirOutput
  BY DEF PlacedInv, OutputsStay, OthersKeepTheirOutput, InPlace, Purged
<1> QED BY <1>2, <1>3, PTL

-----------------------------------------------------------------------------
(* The names the scanner makes when no template is set.                    *)

(* No hash is shared, and none occurs in the file name of another video.   *)
UniqueNames(Atom) ==
  /\ Template = <<>> /\ OutputPrefix \in Seq(Atom) /\ OutputBucket \in Atom
  /\ Parts \subseteq Atom
  /\ \A v \in Videos : v.base \in Seq(Atom) /\ v.hash \in Seq(Atom) /\ Len(v.hash) = 1
  /\ \A v, w \in Videos : v # w =>
       /\ v.hash[1] # w.hash[1] /\ w.hash[1] \notin Parts
       /\ \A i \in 1 .. Len(v.base) : v.base[i] # w.hash[1]

(* The folder of a video ends with a hash of its key, so that uniqueFolder *)
(* keeps the outputs apart, even of names that begin alike (scanner.go     *)
(* uniqueFolder, s3.go DeletePrefix, which trims the slash).               *)
THEOREM UniqueFoldersKeepApart ==
  ASSUME NEW Atom, UniqueNames(Atom)
  PROVE  KeptApart
<1> SUFFICES ASSUME NEW v \in Videos, NEW w \in Videos, v # w, NEW p \in Parts,
                    OutputKey(v, p) \in Under(w)
             PROVE  FALSE
  BY DEF KeptApart
<1> DEFINE at(f, x) == Len(f) + Len(x.base) + 1
<1>1. PICK f \in Seq(Atom) : f = <<OutputBucket>> \o OutputPrefix
  <2>1. PICK g \in Seq(Atom), k \in Seq(Atom) : g = <<OutputBucket>> /\ k = OutputPrefix
    <3>1. OutputBucket \in Atom /\ OutputPrefix \in Seq(Atom)
      BY DEF UniqueNames
    <3>2. <<OutputBucket>> \in Seq(Atom)
      BY <3>1
    <3> QED BY <3>1, <3>2, Zenon
  <2>2. g \o k \in Seq(Atom)
    BY ConcatProperties
  <2> QED BY <2>1, <2>2
<1>2. ASSUME NEW x \in Videos
      PROVE  /\ Output(x) \in Seq(Atom) /\ Len(Output(x)) = at(f, x)
             /\ Output(x)[at(f, x)] = x.hash[1]
             /\ \A i \in 1 .. Len(x.base) : Output(x)[Len(f) + i] = x.base[i]
  <2>1. PICK b \in Seq(Atom), h \in Seq(Atom) : b = x.base /\ h = x.hash /\ Len(h) = 1
    BY DEF UniqueNames
  <2>2. /\ b \o h \in Seq(Atom) /\ Len(b \o h) = Len(b) + 1
        /\ \A i \in 1 .. Len(b) + 1 : (b \o h)[i] = IF i <= Len(b) THEN b[i] ELSE h[i - Len(b)]
    <3>1. /\ b \o h \in Seq(Atom) /\ Len(b \o h) = Len(b) + Len(h)
          /\ \A i \in 1 .. Len(b) + Len(h) : (b \o h)[i] = IF i <= Len(b) THEN b[i] ELSE h[i - Len(b)]
      BY ConcatProperties
    <3>2. Len(h) = 1
      BY <2>1
    <3> QED BY <3>1, <3>2
  <2>3. PICK t \in Seq(Atom) : t = b \o h
    BY <2>2
  <2>4. Output(x) = f \o t
    <3>1. Output(x) = <<OutputBucket>> \o (OutputPrefix \o t)
      BY <2>1, <2>3 DEF Output, outputPrefixForKey, uniqueFolder, UniqueNames
    <3>2. OutputPrefix \in Seq(Atom) /\ OutputBucket \in Atom
      BY DEF UniqueNames
    <3> QED BY <1>1, <3>1, <3>2
  <2>5. /\ f \o t \in Seq(Atom) /\ Len(f \o t) = Len(f) + Len(t)
        /\ \A i \in 1 .. Len(f) + Len(t) : (f \o t)[i] = IF i <= Len(f) THEN f[i] ELSE t[i - Len(f)]
    BY ConcatProperties
  <2>6. Len(f) \in Nat /\ Len(b) \in Nat /\ Len(t) = Len(b) + 1
    BY <2>2, <2>3
  <2>7. ASSUME NEW i \in 1 .. Len(b) + 1
        PROVE  (f \o t)[Len(f) + i] = t[i]
    <3>1. PICK k : k = Len(f) + i
      OBVIOUS
    <3>2. k \in 1 .. Len(f) + Len(t) /\ ~(k <= Len(f)) /\ k - Len(f) = i
      BY <2>6, <3>1
    <3>3. (f \o t)[k] = t[k - Len(f)]
      BY <2>5, <3>2
    <3> QED BY <3>1, <3>2, <3>3
  <2>8. (f \o t)[Len(f) + Len(b) + 1] = h[1]
    <3>1. PICK k : k = Len(b) + 1
      OBVIOUS
    <3>2. /\ k \in 1 .. Len(b) + 1 /\ ~(k <= Len(b)) /\ k - Len(b) = 1
          /\ Len(f) + k = Len(f) + Len(b) + 1
      BY <2>6, <3>1
    <3>3. t[k] = h[1]
      BY <2>2, <2>3, <3>2
    <3> QED BY <2>7, <3>2, <3>3
  <2>9. ASSUME NEW i \in 1 .. Len(b)
        PROVE  (f \o t)[Len(f) + i] = b[i]
    <3>1. i \in 1 .. Len(b) + 1 /\ i <= Len(b)
      BY <2>6
    <3>2. t[i] = b[i]
      BY <2>2, <2>3, <3>1
    <3> QED BY <2>7, <3>1, <3>2
  <2> QED BY <2>1, <2>4, <2>5, <2>6, <2>8, <2>9
<1>3. IsPrefix(Output(w), Append(Output(v), p))
  BY DEF Under, OutputKey
<1>4. Len(f) \in Nat /\ Len(v.base) \in Nat /\ Len(w.base) \in Nat
  BY DEF UniqueNames
<1>5. PICK o \in Seq(Atom) :
        /\ o = Output(v) /\ Len(o) = at(f, v) /\ o[at(f, v)] = v.hash[1]
        /\ \A i \in 1 .. Len(v.base) : o[Len(f) + i] = v.base[i]
  BY <1>2
<1>6. PICK u \in Seq(Atom) : u = Output(w) /\ Len(u) = at(f, w) /\ u[at(f, w)] = w.hash[1]
  BY <1>2
<1>7. /\ Len(u) <= Len(o) + 1
      /\ \A i \in 1 .. Len(u) : u[i] = Append(o, p)[i]
  <2>1. Append(o, p) \in Seq(Atom) /\ Len(Append(o, p)) = Len(o) + 1
    BY DEF UniqueNames
  <2> QED BY <1>3, <1>5, <1>6, <2>1 DEF IsPrefix
<1>8. /\ \A i \in 1 .. Len(o) : Append(o, p)[i] = o[i]
      /\ Append(o, p)[Len(o) + 1] = p
  BY DEF UniqueNames
<1>9. Append(o, p)[at(f, w)] = w.hash[1]
  <2>1. at(f, w) \in 1 .. Len(u)
    BY <1>4, <1>6
  <2> QED BY <1>6, <1>7, <2>1
<1>10. CASE Len(w.base) < Len(v.base)
  <2>1. Len(w.base) + 1 \in 1 .. Len(v.base) /\ Len(f) + (Len(w.base) + 1) = at(f, w)
    BY <1>4, <1>10
  <2>2. o[at(f, w)] = v.base[Len(w.base) + 1]
    BY <1>5, <2>1
  <2>3. at(f, w) \in 1 .. Len(o)
    BY <1>4, <1>5, <1>10
  <2>4. w.hash[1] = v.base[Len(w.base) + 1]
    BY <1>8, <1>9, <2>2, <2>3
  <2> QED BY <2>1, <2>4 DEF UniqueNames
<1>11. CASE Len(w.base) = Len(v.base)
  <2>1. at(f, w) = Len(o) /\ at(f, v) = Len(o) /\ Len(o) \in 1 .. Len(o)
    BY <1>4, <1>5, <1>11
  <2>2. w.hash[1] = v.hash[1]
    BY <1>5, <1>8, <1>9, <2>1
  <2> QED BY <2>2 DEF UniqueNames
<1>12. CASE Len(w.base) > Len(v.base)
  <2>1. at(f, w) = Len(o) + 1
    <3>1. PICK a \in Nat, b \in Nat, c \in Nat :
            a = Len(f) /\ b = Len(v.base) /\ c = Len(w.base)
      BY <1>4
    <3>2. Len(o) = a + b + 1 /\ at(f, w) = a + c + 1
      BY <1>5, <3>1
    <3>3. Len(u) <= Len(o) + 1 /\ Len(u) = at(f, w)
      BY <1>6, <1>7
    <3>4. a + c + 1 <= a + b + 1 + 1
      <4> HIDE DEF at
      <4> QED BY <3>2, <3>3
    <3>5. c > b
      BY <1>12, <3>1
    <3> QED BY <3>2, <3>4, <3>5
  <2>2. w.hash[1] = p
    BY <1>8, <1>9, <2>1
  <2> QED BY <2>2 DEF UniqueNames
<1> QED BY <1>4, <1>10, <1>11, <1>12

=============================================================================
