----------------------------- MODULE TaskQueue ------------------------------
(***************************************************************************)
(* The Redis queue the code reaches through asynq.  It is not part of the  *)
(* repository: a task carries a job id (EnqueueJob sets neither a task id  *)
(* nor uniqueness, so a job may have several), is handed to one worker at  *)
(* a time, and comes back when its handler fails, overruns its deadline or *)
(* disappears with its process.  The three queues critical, default and    *)
(* low are polled with weights, so no order between tasks is promised.     *)
(***************************************************************************)
EXTENDS Integers

CONSTANTS Jobs,      \* job ids
          Tasks,     \* task ids, one per call of EnqueueJob
          NoJob,     \* the job of a task not enqueued yet
          MaxRetry   \* asynq.MaxRetry(2) in EnqueueJob

ASSUME NoJobAssumption    == NoJob \notin Jobs
ASSUME MaxRetryAssumption == MaxRetry \in Nat

VARIABLES taskState, taskJob, retried

queueVars == <<taskState, taskJob, retried>>

TaskState == {"free", "queued", "active", "done", "archived"}

QueueTypeOK ==
  /\ taskState \in [Tasks -> TaskState]
  /\ taskJob \in [Tasks -> Jobs \cup {NoJob}]
  /\ retried \in [Tasks -> 0 .. MaxRetry]

QueueInit ==
  /\ taskState = [t \in Tasks |-> "free"]
  /\ taskJob = [t \in Tasks |-> NoJob]
  /\ retried = [t \in Tasks |-> 0]

(* client.Enqueue stores a new task for job j.                             *)
EnqueueJob(j) ==
  \E t \in Tasks :
    /\ taskState[t] = "free"
    /\ taskState' = [taskState EXCEPT ![t] = "queued"]
    /\ taskJob' = [taskJob EXCEPT ![t] = j]
    /\ UNCHANGED retried

(* A worker takes the task.                                                *)
Dequeue(t) ==
  /\ taskState[t] = "queued"
  /\ taskState' = [taskState EXCEPT ![t] = "active"]
  /\ UNCHANGED <<taskJob, retried>>

(* The handler returned nil.                                               *)
Done(t) ==
  /\ taskState' = [taskState EXCEPT ![t] = "done"]
  /\ UNCHANGED <<taskJob, retried>>

(* Mutant: retries without a limit.                                        *)
RetryForever(t) ==
  /\ taskState' = [taskState EXCEPT ![t] = "queued"]
  /\ retried' = [retried EXCEPT ![t] = @ + 1]
  /\ UNCHANGED taskJob

(* The handler returned an error, overran its deadline or lost its lease:  *)
(* again while retries are left, to the archive once they are used up.     *)
RetryOrArchive(t) ==
  /\ IF retried[t] < MaxRetry
     THEN /\ taskState' = [taskState EXCEPT ![t] = "queued"]
          /\ retried' = [retried EXCEPT ![t] = @ + 1]
     ELSE /\ taskState' = [taskState EXCEPT ![t] = "archived"]
          /\ UNCHANGED retried
  /\ UNCHANGED taskJob

(* A worker shutting down puts its unfinished tasks back, uncounted.       *)
Requeue(ts) ==
  /\ taskState' = [t \in Tasks |-> IF t \in ts THEN "queued" ELSE taskState[t]]
  /\ UNCHANGED <<taskJob, retried>>
=============================================================================
