------------------------------ MODULE JobTable ------------------------------
(***************************************************************************)
(* One row of the jobs table of migrations/001 and the statements          *)
(* internal/database/database.go runs on it.  An operator maps the row     *)
(* before a statement to the row after it.  Every UPDATE and DELETE says   *)
(* WHERE id = $n and nothing else, so it changes a missing row not at all  *)
(* and an existing row whatever its status.                                *)
(***************************************************************************)
EXTENDS Integers

Running   == {"downloading", "transcoding", "uploading"}
Active    == Running \cup {"pending"}
Settled   == {"completed", "failed", "cancelled"}
JobStatus == Active \cup Settled

(* A row that does not exist was never inserted or has been deleted.       *)
RowStatus == JobStatus \cup {"unborn", "deleted"}

(* 0 and 100 are the values the code writes itself; 50 stands for every    *)
(* percentage in between that ffmpeg can report.                           *)
Progress == {0, 50, 100}

(* error: error_message is not empty.  finished: completed_at is set.      *)
Row == [status: RowStatus, progress: Progress, error: BOOLEAN, finished: BOOLEAN]

Exists(row) == row.status \in JobStatus

NoRow(why) == [status |-> why, progress |-> 0, error |-> FALSE, finished |-> FALSE]

(* INSERT with the column defaults.                                        *)
CreateJob == [NoRow("unborn") EXCEPT !.status = "pending"]

(* Mutant: error_message is never cleared.                                 *)
UpdateJobStatusKeepsError(row, s) ==
  IF Exists(row)
  THEN [row EXCEPT !.status = s,
                   !.finished = s \in Settled \/ (@ /\ s # "pending")]
  ELSE row

(* Only failed and cancelled keep error_message; pending clears            *)
(* completed_at, a settled status sets it and a running one keeps it.      *)
UpdateJobStatus(row, s) ==
  IF Exists(row)
  THEN [row EXCEPT !.status   = s,
                   !.error    = @ /\ s \in {"failed", "cancelled"},
                   !.finished = s \in Settled \/ (@ /\ s # "pending")]
  ELSE row

UpdateJobProgress(row, p) ==
  IF Exists(row) THEN [row EXCEPT !.progress = p] ELSE row

(* Mutant: an upsert, which brings a deleted row back.                     *)
UpdateJobErrorUpserts(row) ==
  [row EXCEPT !.status = "failed", !.error = TRUE, !.finished = TRUE]

UpdateJobError(row) ==
  IF Exists(row)
  THEN [row EXCEPT !.status = "failed", !.error = TRUE, !.finished = TRUE]
  ELSE row

DeleteJob(row) == IF Exists(row) THEN NoRow("deleted") ELSE row

(* The event name NotifyJobComplete puts on a job it is handed.            *)
EventOf(row) ==
  CASE row.status = "failed"    -> "job.failed"
    [] row.status = "cancelled" -> "job.cancelled"
    [] OTHER                    -> "job.completed"
=============================================================================
