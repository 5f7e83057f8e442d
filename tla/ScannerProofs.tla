--------------------------- MODULE ScannerProofs ----------------------------
(* Theorems about Scanner for any number of nodes, uploads, videos, jobs   *)
(* and incidents.                                                          *)
EXTENDS Scanner, FiniteSetTheorems, TLAPS

USE ActorsAssumption, NoJobAssumption, SettingsAssumption, BoundsAssumption

(* An actor about to insert a job has no live one for the object yet, and  *)
(* an upload that has not begun has made none at all.                      *)
NoneYet ==
  \A a \in Actors, j \in Jobs :
    /\ jobs[j].maker = a
    /\ Live(j) /\ ~jobs[j].revived
    => /\ pc[a] = "create" => jobs[j].source # current[a]
       /\ a \in Uploads => pc[a] # "idle"

IInv == TypeOK /\ OneJobPerMaker /\ NoneYet

LEMMA IncidentType ==
  ASSUME incidents \in 0 .. MaxIncidents, NEW kind, Incident(kind)
  PROVE  incidents' \in 0 .. MaxIncidents
BY DEF Incident

(* What the rest of the system does to a row: it may remove it, it keeps   *)
(* who made it for what, and only a retry makes a row live again.          *)
Kept(j) ==
  /\ jobs' \in [Jobs -> Row]
  /\ \A i \in Jobs \ {j} : jobs'[i] = jobs[i]
  /\ \/ jobs'[j].status = "deleted"
     \/ /\ jobs[j].status \notin {"unborn", "deleted"}
        /\ jobs'[j].source = jobs[j].source
        /\ jobs'[j].output = jobs[j].output
        /\ jobs'[j].maker = jobs[j].maker
        /\ jobs[j].revived => jobs'[j].revived
        /\ Live(j)' => Live(j) \/ jobs'[j].revived

LEMMA RowStep ==
  ASSUME TypeOK, NEW j \in Jobs, Work(j)
  PROVE  Kept(j)
<1>0. jobs \in [Jobs -> Row] /\ jobs[j] \in Row
  BY DEF TypeOK
<1> DEFINE To(row) == jobs' = [jobs EXCEPT ![j] = row]
<1>1. CASE Start(j)
  <2>1. To([jobs[j] EXCEPT !.status = "running", !.task = FALSE])
    BY <1>1 DEF Start
  <2> QED BY <1>0, <1>1, <2>1 DEF Start, Kept, Row, Status, Live
<1>2. CASE Complete(j)
  <2>1. To([jobs[j] EXCEPT !.status = "completed"])
    BY <1>2 DEF Complete
  <2> QED BY <1>0, <1>2, <2>1 DEF Complete, Kept, Row, Status, Live
<1>3. CASE Fail(j)
  <2>1. To([jobs[j] EXCEPT !.status = "failed"])
    BY <1>3 DEF Fail
  <2> QED BY <1>0, <1>3, <2>1 DEF Fail, Kept, Row, Status, Live
<1>4. CASE Delete(j)
  <2>1. NoRow("deleted") \in Row
    BY DEF NoRow, Row, Status, Places
  <2> QED BY <1>0, <1>4, <2>1 DEF Delete, Kept, NoRow
<1>5. CASE Retry(j)
  <2>1. To([jobs[j] EXCEPT !.status = "pending", !.task = TRUE, !.revived = TRUE])
    BY <1>5 DEF Retry
  <2> QED BY <1>0, <1>5, <2>1 DEF Retry, Kept, Row, Status, Live
<1>6. CASE Cancel(j)
  <2>1. To([jobs[j] EXCEPT !.status = "cancelled", !.task = FALSE])
    BY <1>6 DEF Cancel
  <2> QED BY <1>0, <1>6, <2>1 DEF Cancel, Kept, Row, Status, Live
<1>7. CASE Overlap(j)
  <2>1. To([jobs[j] EXCEPT !.status = "running", !.revived = TRUE])
    BY <1>7 DEF Overlap
  <2> QED BY <1>0, <1>7, <2>1 DEF Overlap, Kept, Row, Status, Live
<1> QED BY <1>1, <1>2, <1>3, <1>4, <1>5, <1>6, <1>7 DEF Work

(* Enqueueing sets the task of a row and nothing else of it.               *)
LEMMA EnqueueStep ==
  ASSUME TypeOK, NEW a \in Actors, EnqueueJob(a)
  PROVE  /\ jobs' \in [Jobs -> Row]
         /\ \A i \in Jobs : /\ jobs'[i].status = jobs[i].status
                           /\ jobs'[i].source = jobs[i].source
                           /\ jobs'[i].output = jobs[i].output
                           /\ jobs'[i].maker = jobs[i].maker
                           /\ jobs'[i].revived = jobs[i].revived
<1>0. jobs \in [Jobs -> Row] /\ created[a] \in Jobs /\ jobs[created[a]] \in Row
  BY DEF TypeOK, EnqueueJob, Goto
<1>1. CASE UNCHANGED jobs
  BY <1>0, <1>1
<1>2. CASE jobs' = [jobs EXCEPT ![created[a]].task = TRUE]
  <2>1. jobs' = [jobs EXCEPT ![created[a]] = [jobs[created[a]] EXCEPT !.task = TRUE]]
    BY <1>2
  <2> QED BY <1>0, <2>1 DEF Row
<1> QED BY <1>1, <1>2 DEF EnqueueJob

(* Inserting adds one pending row.                                         *)
Inserted(a, j) ==
  /\ jobs[j].status = "unborn"
  /\ jobs' = [jobs EXCEPT ![j] = NewRow(a)]
  /\ jobs' \in [Jobs -> Row]
  /\ pc' = [pc EXCEPT ![a] = "enqueue"]
  /\ created' = [created EXCEPT ![a] = j]
  /\ current[a] \in Objects
  /\ UNCHANGED <<bucket, settingsVars, listed, current, using, incidents>>

LEMMA InsertStep ==
  ASSUME TypeOK, NEW a \in Actors, CreateJobForKey(a), ~UNCHANGED jobs
  PROVE  pc[a] = "create" /\ \E j \in Jobs : Inserted(a, j)
<1>1. current[a] \in Objects
  BY DEF CreateJobForKey, Goto, TypeOK
<1>2. NewRow(a) \in Row
  <2>1. outputPrefixForKey(using[a]) \in Places
    BY DEF TypeOK, Places
  <2> QED BY <1>1, <2>1 DEF NewRow, Row, Status
<1>3. PICK j \in Jobs :
        /\ jobs[j].status = "unborn"
        /\ jobs' = [jobs EXCEPT ![j] = NewRow(a)]
        /\ pc' = [pc EXCEPT ![a] = "enqueue"]
        /\ created' = [created EXCEPT ![a] = j]
        /\ UNCHANGED <<current, incidents>>
  BY DEF CreateJobForKey, Goto
<1>4. jobs' \in [Jobs -> Row]
  BY <1>2, <1>3 DEF TypeOK
<1>5. pc[a] = "create" /\ UNCHANGED <<bucket, settingsVars, listed, using>>
  BY DEF CreateJobForKey, Goto
<1> QED BY <1>1, <1>3, <1>4, <1>5 DEF Inserted

LEMMA InitIInv == Init => IInv
BY DEF Init, IInv, TypeOK, OneJobPerMaker, NoneYet, Live, NoRow, Row, Status, Places, Actors

(* Type correctness: one step per action.                                  *)
LEMMA TypeStep == TypeOK /\ [Next]_vars => TypeOK'
<1> SUFFICES ASSUME TypeOK, [Next]_vars PROVE TypeOK'
  OBVIOUS
<1> USE DEF TypeOK, actorVars, settingsVars
<1>1. ASSUME NEW name \in Dropped, Drop(name) PROVE TypeOK'
  BY <1>1 DEF Drop, Source, Objects, Places
<1>0. ASSUME NEW s \in Settings, ChangeSettings(s) PROVE TypeOK'
  BY <1>0, IncidentType DEF ChangeSettings
<1>2. ASSUME NEW n \in Nodes, ScanStart(n) \/ ScanCheck(n) \/ ScanEnd(n) PROVE TypeOK'
  <2>1. CASE ScanStart(n)
    BY <1>2, <2>1 DEF ScanStart, Goto, Listed, Actors
  <2>2. CASE ScanCheck(n)
    <3>1. PICK o \in listed[n] : ScanCheck(n)!(o)
      BY <2>2 DEF ScanCheck
    <3>2. o \in Objects
      BY <3>1 DEF Actors
    <3>3. incidents' \in 0 .. MaxIncidents
      BY <3>1, IncidentType
    <3> QED BY <1>2, <3>1, <3>2, <3>3 DEF Goto, Actors
  <2>3. CASE ScanEnd(n)
    BY <1>2, <2>3 DEF ScanEnd, Goto, Actors
  <2> QED BY <1>2, <2>1, <2>2, <2>3
<1>3. ASSUME NEW u \in Uploads, UploadSource(u) PROVE TypeOK'
  BY <1>3 DEF UploadSource, Goto, Source, Objects, Places, Actors
<1>4. ASSUME NEW a \in Actors, CreateJobForKey(a) \/ EnqueueJob(a) \/ Crash(a) PROVE TypeOK'
  <2>1. CASE CreateJobForKey(a)
    <3>1. incidents' \in 0 .. MaxIncidents
      BY <2>1, IncidentType DEF CreateJobForKey
    <3>2. CASE UNCHANGED jobs
      BY <1>4, <2>1, <3>1, <3>2 DEF CreateJobForKey, Goto, Continue
    <3>3. CASE ~UNCHANGED jobs
      <4>1. PICK j \in Jobs : Inserted(a, j)
        BY <2>1, <3>3, InsertStep
      <4>2. \A i \in Jobs : jobs'[i].status \notin {"unborn", "deleted"} =>
              jobs'[i].source \in Objects /\ jobs'[i].maker \in Actors
        BY <1>4, <4>1 DEF Inserted, NewRow
      <4> QED BY <1>4, <4>1, <4>2 DEF Inserted
    <3> QED BY <3>2, <3>3
  <2>2. CASE EnqueueJob(a)
    <3>1. incidents' \in 0 .. MaxIncidents
      BY <2>2, IncidentType DEF EnqueueJob
    <3> QED BY <1>4, <2>2, <3>1, EnqueueStep DEF EnqueueJob, Goto, Continue
  <2>3. CASE Crash(a)
    <3>1. incidents' \in 0 .. MaxIncidents
      BY <2>3, IncidentType DEF Crash
    <3> QED BY <1>4, <2>3, <3>1 DEF Crash
  <2> QED BY <1>4, <2>1, <2>2, <2>3
<1>5. ASSUME NEW j \in Jobs, Work(j)
      PROVE  TypeOK'
  <2>1. incidents' \in 0 .. MaxIncidents
    BY <1>5, IncidentType DEF Work, Start, Complete, Fail, Cancel, Delete, Retry, Overlap
  <2>2. Kept(j)
    BY <1>5, RowStep
  <2>3. bucket' \subseteq Objects
    <3>1. CASE Complete(j)
      <4>1. jobs[j].source \in Objects
        BY <3>1 DEF Complete
      <4>2. jobs[j].source.generation < MaxGeneration =>
              [name |-> jobs[j].source.name, generation |-> jobs[j].source.generation + 1,
               at |-> jobs[j].output] \in Objects
        BY <4>1 DEF Objects, Row
      <4> QED BY <3>1, <4>1, <4>2 DEF Complete
    <3> QED BY <1>5, <3>1 DEF Work, Start, Fail, Cancel, Delete, Retry, Overlap
  <2>4. \A i \in Jobs : jobs'[i].status \notin {"unborn", "deleted"} =>
          jobs'[i].source \in Objects /\ jobs'[i].maker \in Actors
    BY <2>2 DEF Kept
  <2> QED BY <1>5, <2>1, <2>2, <2>3, <2>4 DEF Work, Start, Complete, Fail, Cancel, Delete, Retry, Overlap, Kept
<1>6. CASE UNCHANGED vars
  BY <1>6 DEF vars
<1> QED
  BY <1>0, <1>1, <1>2, <1>3, <1>4, <1>5, <1>6 DEF Next, scanOnce, Upload, Actors

-----------------------------------------------------------------------------
(* One job per maker.                                                      *)

Made(a, j) == jobs[j].maker = a /\ Live(j) /\ ~jobs[j].revived

(* A step that makes no row live, changes nothing of what rows say of      *)
(* their origin and starts no insertion keeps the invariant.               *)
Quiet ==
  /\ \A j \in Jobs :
       Live(j)' /\ ~jobs'[j].revived =>
         /\ Live(j) /\ ~jobs[j].revived
         /\ jobs'[j].source = jobs[j].source
         /\ jobs'[j].maker = jobs[j].maker
  /\ \A a \in Actors :
       /\ pc'[a] = "create" => pc[a] = "create" /\ current'[a] = current[a]
       /\ a \in Uploads /\ pc'[a] = "idle" => pc[a] = "idle"

LEMMA QuietStep == IInv /\ TypeOK' /\ Quiet => IInv'
BY DEF IInv, OneJobPerMaker, NoneYet, Quiet

LEMMA IInvStep == IInv /\ [Next]_vars => IInv'
<1> SUFFICES ASSUME IInv, [Next]_vars PROVE IInv'
  OBVIOUS
<1>0. TypeOK /\ TypeOK'
  BY TypeStep DEF IInv
<1>1. ASSUME NEW name \in Dropped, Drop(name) PROVE IInv'
  <2>1. Quiet
    BY <1>1 DEF Drop, actorVars, Quiet, Live
  <2> QED BY <1>0, <2>1, QuietStep
<1>11. ASSUME NEW s \in Settings, ChangeSettings(s) PROVE IInv'
  <2>1. Quiet
    BY <1>11 DEF ChangeSettings, actorVars, Quiet, Live
  <2> QED BY <1>0, <2>1, QuietStep
<1>2. ASSUME NEW n \in Nodes, ScanStart(n) PROVE IInv'
  <2>1. Quiet
    BY <1>0, <1>2 DEF ScanStart, Goto, Quiet, Live, TypeOK, Actors
  <2> QED BY <1>0, <2>1, QuietStep
<1>3. ASSUME NEW n \in Nodes, ScanCheck(n) PROVE IInv'
  <2>0. n \in Actors /\ n \notin Uploads
    BY DEF Actors
  <2>1. PICK o \in listed[n] : ScanCheck(n)!(o)
    BY <1>3 DEF ScanCheck
  <2>2. CASE HasScannerJobForSource(o) \/ Incident("check")
    <3>1. CASE pc'[n] = "scan"
      <4>1. Quiet
        BY <1>0, <2>0, <2>1, <3>1 DEF Goto, Quiet, Live, TypeOK
      <4> QED BY <1>0, <4>1, QuietStep
    <3>2. CASE pc'[n] # "scan"
      <4>1. ~HasScannerJobForSource(o) /\ Goto(n, "scan", "create")
            /\ current' = [current EXCEPT ![n] = o] /\ UNCHANGED jobs
        BY <1>0, <2>0, <2>1, <3>2 DEF Goto, TypeOK
      <4>2. OneJobPerMaker'
        BY <4>1 DEF IInv, OneJobPerMaker, Live
      <4>3. NoneYet'
        BY <1>0, <2>0, <4>1 DEF IInv, NoneYet, Live, HasScannerJobForSource, Goto, TypeOK
      <4> QED BY <1>0, <4>2, <4>3 DEF IInv
    <3> QED BY <3>1, <3>2
  <2>3. CASE ~HasScannerJobForSource(o) /\ ~Incident("check")
    <3>1. Goto(n, "scan", "create") /\ current' = [current EXCEPT ![n] = o] /\ UNCHANGED jobs
      BY <2>1, <2>3
    <3>2. OneJobPerMaker'
      BY <3>1 DEF IInv, OneJobPerMaker, Live
    <3>3. NoneYet'
      BY <1>0, <2>0, <2>3, <3>1 DEF IInv, NoneYet, Live, HasScannerJobForSource, Goto, TypeOK
    <3> QED BY <1>0, <3>2, <3>3 DEF IInv
  <2> QED BY <2>2, <2>3
<1>4. ASSUME NEW n \in Nodes, ScanEnd(n) PROVE IInv'
  <2>1. Quiet
    BY <1>0, <1>4 DEF ScanEnd, Goto, Quiet, Live, TypeOK, Actors
  <2> QED BY <1>0, <2>1, QuietStep
<1>5. ASSUME NEW u \in Uploads, UploadSource(u) PROVE IInv'
  <2>0. u \in Actors /\ pc[u] = "idle" /\ UNCHANGED jobs
    BY <1>5 DEF UploadSource, Goto, Actors
  <2>1. OneJobPerMaker'
    BY <2>0 DEF IInv, OneJobPerMaker, Live
  <2>2. NoneYet'
    BY <1>0, <1>5, <2>0 DEF IInv, NoneYet, Live, UploadSource, Goto, TypeOK
  <2> QED BY <1>0, <2>1, <2>2 DEF IInv
<1>6. ASSUME NEW a \in Actors, CreateJobForKey(a) PROVE IInv'
  <2>1. CASE UNCHANGED jobs
    <3>1. Quiet
      BY <1>0, <1>6, <2>1 DEF CreateJobForKey, Goto, Continue, Quiet, Live, TypeOK
    <3> QED BY <1>0, <3>1, QuietStep
  <2>2. CASE ~UNCHANGED jobs
    <3>1. PICK j \in Jobs : Inserted(a, j)
      BY <1>0, <1>6, <2>2, InsertStep
    <3>2. pc[a] = "create"
      BY <1>0, <1>6, <2>2, InsertStep
    <3>3. \A i \in Jobs \ {j} : jobs'[i] = jobs[i]
      BY <1>0, <3>1 DEF Inserted, TypeOK
    <3>4. jobs'[j].source = current[a] /\ jobs'[j].maker = a
      BY <1>0, <3>1 DEF Inserted, NewRow, TypeOK
    <3>5. \A i \in Jobs : Made(a, i) => jobs[i].source # current[a]
      BY <3>2 DEF IInv, NoneYet, Made
    <3>6. OneJobPerMaker'
      BY <3>3, <3>4, <3>5 DEF IInv, OneJobPerMaker, Live, Made
    <3>7. NoneYet'
      BY <1>0, <3>1, <3>2, <3>3, <3>4 DEF IInv, NoneYet, Live, Inserted, TypeOK
    <3> QED BY <1>0, <3>6, <3>7 DEF IInv
  <2> QED BY <2>1, <2>2
<1>7. ASSUME NEW a \in Actors, EnqueueJob(a) PROVE IInv'
  <2>1. Quiet
    BY <1>0, <1>7, EnqueueStep DEF EnqueueJob, Goto, Continue, Quiet, Live, TypeOK
  <2> QED BY <1>0, <2>1, QuietStep
<1>8. ASSUME NEW a \in Actors, Crash(a) PROVE IInv'
  <2>1. Quiet
    BY <1>0, <1>8 DEF Crash, Quiet, Live, TypeOK, Actors
  <2> QED BY <1>0, <2>1, QuietStep
<1>9. ASSUME NEW j \in Jobs, Work(j)
      PROVE  IInv'
  <2>1. Kept(j)
    BY <1>0, <1>9, RowStep
  <2>2. UNCHANGED actorVars
    BY <1>9 DEF Work, Start, Complete, Fail, Cancel, Delete, Retry, Overlap
  <2>3. ASSUME NEW i \in Jobs, Live(i)', ~jobs'[i].revived
        PROVE  /\ Live(i) /\ ~jobs[i].revived
               /\ jobs'[i].source = jobs[i].source
               /\ jobs'[i].maker = jobs[i].maker
    <3>1. CASE i = j
      <4>1. jobs'[j].status # "deleted"
        BY <2>3, <3>1 DEF Live
      <4> QED BY <2>1, <2>3, <3>1, <4>1 DEF Kept
    <3>2. CASE i # j
      BY <2>1, <2>3, <3>2 DEF Kept, Live
    <3> QED BY <3>1, <3>2
  <2>4. Quiet
    BY <2>2, <2>3 DEF Quiet, actorVars
  <2> QED BY <1>0, <2>4, QuietStep
<1>10. CASE UNCHANGED vars
  <2>1. Quiet
    BY <1>10 DEF vars, actorVars, Quiet, Live
  <2> QED BY <1>0, <2>1, QuietStep
<1> QED
  BY <1>1, <1>2, <1>3, <1>4, <1>5, <1>6, <1>7, <1>8, <1>9, <1>10, <1>11
  DEF Next, scanOnce, Upload, Actors

(* Every variable keeps its type, and an actor that inserts or enqueues    *)
(* knows for what (scanner.go scanOnce, system.go UploadSource).           *)
THEOREM TypeCorrect == Spec => []TypeOK
<1>1. IInv => TypeOK
  BY DEF IInv
<1> QED BY InitIInv, IInvStep, <1>1, PTL DEF Spec

(* However many nodes scan and whatever happens to their scans and jobs,   *)
(* one of them never has two live jobs for the same object (scanner.go     *)
(* scanOnce).                                                              *)
THEOREM NoDuplicatesOfOneNode == Spec => []OneJobPerMaker
<1>1. IInv => OneJobPerMaker
  BY DEF IInv
<1> QED BY InitIInv, IInvStep, <1>1, PTL DEF Spec

-----------------------------------------------------------------------------
(* A single scanner.                                                       *)

(* No failed row is live again.                                            *)
NoRevivals == \A j \in Jobs : Live(j) => ~jobs[j].revived

LEMMA NoRevivalsStep ==
  TypeOK /\ IncidentKinds \cap {"retry", "overlap"} = {} /\ NoRevivals /\ [Next]_vars => NoRevivals'
<1> SUFFICES ASSUME TypeOK, IncidentKinds \cap {"retry", "overlap"} = {}, NoRevivals, [Next]_vars
             PROVE  NoRevivals'
  OBVIOUS
<1>1. CASE UNCHANGED jobs
  BY <1>1 DEF NoRevivals, Live
<1>2. ASSUME NEW a \in Actors, CreateJobForKey(a), ~UNCHANGED jobs PROVE NoRevivals'
  <2>1. PICK j \in Jobs : Inserted(a, j)
    BY <1>2, InsertStep
  <2> QED BY <2>1 DEF Inserted, NewRow, NoRevivals, Live, TypeOK
<1>3. ASSUME NEW a \in Actors, EnqueueJob(a) PROVE NoRevivals'
  BY <1>3, EnqueueStep DEF NoRevivals, Live
<1>4. ASSUME NEW j \in Jobs, Work(j)
      PROVE  NoRevivals'
  <2>0. jobs \in [Jobs -> Row] /\ jobs[j] \in Row
    BY DEF TypeOK
  <2>1. CASE Start(j)
    <3>1. jobs' = [jobs EXCEPT ![j] = [jobs[j] EXCEPT !.status = "running", !.task = FALSE]]
      BY <2>1 DEF Start
    <3>2. Live(j)
      BY <2>1 DEF Start, Live
    <3> QED BY <2>0, <3>1, <3>2 DEF NoRevivals, Live, Row
  <2>2. CASE Complete(j)
    <3>1. jobs' = [jobs EXCEPT ![j] = [jobs[j] EXCEPT !.status = "completed"]]
      BY <2>2 DEF Complete
    <3>2. Live(j)
      BY <2>2 DEF Complete, Live
    <3> QED BY <2>0, <3>1, <3>2 DEF NoRevivals, Live, Row
  <2>3. CASE Fail(j)
    <3>1. jobs' = [jobs EXCEPT ![j] = [jobs[j] EXCEPT !.status = "failed"]]
      BY <2>3 DEF Fail
    <3> QED BY <2>0, <3>1 DEF NoRevivals, Live, Row
  <2>4. CASE Delete(j)
    BY <2>0, <2>4 DEF Delete, NoRow, NoRevivals, Live
  <2>5. CASE Cancel(j)
    <3>1. jobs' = [jobs EXCEPT ![j] = [jobs[j] EXCEPT !.status = "cancelled", !.task = FALSE]]
      BY <2>5 DEF Cancel
    <3>2. Live(j)
      BY <2>5 DEF Cancel, Live
    <3> QED BY <2>0, <3>1, <3>2 DEF NoRevivals, Live, Row
  <2>6. ~Retry(j) /\ ~Overlap(j)
    BY DEF Retry, Overlap, Incident
  <2> QED BY <1>4, <2>1, <2>2, <2>3, <2>4, <2>5, <2>6 DEF Work
<1> QED
  BY <1>1, <1>2, <1>3, <1>4
  DEF Next, scanOnce, Upload, Drop, ChangeSettings, ScanStart, ScanCheck, ScanEnd, UploadSource, Crash,
      Actors, vars

(* With one scanner, no uploads beside it, no retries and no handlers that *)
(* overlap, a video is transcoded once, as README.md says, whatever fails, *)
(* restarts or is cancelled or deleted meanwhile.                          *)
THEOREM OneScannerTranscodesOnce ==
  ASSUME NEW n, Nodes = {n}, Uploads = {}, IncidentKinds \cap {"retry", "overlap"} = {}
  PROVE  Spec => []TranscodedOnce
<1> DEFINE Inv == IInv /\ NoRevivals
<1>1. Init => Inv
  BY InitIInv DEF Init, NoRevivals, Live, NoRow
<1>2. Inv /\ [Next]_vars => Inv'
  BY IInvStep, NoRevivalsStep DEF IInv
<1>3. Inv => TranscodedOnce
  <2> SUFFICES ASSUME Inv, NEW i \in Jobs, NEW j \in Jobs,
                      Live(i), Live(j), jobs[i].source = jobs[j].source
               PROVE  i = j
    BY DEF TranscodedOnce
  <2>1. jobs[i].maker = n /\ jobs[j].maker = n
    BY DEF IInv, TypeOK, Live, Actors
  <2> QED BY <2>1 DEF IInv, OneJobPerMaker, NoRevivals
<1> QED BY <1>1, <1>2, <1>3, PTL DEF Spec

-----------------------------------------------------------------------------
(* How many jobs a video may get.                                          *)

(* Who may insert a job for an object: any scanner, and the upload that    *)
(* has put it into the bucket.                                             *)
Makers(o) == Nodes \cup {u \in Uploads : Source(u) = o}

LiveJobsOf(o) == {j \in Jobs : Live(j) /\ jobs[j].source = o}

(* Jobs of a video are at most as many as those who may insert one, and    *)
(* one for each time something went wrong.                                 *)
DuplicatesAreFew ==
  \A o \in Objects :
    Cardinality(LiveJobsOf(o)) <= Cardinality(Makers(o)) + incidents

(* An upload inserts a job for its own file and for no other.              *)
OwnVideo ==
  \A u \in Uploads :
    /\ pc[u] \in {"create", "enqueue"} => current[u] = Source(u)
    /\ \A j \in Jobs : jobs[j].status \notin {"unborn", "deleted"} /\ jobs[j].maker = u =>
                       jobs[j].source = Source(u)

Revived == {j \in Jobs : jobs[j].revived}
RevivalsCounted == IsFiniteSet(Revived) /\ Cardinality(Revived) <= incidents

LEMMA OwnVideoStep == TypeOK /\ OwnVideo /\ [Next]_vars => OwnVideo'
<1> SUFFICES ASSUME TypeOK, OwnVideo, [Next]_vars PROVE OwnVideo'
  OBVIOUS
<1> USE DEF OwnVideo
<1>1. ASSUME UNCHANGED <<jobs, actorVars>> PROVE OwnVideo'
  BY <1>1 DEF actorVars
<1>2. ASSUME NEW n \in Nodes, ScanStart(n) \/ ScanCheck(n) \/ ScanEnd(n) PROVE OwnVideo'
  <2>1. /\ UNCHANGED jobs
        /\ \A u \in Uploads : pc'[u] = pc[u] /\ current'[u] = current[u]
    BY <1>2 DEF ScanStart, ScanCheck, ScanEnd, Goto, TypeOK, Actors
  <2> QED BY <2>1
<1>3. ASSUME NEW u \in Uploads, UploadSource(u) PROVE OwnVideo'
  BY <1>3 DEF UploadSource, Goto, TypeOK, Actors
<1>4. ASSUME NEW a \in Actors, CreateJobForKey(a) PROVE OwnVideo'
  <2>1. CASE UNCHANGED jobs
    <3>1. \A u \in Uploads : pc'[u] \in {"create", "enqueue"} =>
                            pc[u] \in {"create", "enqueue"} /\ current'[u] = current[u]
      BY <1>4, <2>1 DEF CreateJobForKey, Goto, Continue, TypeOK, Actors
    <3> QED BY <2>1, <3>1
  <2>2. CASE ~UNCHANGED jobs
    <3>1. PICK j \in Jobs : Inserted(a, j)
      BY <1>4, <2>2, InsertStep
    <3>2. pc[a] = "create" /\ UNCHANGED current
      BY <1>4, <2>2, InsertStep, <3>1 DEF Inserted
    <3>3. \A u \in Uploads : pc'[u] \in {"create", "enqueue"} => pc[u] \in {"create", "enqueue"}
      BY <3>1, <3>2 DEF Inserted, TypeOK, Actors
    <3>4. /\ \A i \in Jobs \ {j} : jobs'[i] = jobs[i]
          /\ jobs'[j].maker = a /\ jobs'[j].source = current[a]
      BY <3>1 DEF Inserted, NewRow, TypeOK
    <3> QED BY <3>2, <3>3, <3>4
  <2> QED BY <2>1, <2>2
<1>5. ASSUME NEW a \in Actors, EnqueueJob(a) PROVE OwnVideo'
  <2>1. \A u \in Uploads : pc'[u] \in {"create", "enqueue"} =>
                          pc[u] \in {"create", "enqueue"} /\ current'[u] = current[u]
    BY <1>5 DEF EnqueueJob, Goto, Continue, TypeOK, Actors
  <2> QED BY <1>5, <2>1, EnqueueStep
<1>6. ASSUME NEW a \in Actors, Crash(a) PROVE OwnVideo'
  BY <1>6 DEF Crash, TypeOK, Actors
<1>7. ASSUME NEW j \in Jobs, Work(j) PROVE OwnVideo'
  <2>1. Kept(j)
    BY <1>7, RowStep
  <2>2. UNCHANGED actorVars
    BY <1>7 DEF Work, Start, Complete, Fail, Cancel, Delete, Retry, Overlap
  <2> QED BY <2>1, <2>2 DEF Kept, actorVars
<1> QED
  BY <1>1, <1>2, <1>3, <1>4, <1>5, <1>6, <1>7
  DEF Next, scanOnce, Upload, Drop, ChangeSettings, Actors, vars

(* Only a retry and an overlap revive a row, and both are incidents.       *)
LEMMA RevivedStep ==
  ASSUME TypeOK, [Next]_vars
  PROVE  \/ Revived' \subseteq Revived /\ incidents <= incidents'
         \/ \E j \in Jobs : Revived' \subseteq Revived \cup {j} /\ incidents' = incidents + 1
<1> DEFINE Goal == \/ Revived' \subseteq Revived /\ incidents <= incidents'
                   \/ \E j \in Jobs : /\ Revived' \subseteq Revived \cup {j}
                                      /\ incidents' = incidents + 1
<1>0. /\ incidents \in Int
      /\ incidents <= incidents
      /\ \A kind : Incident(kind) => incidents <= incidents' /\ incidents' = incidents + 1
  BY DEF TypeOK, Incident
<1>1. ASSUME UNCHANGED jobs, UNCHANGED incidents \/ \E kind : Incident(kind) PROVE Goal
  <2>1. Revived' = Revived
    BY <1>1 DEF Revived
  <2> QED BY <1>0, <1>1, <2>1
<1>2. ASSUME NEW a \in Actors, CreateJobForKey(a) PROVE Goal
  <2>1. CASE UNCHANGED jobs
    BY <1>1, <1>2, <2>1 DEF CreateJobForKey
  <2>2. CASE ~UNCHANGED jobs
    <3>1. PICK j \in Jobs : Inserted(a, j)
      BY <1>2, <2>2, InsertStep
    <3>2. Revived' \subseteq Revived
      BY <3>1 DEF Inserted, NewRow, Revived, TypeOK
    <3>3. UNCHANGED incidents
      BY <3>1 DEF Inserted
    <3> QED BY <1>0, <3>2, <3>3
  <2> QED BY <2>1, <2>2
<1>3. ASSUME NEW a \in Actors, EnqueueJob(a) PROVE Goal
  <2>1. Revived' \subseteq Revived
    BY <1>3, EnqueueStep DEF Revived
  <2>2. UNCHANGED incidents \/ Incident("enqueue")
    BY <1>3 DEF EnqueueJob
  <2> QED BY <1>0, <2>1, <2>2
<1>4. ASSUME NEW j \in Jobs, Work(j) PROVE Goal
  <2>0. jobs \in [Jobs -> Row] /\ jobs[j] \in Row
    BY DEF TypeOK
  <2>1. CASE Retry(j) \/ Overlap(j)
    <3>1. Revived' \subseteq Revived \cup {j}
      BY <1>4, RowStep DEF Kept, Revived
    <3>2. Incident("retry") \/ Incident("overlap")
      BY <2>1 DEF Retry, Overlap
    <3> QED BY <1>0, <3>1, <3>2
  <2>2. CASE Start(j) \/ Complete(j) \/ Fail(j) \/ Cancel(j) \/ Delete(j)
    <3>1. /\ \A i \in Jobs \ {j} : jobs'[i] = jobs[i]
          /\ jobs'[j].revived => jobs[j].revived
      <4>1. CASE Start(j)
        <5>1. jobs' = [jobs EXCEPT ![j] = [jobs[j] EXCEPT !.status = "running", !.task = FALSE]]
          BY <4>1 DEF Start
        <5> QED BY <2>0, <5>1 DEF Row
      <4>2. CASE Complete(j)
        <5>1. jobs' = [jobs EXCEPT ![j] = [jobs[j] EXCEPT !.status = "completed"]]
          BY <4>2 DEF Complete
        <5> QED BY <2>0, <5>1 DEF Row
      <4>3. CASE Fail(j)
        <5>1. jobs' = [jobs EXCEPT ![j] = [jobs[j] EXCEPT !.status = "failed"]]
          BY <4>3 DEF Fail
        <5> QED BY <2>0, <5>1 DEF Row
      <4>4. CASE Cancel(j)
        <5>1. jobs' = [jobs EXCEPT ![j] = [jobs[j] EXCEPT !.status = "cancelled", !.task = FALSE]]
          BY <4>4 DEF Cancel
        <5> QED BY <2>0, <5>1 DEF Row
      <4>5. CASE Delete(j)
        BY <2>0, <4>5 DEF Delete, NoRow
      <4> QED BY <2>2, <4>1, <4>2, <4>3, <4>4, <4>5
    <3>2. Revived' \subseteq Revived
      BY <3>1 DEF Revived
    <3>3. UNCHANGED incidents \/ \E kind : Incident(kind)
      BY <2>2 DEF Start, Complete, Fail, Cancel, Delete
    <3> QED BY <1>0, <3>2, <3>3
  <2> QED BY <1>4, <2>1, <2>2 DEF Work
<1>5. CASE UNCHANGED vars
  BY <1>1, <1>5 DEF vars
<1>6. ASSUME NEW n \in Nodes, ScanStart(n) \/ ScanCheck(n) \/ ScanEnd(n) PROVE Goal
  <2>1. UNCHANGED jobs /\ (UNCHANGED incidents \/ \E kind : Incident(kind))
    BY <1>6 DEF ScanStart, ScanCheck, ScanEnd
  <2> QED BY <1>1, <2>1
<1>7. ASSUME NEW u \in Uploads, UploadSource(u) PROVE Goal
  BY <1>1, <1>7 DEF UploadSource
<1>8. ASSUME NEW a \in Actors, Crash(a) PROVE Goal
  BY <1>1, <1>8 DEF Crash
<1>9. ASSUME NEW name \in Dropped, Drop(name) PROVE Goal
  BY <1>1, <1>9 DEF Drop
<1>10. ASSUME NEW s \in Settings, ChangeSettings(s) PROVE Goal
  BY <1>1, <1>10 DEF ChangeSettings
<1> QED
  BY <1>2, <1>3, <1>4, <1>5, <1>6, <1>7, <1>8, <1>9, <1>10 DEF Next, scanOnce, Upload, Actors

LEMMA RevivalsStep == TypeOK /\ RevivalsCounted /\ [Next]_vars => RevivalsCounted'
<1> SUFFICES ASSUME TypeOK, RevivalsCounted, [Next]_vars PROVE RevivalsCounted'
  OBVIOUS
<1>0. incidents \in Int /\ incidents' \in Int
  BY TypeStep DEF TypeOK
<1>1. CASE Revived' \subseteq Revived /\ incidents <= incidents'
  <2>1. PICK S : S = Revived'
    OBVIOUS
  <2>2. IsFiniteSet(S) /\ Cardinality(S) <= Cardinality(Revived)
    BY <1>1, <2>1, FS_Subset DEF RevivalsCounted
  <2>3. Cardinality(S) \in Int /\ Cardinality(Revived) \in Int
    BY <2>2, FS_CardinalityType DEF RevivalsCounted
  <2>4. Cardinality(S) <= incidents'
    BY <1>0, <1>1, <2>2, <2>3 DEF RevivalsCounted
  <2> QED BY <2>1, <2>2, <2>4 DEF RevivalsCounted
<1>2. CASE \E j \in Jobs : Revived' \subseteq Revived \cup {j} /\ incidents' = incidents + 1
  <2>1. PICK j, S :
          j \in Jobs /\ S = Revived' /\ S \subseteq Revived \cup {j} /\ incidents' = incidents + 1
    BY <1>2
  <2>2. /\ IsFiniteSet(Revived \cup {j})
        /\ Cardinality(Revived \cup {j}) \in {Cardinality(Revived), Cardinality(Revived) + 1}
    BY FS_AddElement DEF RevivalsCounted
  <2>3. IsFiniteSet(S) /\ Cardinality(S) <= Cardinality(Revived \cup {j})
    BY <2>1, <2>2, FS_Subset
  <2>4. Cardinality(S) \in Int /\ Cardinality(Revived) \in Int
    BY <2>3, FS_CardinalityType DEF RevivalsCounted
  <2>5. Cardinality(S) <= incidents'
    BY <1>0, <2>1, <2>2, <2>3, <2>4 DEF RevivalsCounted
  <2> QED BY <2>1, <2>3, <2>5 DEF RevivalsCounted
<1> QED BY <1>1, <1>2, RevivedStep

(* What is left of the README's "once" with any number of scanners, which  *)
(* do not lock each other out: a video has at most one live job for each   *)
(* scanner, one if it was uploaded through the API, and one for each time  *)
(* a failed or cancelled job was brought back or something else went       *)
(* wrong (scanner.go scanOnce, system.go UploadSource).                    *)
THEOREM DuplicatesAreBounded ==
  ASSUME IsFiniteSet(Nodes)
  PROVE  Spec => []DuplicatesAreFew
<1> DEFINE Inv == IInv /\ OwnVideo /\ RevivalsCounted
<1>1. Init => Inv
  <2> SUFFICES ASSUME Init PROVE OwnVideo /\ RevivalsCounted
    BY InitIInv
  <2>1. OwnVideo
    BY DEF Init, OwnVideo, NoRow, Actors
  <2>2. Revived = {} /\ incidents = 0
    BY DEF Init, Revived, NoRow
  <2> QED BY <2>1, <2>2, FS_EmptySet DEF RevivalsCounted
<1>2. Inv /\ [Next]_vars => Inv'
  BY IInvStep, OwnVideoStep, RevivalsStep DEF IInv
<1>3. Inv => DuplicatesAreFew
  <2> SUFFICES ASSUME Inv, NEW o \in Objects
               PROVE  Cardinality(LiveJobsOf(o)) <= Cardinality(Makers(o)) + incidents
    BY DEF DuplicatesAreFew
  <2> DEFINE First == LiveJobsOf(o) \ Revived
             maker == [j \in First |-> jobs[j].maker]
  <2>1. IsFiniteSet(Makers(o))
    <3>1. PICK u : {v \in Uploads : Source(v) = o} \subseteq {u}
      <4>1. \A u, v \in Uploads : Source(u) = o /\ Source(v) = o => u = v
        BY DEF Source
      <4> QED BY <4>1
    <3>2. IsFiniteSet(Nodes \cup {u})
      BY FS_AddElement
    <3>3. Makers(o) \subseteq Nodes \cup {u}
      BY <3>1 DEF Makers
    <3> QED BY <3>2, <3>3, FS_Subset
  <2>2. \A j \in First : jobs[j].maker \in Makers(o)
    <3> SUFFICES ASSUME NEW j \in First PROVE jobs[j].maker \in Makers(o)
      OBVIOUS
    <3>1. /\ j \in Jobs /\ jobs[j].source = o
          /\ jobs[j].status \notin {"unborn", "deleted"}
      BY DEF LiveJobsOf, Live
    <3>2. jobs[j].maker \in Nodes \cup Uploads
      BY <3>1 DEF IInv, TypeOK, Actors
    <3> QED BY <3>1, <3>2 DEF Makers, OwnVideo
  <2>3. \A i, j \in First : jobs[i].maker = jobs[j].maker => i = j
    BY DEF LiveJobsOf, Revived, IInv, OneJobPerMaker
  <2>4. maker \in Injection(First, Makers(o))
    BY <2>2, <2>3 DEF Injection, IsInjective
  <2>5. IsFiniteSet(First) /\ Cardinality(First) <= Cardinality(Makers(o))
    BY <2>1, <2>4, FS_Injection
  <2>6. IsFiniteSet(Revived) /\ Cardinality(Revived) <= incidents
    BY DEF RevivalsCounted
  <2>7. /\ IsFiniteSet(First \cup Revived)
        /\ Cardinality(First \cup Revived) =
             Cardinality(First) + Cardinality(Revived) - Cardinality(First \cap Revived)
    BY <2>5, <2>6, FS_Union
  <2>8. First \cap Revived = {} /\ LiveJobsOf(o) \subseteq First \cup Revived
    OBVIOUS
  <2>9. IsFiniteSet(LiveJobsOf(o)) /\ Cardinality(LiveJobsOf(o)) <= Cardinality(First \cup Revived)
    BY <2>7, <2>8, FS_Subset
  <2>10. /\ Cardinality(First) \in Int /\ Cardinality(Revived) \in Int
         /\ Cardinality(Makers(o)) \in Int /\ Cardinality(LiveJobsOf(o)) \in Int
         /\ incidents \in Int
    BY <2>1, <2>5, <2>6, <2>9, FS_CardinalityType DEF IInv, TypeOK
  <2>11. Cardinality(First \cap Revived) = 0
    BY <2>8, FS_EmptySet
  <2> HIDE DEF First
  <2> QED BY <2>5, <2>6, <2>7, <2>9, <2>10, <2>11
<1> QED BY <1>1, <1>2, <1>3, PTL DEF Spec

-----------------------------------------------------------------------------
(* Outputs as sources.                                                     *)

(* An output that scans list and that some settings do not cover, because  *)
(* not all outputs are contained.                                          *)
Astray(o) == OutputsListed /\ ~Contained /\ \E s \in Settings : ~Covers(s, o.at)
Eligible(o) == o.generation = 0 \/ Astray(o)

(* What is scanned and transcoded may be, and an output lies where a row   *)
(* has said, which some settings so far have led to.                       *)
PastPlaces == {outputPrefixForKey(s) : s \in past}
OnlyEligible ==
  /\ \A o \in bucket : o.generation = 0 \/ o.at \in PastPlaces
  /\ \A a \in Actors :
       /\ \A o \in listed[a] : Eligible(o)
       /\ pc[a] \in {"create", "enqueue"} => Eligible(current[a])
  /\ \A j \in Jobs : jobs[j].status \notin {"unborn", "deleted"} =>
       Eligible(jobs[j].source) /\ jobs[j].output \in PastPlaces

(* The more settings there have been, the more is eligible.                *)
LEMMA EligibleStays ==
  ASSUME past \subseteq past'
  PROVE  /\ \A o : Eligible(o) => Eligible(o)'
         /\ PastPlaces \subseteq PastPlaces'
<1>1. Contained' => Contained
  BY DEF Contained
<1> QED BY <1>1 DEF Eligible, Astray, PastPlaces

(* The test that a scan makes with the settings of its start: an output    *)
(* passes it only if these do not cover where other settings have led.     *)
LEMMA ListedIsEligible ==
  ASSUME TypeOK, OnlyEligible, NEW o \in Listed, shouldProcess(o, settings)
  PROVE  Eligible(o)
<1>1. CASE o.generation = 0
  BY <1>1 DEF Eligible
<1>2. CASE o.generation # 0
  <2>1. OutputsListed /\ o.at \in PastPlaces
    BY <1>2 DEF Listed, OnlyEligible
  <2>2. settings \in past /\ settings \in Settings /\ ~Covers(settings, o.at)
    BY DEF TypeOK, shouldProcess
  <2>3. ~Contained
    BY <2>1, <2>2 DEF Contained, PastPlaces
  <2> QED BY <2>1, <2>2, <2>3 DEF Eligible, Astray
<1> QED BY <1>1, <1>2

LEMMA EligibleStep == TypeOK /\ OnlyEligible /\ [Next]_vars => OnlyEligible'
<1> SUFFICES ASSUME TypeOK, OnlyEligible, [Next]_vars PROVE OnlyEligible'
  OBVIOUS
<1> DEFINE BucketOK == \A o \in bucket : o.generation = 0 \/ o.at \in PastPlaces
           ActorsOK == \A a \in Actors :
                         /\ \A o \in listed[a] : Eligible(o)
                         /\ pc[a] \in {"create", "enqueue"} => Eligible(current[a])
           JobsOK == \A j \in Jobs : jobs[j].status \notin {"unborn", "deleted"} =>
                       Eligible(jobs[j].source) /\ jobs[j].output \in PastPlaces
<1>0. BucketOK /\ ActorsOK /\ JobsOK
  BY DEF OnlyEligible
<1>a. BucketOK' /\ ActorsOK' /\ JobsOK' => OnlyEligible'
  BY DEF OnlyEligible
<1>b. ASSUME UNCHANGED settingsVars
      PROVE  /\ \A o : Eligible(o)' = Eligible(o)
             /\ PastPlaces' = PastPlaces
  BY <1>b DEF settingsVars, Eligible, Astray, Contained, PastPlaces
<1> HIDE DEF BucketOK, ActorsOK, JobsOK
<1>1. ASSUME UNCHANGED <<jobs, bucket, actorVars, settingsVars>> PROVE OnlyEligible'
  BY <1>0, <1>1, <1>a, <1>b DEF actorVars, BucketOK, ActorsOK, JobsOK
<1>2. ASSUME NEW n \in Nodes, ScanStart(n) \/ ScanCheck(n) \/ ScanEnd(n) PROVE OnlyEligible'
  <2>1. UNCHANGED <<bucket, jobs, settingsVars>> /\ n \in Actors
    BY <1>2 DEF ScanStart, ScanCheck, ScanEnd, Actors
  <2>2. BucketOK' /\ JobsOK'
    BY <1>0, <1>b, <2>1 DEF BucketOK, JobsOK
  <2>3. ActorsOK'
    <3>1. CASE ScanStart(n)
      <4>1. \A o \in listed'[n] : Eligible(o)
        BY <2>1, <3>1, ListedIsEligible DEF ScanStart, TypeOK
      <4> QED BY <1>0, <1>b, <2>1, <3>1, <4>1 DEF ScanStart, Goto, TypeOK, ActorsOK
    <3>2. CASE ScanCheck(n)
      BY <1>0, <1>b, <2>1, <3>2 DEF ScanCheck, Goto, TypeOK, ActorsOK
    <3>3. CASE ScanEnd(n)
      BY <1>0, <1>b, <2>1, <3>3 DEF ScanEnd, Goto, TypeOK, ActorsOK
    <3> QED BY <1>2, <3>1, <3>2, <3>3
  <2> QED BY <1>a, <2>2, <2>3
<1>3. ASSUME NEW u \in Uploads, UploadSource(u) PROVE OnlyEligible'
  <2>1. UNCHANGED <<jobs, listed, settingsVars>> /\ u \in Actors /\ Source(u).generation = 0
    BY <1>3 DEF UploadSource, Source, Actors
  <2>2. BucketOK' /\ JobsOK'
    BY <1>0, <1>3, <1>b, <2>1 DEF UploadSource, BucketOK, JobsOK
  <2>3. Eligible(Source(u))
    BY <2>1 DEF Eligible
  <2>4. ActorsOK'
    BY <1>0, <1>3, <1>b, <2>1, <2>3 DEF UploadSource, Goto, TypeOK, ActorsOK
  <2> QED BY <1>a, <2>2, <2>4
<1>4. ASSUME NEW a \in Actors, CreateJobForKey(a) PROVE OnlyEligible'
  <2>1. CASE UNCHANGED jobs
    <3>1. UNCHANGED <<bucket, listed, settingsVars>>
      BY <1>4 DEF CreateJobForKey
    <3>2. BucketOK' /\ JobsOK'
      BY <1>0, <1>b, <2>1, <3>1 DEF BucketOK, JobsOK
    <3>3. ActorsOK'
      BY <1>0, <1>4, <1>b, <2>1, <3>1 DEF CreateJobForKey, Goto, Continue, TypeOK, ActorsOK
    <3> QED BY <1>a, <3>2, <3>3
  <2>2. CASE ~UNCHANGED jobs
    <3>1. PICK j \in Jobs : pc[a] = "create" /\ Inserted(a, j)
      BY <1>4, <2>2, InsertStep
    <3>2. UNCHANGED <<bucket, listed, current, settingsVars>>
      BY <3>1 DEF Inserted
    <3>3. BucketOK' /\ ActorsOK'
      BY <1>0, <1>b, <3>1, <3>2 DEF Inserted, TypeOK, BucketOK, ActorsOK
    <3>4. /\ \A i \in Jobs \ {j} : jobs'[i] = jobs[i]
          /\ jobs'[j].source = current[a]
          /\ jobs'[j].output = outputPrefixForKey(using[a])
      BY <3>1 DEF Inserted, NewRow, TypeOK
    <3>5. Eligible(current[a]) /\ outputPrefixForKey(using[a]) \in PastPlaces
      BY <1>0, <3>1 DEF TypeOK, ActorsOK, PastPlaces
    <3>6. JobsOK'
      BY <1>0, <1>b, <3>2, <3>4, <3>5 DEF JobsOK
    <3> QED BY <1>a, <3>3, <3>6
  <2> QED BY <2>1, <2>2
<1>5. ASSUME NEW a \in Actors, EnqueueJob(a) PROVE OnlyEligible'
  <2>1. UNCHANGED <<bucket, listed, settingsVars>>
    BY <1>5 DEF EnqueueJob
  <2>2. BucketOK' /\ JobsOK'
    BY <1>0, <1>5, <1>b, <2>1, EnqueueStep DEF BucketOK, JobsOK
  <2>3. ActorsOK'
    BY <1>0, <1>5, <1>b, <2>1 DEF EnqueueJob, Goto, Continue, TypeOK, ActorsOK
  <2> QED BY <1>a, <2>2, <2>3
<1>6. ASSUME NEW a \in Actors, Crash(a) PROVE OnlyEligible'
  <2>1. UNCHANGED <<bucket, jobs, settingsVars>>
    BY <1>6 DEF Crash
  <2>2. BucketOK' /\ JobsOK'
    BY <1>0, <1>b, <2>1 DEF BucketOK, JobsOK
  <2>3. ActorsOK'
    BY <1>0, <1>6, <1>b, <2>1 DEF Crash, TypeOK, ActorsOK
  <2> QED BY <1>a, <2>2, <2>3
<1>7. ASSUME NEW j \in Jobs, Work(j) PROVE OnlyEligible'
  <2>1. Kept(j)
    BY <1>7, RowStep
  <2>2. UNCHANGED <<actorVars, settingsVars>>
    BY <1>7 DEF Work, Start, Complete, Fail, Cancel, Delete, Retry, Overlap
  <2>3. ActorsOK'
    BY <1>0, <1>b, <2>2 DEF ActorsOK, actorVars
  <2>4. JobsOK'
    BY <1>0, <1>b, <2>1, <2>2 DEF JobsOK, Kept
  <2>5. BucketOK'
    <3>1. CASE Complete(j)
      <4>1. jobs[j].output \in PastPlaces
        BY <1>0, <3>1 DEF Complete, JobsOK
      <4> QED BY <1>0, <1>b, <2>2, <3>1, <4>1 DEF Complete, BucketOK
    <3>2. CASE ~Complete(j)
      <4>1. UNCHANGED bucket
        BY <1>7, <3>2 DEF Work, Start, Fail, Cancel, Delete, Retry, Overlap
      <4> QED BY <1>0, <1>b, <2>2, <4>1 DEF BucketOK
    <3> QED BY <3>1, <3>2
  <2> QED BY <1>a, <2>3, <2>4, <2>5
<1>8. ASSUME NEW name \in Dropped, Drop(name) PROVE OnlyEligible'
  <2>1. UNCHANGED <<jobs, actorVars, settingsVars>> /\ Source(name).generation = 0
    BY <1>8 DEF Drop, Source
  <2> QED BY <1>0, <1>8, <1>a, <1>b, <2>1 DEF Drop, actorVars, BucketOK, ActorsOK, JobsOK
<1>9. ASSUME NEW s \in Settings, ChangeSettings(s) PROVE OnlyEligible'
  <2>1. /\ \A o : Eligible(o) => Eligible(o)'
        /\ PastPlaces \subseteq PastPlaces'
    BY <1>9, EligibleStays DEF ChangeSettings
  <2> QED BY <1>0, <1>9, <1>a, <2>1 DEF ChangeSettings, actorVars, BucketOK, ActorsOK, JobsOK
<1> QED
  BY <1>1, <1>2, <1>3, <1>4, <1>5, <1>6, <1>7, <1>8, <1>9
  DEF Next, scanOnce, Upload, Actors, vars

LEMMA InitEligible == Init => OnlyEligible
BY DEF Init, OnlyEligible, NoRow

(* Whatever settings follow each other, and however long scans and uploads *)
(* go on with old ones, no segment is ever taken for a video as long as    *)
(* every prefix there has been covers every place where outputs have gone  *)
(* (scanner.go Start, shouldProcess, outputPrefixForKey).                  *)
THEOREM OutputsIgnored == Spec => []OutputsAreNoSources
<1>1. OnlyEligible => OutputsAreNoSources
  BY DEF OnlyEligible, Eligible, Astray, OutputsAreNoSources, Live
<1> QED BY InitEligible, EligibleStep, TypeCorrect, <1>1, PTL DEF Spec

-----------------------------------------------------------------------------
(* The contract.                                                           *)

FirstClaim(o, a) == [standing |-> "first", video |-> o, by |-> a]
AnotherClaim(o, a) == [standing |-> "again", video |-> o, by |-> a]
NoClaim == [standing |-> "none", video |-> NoJob, by |-> NoJob]
Struck == incidents < MaxIncidents /\ incidents' = incidents + 1

(* A step of the contract changes the claim of one job, to nothing, to the *)
(* claim of one who may make it and has none, or to one brought back.      *)
ClaimMoves(j) ==
  \/ Claim(j)' = Claim(j) /\ (UNCHANGED incidents \/ Struck)
  \/ Claim(j) # NoClaim /\ Claim(j)' = NoClaim /\ Struck
  \/ \E o, a : /\ <<o, a>> \in MayClaim
               /\ Claim(j) \in {NoClaim, FirstClaim(o, a), AnotherClaim(o, a)}
               /\ Claim(j)' = AnotherClaim(o, a)
               /\ Struck
  \/ \E o, a : /\ <<o, a>> \in MayClaim
               /\ Claim(j) = NoClaim
               /\ Claim(j)' = FirstClaim(o, a)
               /\ \A i \in Jobs : Claim(i) # FirstClaim(o, a)
               /\ UNCHANGED incidents

LEMMA StepOfOneClaim ==
  ASSUME NEW j \in Jobs, \A i \in Jobs \ {j} : Claim(i)' = Claim(i), ClaimMoves(j)
  PROVE  [Contract!Next]_(Contract!vars)
<1> DEFINE cl == [i \in Jobs |-> Claim(i)]
<1>1. cl[j] = Claim(j) /\ cl'[j] = Claim(j)'
  OBVIOUS
<1>2. \A i \in Jobs : cl[i] = Claim(i)
  OBVIOUS
<1>3. cl' = [cl EXCEPT ![j] = Claim(j)']
  OBVIOUS
<1>4. Contract!Strike <=> Struck
  BY DEF Contract!Strike, Struck
<1>5. Contract!None = NoClaim
  BY DEF Contract!None, NoClaim
<1>6. \A o, a : /\ Contract!First(<<o, a>>) = FirstClaim(o, a)
               /\ Contract!Again(<<o, a>>) = AnotherClaim(o, a)
  BY DEF Contract!First, Contract!Again, FirstClaim, AnotherClaim
<1>7. CASE Claim(j)' = Claim(j) /\ (UNCHANGED incidents \/ Struck)
  <2>1. cl' = cl
    BY <1>7
  <2> HIDE DEF cl
  <2>2. CASE UNCHANGED incidents
    BY <2>1, <2>2 DEF Contract!vars, cl
  <2>3. CASE Struck
    BY <1>4, <2>1, <2>3 DEF Contract!Next, Contract!Absorb, cl
  <2> QED BY <1>7, <2>2, <2>3
<1>8. CASE Claim(j) # NoClaim /\ Claim(j)' = NoClaim /\ Struck
  <2>1. Contract!End(j)
    BY <1>1, <1>3, <1>4, <1>5, <1>8 DEF Contract!End
  <2> QED BY <2>1 DEF Contract!Next
<1>9. ASSUME NEW o, NEW a, <<o, a>> \in MayClaim,
             Claim(j) \in {NoClaim, FirstClaim(o, a), AnotherClaim(o, a)},
             Claim(j)' = AnotherClaim(o, a), Struck
      PROVE  Contract!Next
  <2>1. PICK c : c = <<o, a>>
    OBVIOUS
  <2>2. Contract!First(c) = FirstClaim(o, a) /\ Contract!Again(c) = AnotherClaim(o, a)
    BY <1>6, <2>1
  <2>3. cl[j] \in {Contract!None, Contract!First(c), Contract!Again(c)}
        /\ cl' = [cl EXCEPT ![j] = Contract!Again(c)]
    BY <1>1, <1>3, <1>5, <1>9, <2>2
  <2>4. Contract!BringBack(j)
    BY <1>4, <1>9, <2>1, <2>3 DEF Contract!BringBack
  <2> QED BY <2>4 DEF Contract!Next
<1>10. ASSUME NEW o, NEW a, <<o, a>> \in MayClaim, Claim(j) = NoClaim,
              Claim(j)' = FirstClaim(o, a), \A i \in Jobs : Claim(i) # FirstClaim(o, a),
              UNCHANGED incidents
       PROVE  Contract!Next
  <2>1. PICK c : c = <<o, a>>
    OBVIOUS
  <2>2. Contract!First(c) = FirstClaim(o, a)
    BY <1>6, <2>1
  <2>3. /\ cl[j] = Contract!None
        /\ cl' = [cl EXCEPT ![j] = Contract!First(c)]
        /\ \A i \in Jobs : cl[i] # Contract!First(c)
    BY <1>1, <1>2, <1>3, <1>5, <1>10, <2>2
  <2>4. Contract!Claim(j)
    BY <1>10, <2>1, <2>3 DEF Contract!Claim
  <2> QED BY <2>4 DEF Contract!Next
<1> QED BY <1>7, <1>8, <1>9, <1>10 DEF ClaimMoves

(* A row that says the same of its origin, and is live as it was.          *)
LEMMA SameClaim ==
  ASSUME NEW i \in Jobs, Live(i)' <=> Live(i),
         Live(i) => /\ jobs'[i].source = jobs[i].source
                    /\ jobs'[i].maker = jobs[i].maker
                    /\ jobs'[i].revived = jobs[i].revived
  PROVE  Claim(i)' = Claim(i)
BY DEF Claim

(* What every row has been made for is its maker's to claim.               *)
LEMMA RowsMayBeClaimed ==
  ASSUME TypeOK, OwnVideo, OnlyEligible, NEW j \in Jobs,
         jobs[j].status \notin {"unborn", "deleted"}
  PROVE  <<jobs[j].source, jobs[j].maker>> \in MayClaim
BY DEF TypeOK, OwnVideo, OnlyEligible, Eligible, Astray, MayClaim

(* An insertion is a first claim: the scan has found none, or the upload   *)
(* is new (scanner.go scanOnce, system.go UploadSource).                   *)
LEMMA InsertionClaims ==
  ASSUME IInv, OwnVideo, OnlyEligible, NEW a \in Actors, NEW j \in Jobs,
         pc[a] = "create", Inserted(a, j)
  PROVE  [Contract!Next]_(Contract!vars)
<1>0. TypeOK
  BY DEF IInv
<1>1. /\ \A i \in Jobs \ {j} : jobs'[i] = jobs[i]
      /\ jobs'[j].status = "pending" /\ jobs'[j].source = current[a]
      /\ jobs'[j].maker = a /\ ~jobs'[j].revived
      /\ jobs[j].status = "unborn" /\ UNCHANGED incidents
  BY <1>0 DEF Inserted, NewRow, TypeOK
<1>2. \A i \in Jobs \ {j} : Claim(i)' = Claim(i)
  BY <1>1 DEF Claim, Live
<1>3. Claim(j) = NoClaim /\ Claim(j)' = FirstClaim(current[a], a)
  BY <1>1 DEF Claim, Live, NoClaim, FirstClaim
<1>4. <<current[a], a>> \in MayClaim
  <2>1. current[a] \in Objects
    BY DEF Inserted
  <2>2. a \in Uploads => current[a] = Source(a)
    BY DEF OwnVideo
  <2>3. \/ current[a].generation = 0
        \/ OutputsListed /\ \E s \in Settings : ~Covers(s, current[a].at)
    BY DEF OnlyEligible, Eligible, Astray
  <2> QED BY <2>1, <2>2, <2>3 DEF MayClaim
<1>5. ASSUME NEW i \in Jobs, Claim(i) = FirstClaim(current[a], a) PROVE FALSE
  <2>1. Live(i) /\ ~jobs[i].revived
    BY <1>5 DEF Claim, FirstClaim
  <2>2. jobs[i].source = current[a] /\ jobs[i].maker = a
    BY <1>5, <2>1 DEF Claim, FirstClaim
  <2> QED BY <2>1, <2>2 DEF IInv, NoneYet
<1>6. ClaimMoves(j)
  BY <1>1, <1>3, <1>4, <1>5 DEF ClaimMoves
<1> QED BY <1>2, <1>6, StepOfOneClaim

(* What workers and clients do to a job makes no claim.                    *)
LEMMA WorkKeepsClaims ==
  ASSUME TypeOK, OwnVideo, OnlyEligible, NEW j \in Jobs, Work(j)
  PROVE  [Contract!Next]_(Contract!vars)
<1>0. jobs \in [Jobs -> Row] /\ jobs[j] \in Row
  BY DEF TypeOK
<1>1. Kept(j)
  BY RowStep
<1>2. \A i \in Jobs \ {j} : Claim(i)' = Claim(i)
  BY <1>1 DEF Kept, Claim, Live
<1>3. \A kind : Incident(kind) => Struck
  BY DEF Incident, Struck
<1> DEFINE To(row) == jobs' = [jobs EXCEPT ![j] = row]
<1>4. CASE Start(j)
  <2>1. To([jobs[j] EXCEPT !.status = "running", !.task = FALSE])
    BY <1>4 DEF Start
  <2>2. Claim(j)' = Claim(j)
    BY <1>0, <1>4, <2>1 DEF Start, Claim, Live, Row
  <2> QED BY <1>2, <1>4, <2>2, StepOfOneClaim DEF Start, ClaimMoves
<1>5. CASE Complete(j)
  <2>1. To([jobs[j] EXCEPT !.status = "completed"])
    BY <1>5 DEF Complete
  <2>2. Claim(j)' = Claim(j)
    BY <1>0, <1>5, <2>1 DEF Complete, Claim, Live, Row
  <2> QED BY <1>2, <1>5, <2>2, StepOfOneClaim DEF Complete, ClaimMoves
<1>6. CASE Fail(j)
  <2>1. To([jobs[j] EXCEPT !.status = "failed"])
    BY <1>6 DEF Fail
  <2>2. Claim(j) # NoClaim /\ Claim(j)' = NoClaim
    BY <1>0, <1>6, <2>1 DEF Fail, Claim, NoClaim, Live, Row
  <2> QED BY <1>2, <1>3, <1>6, <2>2, StepOfOneClaim DEF Fail, ClaimMoves
<1>7. CASE Cancel(j)
  <2>1. To([jobs[j] EXCEPT !.status = "cancelled", !.task = FALSE])
    BY <1>7 DEF Cancel
  <2>2. Claim(j)' = Claim(j)
    BY <1>0, <1>7, <2>1 DEF Cancel, Claim, Live, Row
  <2> QED BY <1>2, <1>3, <1>7, <2>2, StepOfOneClaim DEF Cancel, ClaimMoves
<1>8. CASE Delete(j)
  <2>1. Claim(j)' = NoClaim
    BY <1>0, <1>8 DEF Delete, Claim, NoClaim, Live, NoRow
  <2> QED BY <1>2, <1>3, <1>8, <2>1, StepOfOneClaim DEF Delete, ClaimMoves
<1>9. CASE Retry(j) \/ Overlap(j)
  <2>1. jobs[j].status \in {"failed", "cancelled"} /\ Struck
    BY <1>3, <1>9 DEF Retry, Overlap
  <2>2. PICK o, a : o = jobs[j].source /\ a = jobs[j].maker
    OBVIOUS
  <2>3. <<o, a>> \in MayClaim
    BY <2>1, <2>2, RowsMayBeClaimed
  <2>4. jobs'[j].status \in {"pending", "running"} /\ jobs'[j].revived
        /\ jobs'[j].source = o /\ jobs'[j].maker = a
    <3>1. CASE Retry(j)
      <4>1. To([jobs[j] EXCEPT !.status = "pending", !.task = TRUE, !.revived = TRUE])
        BY <3>1 DEF Retry
      <4> QED BY <1>0, <2>2, <4>1 DEF Row
    <3>2. CASE Overlap(j)
      <4>1. To([jobs[j] EXCEPT !.status = "running", !.revived = TRUE])
        BY <3>2 DEF Overlap
      <4> QED BY <1>0, <2>2, <4>1 DEF Row
    <3> QED BY <1>9, <3>1, <3>2
  <2>5. Claim(j)' = AnotherClaim(o, a)
    BY <2>4 DEF Claim, Live, AnotherClaim
  <2>6. Claim(j) \in {NoClaim, FirstClaim(o, a), AnotherClaim(o, a)}
    BY <2>2 DEF Claim, NoClaim, FirstClaim, AnotherClaim
  <2> QED BY <1>2, <2>1, <2>3, <2>5, <2>6, StepOfOneClaim DEF ClaimMoves
<1> QED BY <1>4, <1>5, <1>6, <1>7, <1>8, <1>9 DEF Work

(* A step that leaves the rows' origins and lives alone.                   *)
LEMMA NoClaimsMove ==
  ASSUME \A i \in Jobs : Claim(i)' = Claim(i),
         UNCHANGED incidents \/ \E kind : Incident(kind)
  PROVE  [Contract!Next]_(Contract!vars)
<1>1. [i \in Jobs |-> Claim(i)]' = [i \in Jobs |-> Claim(i)]
  OBVIOUS
<1>2. CASE UNCHANGED incidents
  BY <1>1, <1>2 DEF Contract!vars
<1>3. ASSUME NEW kind, Incident(kind) PROVE Contract!Next
  BY <1>1, <1>3 DEF Contract!Next, Contract!Absorb, Contract!Strike, Incident
<1> QED BY <1>2, <1>3

(* Every step is a step of the contract or changes nothing it speaks of.   *)
LEMMA NextKeepsContract ==
  ASSUME IInv, OwnVideo, OnlyEligible, [Next]_vars
  PROVE  [Contract!Next]_(Contract!vars)
<1>0. TypeOK
  BY DEF IInv
<1>1. ASSUME UNCHANGED jobs, UNCHANGED incidents \/ \E kind : Incident(kind)
      PROVE  [Contract!Next]_(Contract!vars)
  BY <1>1, NoClaimsMove DEF Claim, Live
<1>2. ASSUME NEW a \in Actors, CreateJobForKey(a) PROVE [Contract!Next]_(Contract!vars)
  <2>1. CASE UNCHANGED jobs
    BY <1>1, <1>2, <2>1 DEF CreateJobForKey
  <2>2. CASE ~UNCHANGED jobs
    BY <1>0, <1>2, <2>2, InsertStep, InsertionClaims
  <2> QED BY <2>1, <2>2
<1>3. ASSUME NEW a \in Actors, EnqueueJob(a) PROVE [Contract!Next]_(Contract!vars)
  <2>1. \A i \in Jobs : Claim(i)' = Claim(i)
    BY <1>0, <1>3, EnqueueStep, SameClaim DEF Live
  <2> QED BY <1>3, <2>1, NoClaimsMove DEF EnqueueJob
<1>4. ASSUME NEW j \in Jobs, Work(j) PROVE [Contract!Next]_(Contract!vars)
  BY <1>0, <1>4, WorkKeepsClaims
<1>5. ASSUME NEW n \in Nodes, ScanStart(n) \/ ScanCheck(n) \/ ScanEnd(n)
      PROVE  [Contract!Next]_(Contract!vars)
  <2>1. UNCHANGED jobs /\ (UNCHANGED incidents \/ \E kind : Incident(kind))
    BY <1>5 DEF ScanStart, ScanCheck, ScanEnd
  <2> QED BY <1>1, <2>1
<1>6. ASSUME NEW u \in Uploads, UploadSource(u) PROVE [Contract!Next]_(Contract!vars)
  BY <1>1, <1>6 DEF UploadSource
<1>7. ASSUME NEW a \in Actors, Crash(a) PROVE [Contract!Next]_(Contract!vars)
  BY <1>1, <1>7 DEF Crash
<1>8. ASSUME NEW name \in Dropped, Drop(name) PROVE [Contract!Next]_(Contract!vars)
  BY <1>1, <1>8 DEF Drop
<1>9. CASE UNCHANGED vars
  BY <1>1, <1>9 DEF vars
<1>10. ASSUME NEW s \in Settings, ChangeSettings(s) PROVE [Contract!Next]_(Contract!vars)
  BY <1>1, <1>10 DEF ChangeSettings
<1> QED
  BY <1>2, <1>3, <1>4, <1>5, <1>6, <1>7, <1>8, <1>9, <1>10 DEF Next, scanOnce, Upload, Actors

(* Any number of scanners and uploads, with all their queries, insertions, *)
(* errors and restarts, keep the contract: each claims a video it may      *)
(* claim, at most once, and an incident ends or brings back one job at     *)
(* most (scanner.go scanOnce, system.go UploadSource).                     *)
THEOREM ImplementsContract == Spec => KeepsContract
<1> DEFINE Inv == IInv /\ OwnVideo /\ OnlyEligible
<1>1. Init => Inv /\ Contract!Init
  <2> SUFFICES ASSUME Init PROVE OwnVideo /\ Contract!Init
    BY InitIInv, InitEligible
  <2>1. OwnVideo
    BY DEF Init, OwnVideo, NoRow, Actors
  <2>2. \A j \in Jobs : Claim(j) = NoClaim
    BY DEF Init, NoRow, Claim, Live, NoClaim
  <2>3. Contract!Init
    BY <2>2 DEF Init, Contract!Init, Contract!None, NoClaim
  <2> QED BY <2>1, <2>3
<1>2. Inv /\ [Next]_vars => Inv'
  BY IInvStep, OwnVideoStep, EligibleStep DEF IInv
<1>3. Inv /\ [Next]_vars => [Contract!Next]_(Contract!vars)
  BY NextKeepsContract
<1> QED BY <1>1, <1>2, <1>3, PTL DEF Spec, KeepsContract, Contract!Spec
=============================================================================
