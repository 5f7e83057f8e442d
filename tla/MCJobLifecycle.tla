--------------------------- MODULE MCJobLifecycle ---------------------------
(* Instances of JobLifecycle for TLC.  Tasks, handlers and the requests    *)
(* but the first are interchangeable in the safety runs.                   *)
EXTENDS JobLifecycle, TLC

CONSTANTS Creator,      \* the request that creates the only job
          n1, n2,       \* the nodes
          First         \* handlers and requests of the first node

Placed == [a \in Runs \cup Requests |-> IF a \in First THEN n1 ELSE n2]

Symmetry == Permutations(Tasks) \cup Permutations(Runs)
                \cup Permutations(Requests \ {Creator})

(* A request more than otherwise may come as long as no fault has struck,  *)
(* and only until then may a goroutine that reads progress outlive ffmpeg  *)
(* by more than a moment: no action depends on what it reports.            *)
Bounds ==
  /\ \A r \in Requests : reqPc[r] # "idle" => reqPc[Creator] # "idle"
  /\ \/ faults = 0
     \/ /\ \E r \in Requests : reqPc[r] = "idle"
        /\ \A h \in Runs : reading[h] => pc[h] \in {"encoding", "setUploading", "fail"}

(* No action and no property of the safety runs reads the events.          *)
AllButEvents == <<jobs, files, runVars, requestVars, queueVars, faults, mishap>>
=============================================================================
