----------------------------- MODULE JobContract -----------------------------
(***************************************************************************)
(* What the job system promises its users, without rows, tasks, handlers   *)
(* or requests: a job that was accepted is owed an end, and the system     *)
(* owes it until it has one.  Only a fault can make it lose jobs, no fault *)
(* costs more of them than a process has in hand, and no other step        *)
(* changes two jobs.  Users and second deliveries may open a settled or    *)
(* lost job again.                                                         *)
(***************************************************************************)
EXTENDS Integers

CONSTANTS Jobs,
          Reach,      \* what a process has in hand at most
          MaxFaults

VARIABLES phase, faults

vars == <<phase, faults>>

Phases == {"unborn", "owed", "settled", "lost", "gone"}

TypeOK == phase \in [Jobs -> Phases] /\ faults \in 0 .. MaxFaults

Init ==
  /\ phase = [j \in Jobs |-> "unborn"]
  /\ faults = 0

Move(j, from, to) ==
  /\ phase[j] \in from
  /\ phase' = [phase EXCEPT ![j] = to]

(* A fault strikes, or not.                                                *)
Strike == faults < MaxFaults /\ faults' = faults + 1
Perhaps == Strike \/ UNCHANGED faults

Submit(j) == UNCHANGED faults /\ Move(j, {"unborn"}, "owed")
Settle(j) == UNCHANGED faults /\ Move(j, {"owed", "lost"}, "settled")
Reopen(j) == Perhaps /\ Move(j, {"settled", "lost"}, "owed")
Remove(j) == UNCHANGED faults /\ Move(j, {"owed", "settled", "lost"}, "gone")

(* No more than a process has in hand.                                     *)
Few(S) == \E place \in [S -> 1 .. Reach] : \A i, j \in S : place[i] = place[j] => i = j

(* A fault loses jobs or, when it frees their tasks, brings lost ones      *)
(* back.  Most faults do neither.                                          *)
Upset(S) ==
  /\ Strike
  /\ Few(S)
  /\ \A j \in S : phase[j] \in {"owed", "lost"}
  /\ phase' = [j \in Jobs |-> IF j \notin S THEN phase[j]
                              ELSE IF phase[j] = "owed" THEN "lost" ELSE "owed"]

Next ==
  \/ \E j \in Jobs : Submit(j) \/ Settle(j) \/ Reopen(j) \/ Remove(j)
  \/ \E S \in SUBSET Jobs : Upset(S)

Spec == Init /\ [][Next]_vars

(* What is owed is paid: settled, lost to a fault, or removed.             *)
DebtsArePaid == \A j \in Jobs : phase[j] = "owed" ~> phase[j] # "owed"
=============================================================================
