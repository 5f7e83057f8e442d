-------------------------- MODULE MigrationsProofs ---------------------------
(* Theorems about Migrations for any number of nodes, files and incidents. *)
EXTENDS Migrations, TLAPS

USE BoundsAssumption, IdempotentAssumption

(* One transaction at most holds a version, one that is about to commit    *)
(* is the first to record it, and a node has what it has stepped over.     *)
OneHolder ==
  \A m, n \in Nodes : Holds(m, at[n]) /\ Holds(n, at[n]) => m = n
CommitIsFirst == \A n \in Nodes : pc[n] = "commit" => at[n] \notin recorded
Reached ==
  \A n \in Nodes : pc[n] # "down" => 1 .. at[n] - 1 \subseteq recorded
UpIsDone == \A n \in Nodes : pc[n] = "up" => at[n] > files[n]
RunsAreCommits == \A v \in 1 .. N : runs[v] = IF v \in schema THEN 1 ELSE 0

IInv ==
  /\ TypeOK
  /\ schema = recorded /\ RunsAreCommits
  /\ RecordedInOrder
  /\ OneHolder /\ CommitIsFirst /\ Reached /\ UpIsDone

LEMMA InitIInv == Init => IInv
BY DEF Init, IInv, TypeOK, InTx, RunsAreCommits, RecordedInOrder, OneHolder, CommitIsFirst,
       Reached, UpIsDone, Holds

(* A step that only moves one node to another statement.                   *)
LEMMA GotoStep ==
  ASSUME IInv, NEW n \in Nodes,
         NEW p \in {"create", "check", "exec", "up", "down"} \cup InTx,
         pc' = [pc EXCEPT ![n] = p],
         UNCHANGED <<files, at, dbVars>>,
         incidents' \in 0 .. MaxIncidents,
         p \in {"exec"} \cup InTx => at[n] <= files[n],
         p \in InTx => pc[n] \in InTx \/ \A m \in Nodes : ~Holds(m, at[n]),
         p = "commit" => at[n] \notin recorded,
         p # "down" => 1 .. at[n] - 1 \subseteq recorded,
         p = "up" => at[n] > files[n]
  PROVE  IInv'
<1>0. pc'[n] = p /\ \A m \in Nodes \ {n} : pc'[m] = pc[m]
  BY DEF IInv, TypeOK
<1>1. TypeOK'
  BY <1>0 DEF IInv, TypeOK, dbVars
<1>2. (schema = recorded)' /\ RunsAreCommits' /\ RecordedInOrder'
  BY DEF IInv, RunsAreCommits, RecordedInOrder, dbVars
<1>3. OneHolder'
  BY <1>0 DEF IInv, OneHolder, Holds
<1>4. CommitIsFirst' /\ Reached' /\ UpIsDone'
  BY <1>0 DEF IInv, CommitIsFirst, Reached, UpIsDone, dbVars
<1> QED BY <1>1, <1>2, <1>3, <1>4 DEF IInv

LEMMA FatalStep ==
  ASSUME IInv, NEW n \in Nodes, Fatal(n), UNCHANGED <<files, at, dbVars>>,
         incidents' \in 0 .. MaxIncidents
  PROVE  IInv'
BY GotoStep DEF Fatal, InTx

LEMMA IncidentType ==
  IInv /\ (Incident \/ UNCHANGED incidents) => incidents' \in 0 .. MaxIncidents
BY DEF IInv, TypeOK, Incident

(* A step of a node outside of a transaction that changes its version or   *)
(* its binary.                                                             *)
LEMMA LoopStep ==
  ASSUME IInv, NEW n \in Nodes, NEW p \in {"create", "check"},
         pc[n] \notin InTx, pc' = [pc EXCEPT ![n] = p],
         NEW v \in 1 .. N + 1, at' = [at EXCEPT ![n] = v],
         NEW f \in 0 .. N, files' = [files EXCEPT ![n] = f],
         UNCHANGED <<dbVars, incidents>>,
         1 .. v - 1 \subseteq recorded
  PROVE  IInv'
<1>0. /\ pc'[n] = p /\ at'[n] = v /\ files'[n] = f
      /\ \A m \in Nodes \ {n} : pc'[m] = pc[m] /\ at'[m] = at[m] /\ files'[m] = files[m]
  BY DEF IInv, TypeOK
<1>1. TypeOK'
  BY <1>0 DEF IInv, TypeOK, dbVars, InTx
<1>2. (schema = recorded)' /\ RunsAreCommits' /\ RecordedInOrder'
  BY DEF IInv, RunsAreCommits, RecordedInOrder, dbVars
<1>3. OneHolder'
  BY <1>0 DEF IInv, OneHolder, Holds, InTx
<1>4. CommitIsFirst' /\ Reached' /\ UpIsDone'
  BY <1>0 DEF IInv, CommitIsFirst, Reached, UpIsDone, dbVars
<1> QED BY <1>1, <1>2, <1>3, <1>4 DEF IInv

(* The commit of a version by a node that goes on with the next or ends.   *)
LEMMA CommitStep ==
  ASSUME IInv, NEW n \in Nodes, pc[n] = "commit", Committed(at[n]),
         incidents' \in 0 .. MaxIncidents, UNCHANGED files,
         NEW p \in {"check", "down"}, pc' = [pc EXCEPT ![n] = p],
         NEW v \in {at[n], at[n] + 1}, at' = [at EXCEPT ![n] = v]
  PROVE  IInv'
<1>0. /\ pc'[n] = p /\ at'[n] = v
      /\ \A m \in Nodes \ {n} : pc'[m] = pc[m] /\ at'[m] = at[m]
  BY DEF IInv, TypeOK
<1>1. at[n] <= files[n] /\ files[n] \in 0 .. N /\ at[n] \in 1 .. N + 1
  BY DEF IInv, TypeOK, InTx
<1>2. at[n] \in 1 .. N
  BY <1>1
<1>3. at[n] \notin recorded /\ at[n] \notin schema /\ 1 .. at[n] - 1 \subseteq recorded
  BY DEF IInv, CommitIsFirst, Reached
<1>4. v \in 1 .. N + 1
  BY <1>2
<1>5. TypeOK'
  <2>1. runs' \in [1 .. N -> Nat]
    BY <1>2 DEF IInv, TypeOK, Committed
  <2> QED BY <1>0, <1>2, <1>4, <2>1 DEF IInv, TypeOK, InTx, Committed
<1>6. (schema = recorded)'
  BY DEF IInv, Committed
<1>7. RunsAreCommits'
  BY <1>2, <1>3 DEF IInv, TypeOK, RunsAreCommits, Committed
<1>8. RecordedInOrder'
  <2> SUFFICES ASSUME NEW w \in recorded', NEW u \in 1 .. w PROVE u \in recorded'
    BY DEF RecordedInOrder
  <2>1. CASE w \in recorded
    BY <2>1 DEF IInv, RecordedInOrder, Committed
  <2>2. CASE w = at[n]
    <3>1. u \in 1 .. at[n] - 1 \/ u = at[n]
      BY <1>2, <2>2
    <3> QED BY <1>3, <3>1 DEF Committed
  <2> QED BY <2>1, <2>2 DEF Committed
<1>9. OneHolder'
  BY <1>0 DEF IInv, OneHolder, Holds, InTx
<1>10. CommitIsFirst'
  <2>1. \A m \in Nodes \ {n} : pc[m] = "commit" => at[m] # at[n]
    BY DEF IInv, OneHolder, Holds, InTx
  <2> QED BY <1>0, <2>1 DEF IInv, CommitIsFirst, Committed
<1>11. Reached'
  <2>1. 1 .. v - 1 \subseteq recorded'
    BY <1>2, <1>3 DEF Committed
  <2> QED BY <1>0, <2>1 DEF IInv, Reached, Committed
<1>12. UpIsDone'
  BY <1>0 DEF IInv, UpIsDone
<1> QED BY <1>5, <1>6, <1>7, <1>8, <1>9, <1>10, <1>11, <1>12 DEF IInv

LEMMA IInvStep == IInv /\ [Next]_vars => IInv'
<1> SUFFICES ASSUME IInv, [Next]_vars PROVE IInv'
  OBVIOUS
<1>0. TypeOK /\ \A n \in Nodes : pc[n] # "down" => 1 .. at[n] - 1 \subseteq recorded
  BY DEF IInv, Reached
<1>1. ASSUME NEW n \in Nodes, Start(n) PROVE IInv'
  <2>1. PICK f \in files[n] .. N : files' = [files EXCEPT ![n] = f]
    BY <1>1 DEF Start
  <2>2. f \in 0 .. N /\ 1 \in 1 .. N + 1
    BY <1>0, <2>1 DEF TypeOK
  <2>3. 1 .. 1 - 1 \subseteq recorded
    OBVIOUS
  <2>4. pc[n] \notin InTx /\ pc' = [pc EXCEPT ![n] = "create"]
        /\ at' = [at EXCEPT ![n] = 1] /\ UNCHANGED <<dbVars, incidents>>
    BY <1>1 DEF Start, Goto, InTx
  <2> QED BY <2>1, <2>2, <2>3, <2>4, LoopStep
<1>2. ASSUME NEW n \in Nodes, CreateTable(n) PROVE IInv'
  <2>1. CASE Goto(n, "create", "check") /\ UNCHANGED incidents
    BY <1>0, <1>2, <2>1, IncidentType, GotoStep DEF CreateTable, Goto, InTx
  <2>2. CASE Incident /\ Fatal(n)
    BY <1>2, <2>2, IncidentType, FatalStep DEF CreateTable
  <2> QED BY <1>2, <2>1, <2>2 DEF CreateTable
<1>3. ASSUME NEW n \in Nodes, Check(n) PROVE IInv'
  <2>1. CASE at[n] > files[n] /\ Goto(n, "check", "up") /\ UNCHANGED <<at, incidents>>
    BY <1>0, <1>3, <2>1, IncidentType, GotoStep DEF Check, Goto, InTx
  <2>2. CASE /\ at[n] <= files[n] /\ at[n] \in recorded
             /\ at' = [at EXCEPT ![n] = @ + 1]
             /\ UNCHANGED <<pc, incidents>>
    <3>1. at[n] \in 1 .. N /\ at[n] + 1 \in 1 .. N + 1 /\ files[n] \in 0 .. N
      BY <1>0, <2>2 DEF TypeOK
    <3>2. 1 .. (at[n] + 1) - 1 \subseteq recorded
      BY <1>0, <1>3, <2>2, <3>1 DEF Check
    <3>3. pc' = [pc EXCEPT ![n] = "check"] /\ files' = [files EXCEPT ![n] = files[n]]
      BY <1>0, <1>3, <2>2 DEF Check, TypeOK
    <3>4. at' = [at EXCEPT ![n] = at[n] + 1] /\ UNCHANGED <<dbVars, incidents>> /\ pc[n] \notin InTx
      BY <1>3, <2>2 DEF Check, InTx
    <3> QED BY <3>1, <3>2, <3>3, <3>4, LoopStep
  <2>3. CASE /\ at[n] <= files[n] /\ at[n] \notin recorded
             /\ Goto(n, "check", "exec")
             /\ UNCHANGED <<at, incidents>>
    BY <1>0, <1>3, <2>3, IncidentType, GotoStep DEF Check, Goto, InTx
  <2>4. CASE Incident /\ Fatal(n) /\ UNCHANGED at
    BY <1>3, <2>4, IncidentType, FatalStep DEF Check
  <2> QED BY <1>3, <2>1, <2>2, <2>3, <2>4 DEF Check
<1>4. ASSUME NEW n \in Nodes, Execute(n) PROVE IInv'
  <2>0. at[n] <= files[n]
    BY <1>0, <1>4 DEF Execute, TypeOK
  <2>1. CASE Goto(n, "exec", "record") /\ UNCHANGED incidents
    BY <1>0, <1>4, <2>0, <2>1, IncidentType, GotoStep DEF Execute, Goto, InTx
  <2>2. CASE Fatal(n) /\ (UNCHANGED incidents \/ Incident)
    BY <1>4, <2>2, IncidentType, FatalStep DEF Execute
  <2> QED BY <1>4, <2>1, <2>2 DEF Execute
<1>5. ASSUME NEW n \in Nodes, Record(n) PROVE IInv'
  <2>0. at[n] <= files[n]
    BY <1>0, <1>5 DEF Record, TypeOK, InTx
  <2>1. CASE at[n] \notin recorded /\ Goto(n, "record", "commit") /\ UNCHANGED incidents
    BY <1>0, <1>5, <2>0, <2>1, IncidentType, GotoStep DEF Record, Goto, InTx
  <2>2. CASE Fatal(n) /\ (UNCHANGED incidents \/ Incident)
    BY <1>5, <2>2, IncidentType, FatalStep DEF Record
  <2> QED BY <1>5, <2>1, <2>2 DEF Record
<1>6. ASSUME NEW n \in Nodes, Commit(n) PROVE IInv'
  <2>1. incidents' \in 0 .. MaxIncidents
    BY <1>6, IncidentType DEF Commit
  <2>2. CASE Goto(n, "commit", "check") /\ at' = [at EXCEPT ![n] = @ + 1] /\ Committed(at[n])
    <3>1. at' = [at EXCEPT ![n] = at[n] + 1]
      BY <2>2
    <3> QED BY <1>6, <2>1, <2>2, <3>1, CommitStep DEF Commit, Goto
  <2>3. CASE Fatal(n) /\ UNCHANGED at /\ Committed(at[n])
    <3>1. at' = [at EXCEPT ![n] = at[n]]
      BY <1>0, <2>3 DEF TypeOK
    <3> QED BY <1>6, <2>1, <2>3, <3>1, CommitStep DEF Commit, Fatal
  <2>4. CASE Fatal(n) /\ UNCHANGED <<at, dbVars>>
    BY <1>6, <2>1, <2>4, FatalStep DEF Commit
  <2> QED BY <1>6, <2>2, <2>3, <2>4 DEF Commit
<1>7. ASSUME NEW n \in Nodes, Crash(n) PROVE IInv'
  BY <1>7, IncidentType, FatalStep DEF Crash
<1>8. CASE UNCHANGED vars
  BY <1>8 DEF vars, nodeVars, dbVars, IInv, TypeOK, RunsAreCommits, RecordedInOrder, OneHolder,
              CommitIsFirst, Reached, UpIsDone, Holds
<1> QED BY <1>1, <1>2, <1>3, <1>4, <1>5, <1>6, <1>7, <1>8 DEF Next, Migrate

(* No node executes or records a version its binary does not have.         *)
THEOREM TypeCorrect == Spec => []TypeOK
<1>1. IInv => TypeOK
  BY DEF IInv
<1> QED BY InitIInv, IInvStep, <1>1, PTL DEF Spec

(* However many processes migrate at once, with whatever binaries, and     *)
(* wherever they fail, a migration takes effect once and is recorded with  *)
(* it (database.go Migrate).                                               *)
THEOREM MigrationsApplyOnce == Spec => []AppliedOnce
<1>1. IInv => AppliedOnce
  BY DEF IInv, AppliedOnce, RunsAreCommits
<1> QED BY InitIInv, IInvStep, <1>1, PTL DEF Spec

(* The recorded versions have no gap (database.go Migrate).                *)
THEOREM MigrationsInOrder == Spec => []RecordedInOrder
<1>1. IInv => RecordedInOrder
  BY DEF IInv
<1> QED BY InitIInv, IInvStep, <1>1, PTL DEF Spec

(* A process that serves finds all of its migrations (database.go Migrate, *)
(* main.go main).                                                          *)
THEOREM MigratedBeforeServing == Spec => []ServesMigrated
<1>1. IInv => ServesMigrated
  <2> SUFFICES ASSUME IInv, NEW n \in Nodes, pc[n] = "up", NEW v \in 1 .. files[n]
               PROVE  v \in schema
    BY DEF ServesMigrated
  <2>1. files[n] \in 0 .. N /\ at[n] \in 1 .. N + 1 /\ at[n] > files[n]
    BY DEF IInv, TypeOK, UpIsDone
  <2>2. v \in 1 .. at[n] - 1
    BY <2>1
  <2> QED BY <2>2 DEF IInv, Reached
<1> QED BY InitIInv, IInvStep, <1>1, PTL DEF Spec
=============================================================================
