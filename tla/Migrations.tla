----------------------------- MODULE Migrations ------------------------------
(***************************************************************************)
(* Schema migrations (database.go Migrate).  Every process runs them when  *)
(* it starts, several may start at once on one database, with the same     *)
(* binary or, while a new version is rolled out, with different ones, and  *)
(* a process whose migration fails ends and is started again.  The program *)
(* takes no lock: what keeps the processes apart is that PostgreSQL runs   *)
(* the content and the record of a migration in one transaction and makes  *)
(* a second transaction that creates the same objects wait.                *)
(***************************************************************************)
EXTENDS Integers

CONSTANTS
  Nodes,
  N,             \* migration files of the newest binary; a file's version
                 \* is its position in the sorted list
  Idempotent,    \* versions whose content is IF NOT EXISTS throughout
  MaxIncidents   \* how often something goes wrong: a bound

ASSUME BoundsAssumption     == N \in Nat /\ MaxIncidents \in Nat
ASSUME IdempotentAssumption == Idempotent \subseteq 1 .. N

VARIABLES
  files,       \* migration files each node's binary has
  pc,          \* next statement of each node
  at,          \* version each node is at
  schema,      \* versions whose content is committed
  runs,        \* history: how often the content of each has been committed
  recorded,    \* schema_migrations
  incidents

nodeVars == <<files, pc, at>>
dbVars == <<schema, runs, recorded>>
vars == <<nodeVars, dbVars, incidents>>

InTx == {"record", "commit"}

TypeOK ==
  /\ files \in [Nodes -> 0 .. N]
  /\ pc \in [Nodes -> {"create", "check", "exec", "up", "down"} \cup InTx]
  /\ at \in [Nodes -> 1 .. N + 1]
  /\ \A n \in Nodes : pc[n] \in {"exec"} \cup InTx => at[n] <= files[n]
  /\ schema \subseteq 1 .. N
  /\ recorded \subseteq 1 .. N
  /\ runs \in [1 .. N -> Nat]
  /\ incidents \in 0 .. MaxIncidents

(* A database an earlier binary has brought to some version, or a new one. *)
Init ==
  /\ files \in [Nodes -> 0 .. N]
  /\ pc = [n \in Nodes |-> "down"]
  /\ at = [n \in Nodes |-> 1]
  /\ \E k \in 0 .. N :
       /\ schema = 1 .. k
       /\ recorded = 1 .. k
       /\ runs = [v \in 1 .. N |-> IF v <= k THEN 1 ELSE 0]
  /\ incidents = 0

Incident == incidents < MaxIncidents /\ incidents' = incidents + 1

Goto(n, from, to) ==
  /\ pc[n] = from
  /\ pc' = [pc EXCEPT ![n] = to]

(* Mutant: main logs the error and serves.                                 *)
FatalIgnored(n) == pc' = [pc EXCEPT ![n] = "up"]

(* Migrate has returned an error: main ends, an open transaction with it.  *)
Fatal(n) == pc' = [pc EXCEPT ![n] = "down"]

(* The process starts again, perhaps as a newer binary.                    *)
Start(n) ==
  /\ Goto(n, "down", "create")
  /\ \E f \in files[n] .. N : files' = [files EXCEPT ![n] = f]
  /\ at' = [at EXCEPT ![n] = 1]
  /\ UNCHANGED <<dbVars, incidents>>

(* CREATE TABLE IF NOT EXISTS schema_migrations; two at once may collide   *)
(* in PostgreSQL's catalog, which counts as an incident.                   *)
CreateTable(n) ==
  /\ pc[n] = "create"
  /\ \/ Goto(n, "create", "check") /\ UNCHANGED incidents
     \/ Incident /\ Fatal(n)
  /\ UNCHANGED <<files, at, dbVars>>

(* Mutant: an error of the query counts as yes.                            *)
CheckUnchecked(n) ==
  /\ pc[n] = "check"
  /\ \/ at[n] > files[n] /\ Goto(n, "check", "up") /\ UNCHANGED <<at, incidents>>
     \/ /\ at[n] <= files[n]
        /\ (at[n] \in recorded /\ UNCHANGED incidents) \/ Incident
        /\ at' = [at EXCEPT ![n] = @ + 1]
        /\ UNCHANGED pc
     \/ /\ at[n] <= files[n] /\ at[n] \notin recorded
        /\ Goto(n, "check", "exec")
        /\ UNCHANGED <<at, incidents>>
  /\ UNCHANGED <<files, dbVars>>

(* Mutant: the loop runs once too often.                                   *)
CheckOnceMore(n) ==
  /\ pc[n] = "check"
  /\ \/ at[n] > files[n] + 1 /\ Goto(n, "check", "up") /\ UNCHANGED at
     \/ at[n] \in recorded /\ at' = [at EXCEPT ![n] = @ + 1] /\ UNCHANGED pc
     \/ at[n] \notin recorded /\ Goto(n, "check", "exec") /\ UNCHANGED at
  /\ UNCHANGED <<files, dbVars, incidents>>

(* The loop: done, or is the next version recorded?                        *)
Check(n) ==
  /\ pc[n] = "check"
  /\ \/ at[n] > files[n] /\ Goto(n, "check", "up") /\ UNCHANGED <<at, incidents>>
     \/ /\ at[n] <= files[n] /\ at[n] \in recorded
        /\ at' = [at EXCEPT ![n] = @ + 1]
        /\ UNCHANGED <<pc, incidents>>
     \/ /\ at[n] <= files[n] /\ at[n] \notin recorded
        /\ Goto(n, "check", "exec")
        /\ UNCHANGED <<at, incidents>>
     \/ at[n] <= files[n] /\ Incident /\ Fatal(n) /\ UNCHANGED at
  /\ UNCHANGED <<files, dbVars>>

(* A transaction that has created the objects of version v holds them.     *)
Holds(m, v) == pc[m] \in InTx /\ at[m] = v

(* Mutant: the content runs outside of the transaction.                    *)
ExecuteAtOnce(n) ==
  /\ pc[n] = "exec"
  /\ \/ /\ at[n] \notin schema \/ at[n] \in Idempotent
        /\ Goto(n, "exec", "record")
        /\ schema' = schema \cup {at[n]}
        /\ UNCHANGED incidents
     \/ at[n] \in schema /\ Fatal(n) /\ UNCHANGED <<schema, incidents>>
  /\ UNCHANGED <<files, at, runs, recorded>>

(* Begin and the content: it waits for a transaction that creates the same *)
(* objects, fails when they exist, also when an IF NOT EXISTS has waited   *)
(* for the one that created them, and does nothing when such a statement   *)
(* finds them.                                                             *)
Execute(n) ==
  /\ pc[n] = "exec"
  /\ \A m \in Nodes : ~Holds(m, at[n])
  /\ \/ /\ at[n] \notin schema \/ at[n] \in Idempotent
        /\ Goto(n, "exec", "record")
        /\ UNCHANGED incidents
     \/ at[n] \in schema /\ Fatal(n) /\ UNCHANGED incidents
     \/ Incident /\ Fatal(n)
  /\ UNCHANGED <<files, at, dbVars>>

(* INSERT INTO schema_migrations; the version is the primary key.          *)
Record(n) ==
  /\ pc[n] = "record"
  /\ \/ at[n] \notin recorded /\ Goto(n, "record", "commit") /\ UNCHANGED incidents
     \/ at[n] \in recorded /\ Fatal(n) /\ UNCHANGED incidents
     \/ Incident /\ Fatal(n)
  /\ UNCHANGED <<files, at, dbVars>>

Committed(v) ==
  /\ schema' = schema \cup {v}
  /\ runs' = [runs EXCEPT ![v] = @ + 1]
  /\ recorded' = recorded \cup {v}

(* The answer to COMMIT may be an error, or be lost after the commit.      *)
Commit(n) ==
  /\ pc[n] = "commit"
  /\ \/ /\ Goto(n, "commit", "check")
        /\ at' = [at EXCEPT ![n] = @ + 1]
        /\ Committed(at[n])
        /\ UNCHANGED incidents
     \/ /\ Incident /\ Fatal(n)
        /\ Committed(at[n]) \/ UNCHANGED dbVars
        /\ UNCHANGED at
  /\ UNCHANGED files

Crash(n) ==
  /\ pc[n] # "down"
  /\ Incident /\ Fatal(n)
  /\ UNCHANGED <<files, at, dbVars>>

Migrate(n) == CreateTable(n) \/ Check(n) \/ Execute(n) \/ Record(n) \/ Commit(n)

Next == \E n \in Nodes : Start(n) \/ Migrate(n) \/ Crash(n)

Spec == Init /\ [][Next]_vars

(* The processes run, and docker/docker-compose.yml restarts them.         *)
Fairness == \A n \in Nodes : WF_vars(Start(n)) /\ WF_vars(Migrate(n))

FairSpec == Spec /\ Fairness

-----------------------------------------------------------------------------
(* Properties.                                                             *)

(* Whatever starts, fails and overlaps, no migration takes effect twice,   *)
(* and what is recorded is what is in the schema: a crash between the      *)
(* content and its record, or a COMMIT whose answer is lost, leaves no     *)
(* version that is there but looks missing, or the other way round         *)
(* (database.go Migrate).                                                  *)
AppliedOnce ==
  /\ schema = recorded
  /\ \A v \in 1 .. N : runs[v] <= 1

(* Versions appear in order, also when binaries with fewer files migrate   *)
(* beside newer ones (database.go Migrate).                                *)
RecordedInOrder == \A v \in recorded : 1 .. v \subseteq recorded

(* A process serves only when the schema has all its migrations            *)
(* (database.go Migrate, main.go main).                                    *)
ServesMigrated ==
  \A n \in Nodes : pc[n] = "up" => 1 .. files[n] \subseteq schema

(* A start that collides with another one or fails is made good by a       *)
(* restart: no failure leaves a database that no process can migrate       *)
(* (database.go Migrate).                                                  *)
EveryNodeServes == \A n \in Nodes : []<>(pc[n] = "up")
=============================================================================
