----------------------------- MODULE RateLimit ------------------------------
(***************************************************************************)
(* The rate limiter (internal/api/middleware/ratelimit.go): a map from a   *)
(* client's address to a counter and the time of its last request, guarded *)
(* by one mutex, and a goroutine that sweeps the map once a minute.  Time  *)
(* is counted in ticks.                                                    *)
(***************************************************************************)
EXTENDS Integers, FiniteSets

CONSTANTS
  Clients,
  NoClient,
  Requests,   \* request ids, each used once
  Limit,      \* maxRequestsPerMinute
  Minute,     \* ticks of a minute
  MaxTime     \* when the clock stops: a bound

ASSUME LimitAssumption == Limit \in Nat \ {0} /\ Minute \in Nat \ {0} /\ MaxTime \in Nat
ASSUME RequestsAssumption == IsFiniteSet(Requests)

VARIABLES
  now,
  visitors,    \* count and lastSeen of each client in the map
  nextSweep,   \* when cleanupVisitors wakes up
  log          \* history: who sent each request, when, what came of it and
               \* which number the counter gave it

vars == <<now, visitors, nextSweep, log>>

Absent == [count |-> 0, lastSeen |-> 0]   \* not in the map
Unsent == [client |-> NoClient, at |-> 0, answer |-> "none", number |-> 0]

Visitor == [count: Nat, lastSeen: Nat]
Request == [client: Clients \cup {NoClient}, at: Nat, answer: {"none", "served", "refused"},
            number: Nat]

TypeOK ==
  /\ now \in Nat
  /\ visitors \in [Clients -> Visitor]
  /\ nextSweep \in now .. now + Minute
  /\ log \in [Requests -> Request]

Init ==
  /\ now = 0
  /\ visitors = [c \in Clients |-> Absent]
  /\ nextSweep = Minute
  /\ log = [r \in Requests |-> Unsent]

(* Mutant: a quiet minute is over too early.                               *)
IdleEarly(v) == now - v.lastSeen >= Minute - 1

Idle(v) == now - v.lastSeen > Minute

(* The counter starts again after a quiet minute and counts on otherwise,  *)
(* refused requests included.                                              *)
Seen(v) ==
  [count    |-> IF v.count = 0 \/ Idle(v) THEN 1 ELSE v.count + 1,
   lastSeen |-> now]

(* One request under the mutex.                                            *)
RateLimit(r, c) ==
  LET v == Seen(visitors[c]) IN
  /\ log[r].answer = "none"
  /\ visitors' = [visitors EXCEPT ![c] = v]
  /\ log' = [log EXCEPT ![r] =
               [client |-> c, at |-> now, number |-> v.count,
                answer |-> IF v.count > Limit THEN "refused" ELSE "served"]]
  /\ UNCHANGED <<now, nextSweep>>

(* Mutant: the cleaner sleeps for two minutes.                             *)
cleanupVisitorsSeldom ==
  /\ now = nextSweep
  /\ visitors' = [c \in Clients |-> IF Idle(visitors[c]) THEN Absent ELSE visitors[c]]
  /\ nextSweep' = now + 2 * Minute
  /\ UNCHANGED <<now, log>>

(* Mutant: the cleaner keeps a client for two quiet minutes.               *)
cleanupVisitorsLate ==
  /\ now = nextSweep
  /\ visitors' = [c \in Clients |-> IF now - visitors[c].lastSeen > 2 * Minute
                                    THEN Absent ELSE visitors[c]]
  /\ nextSweep' = now + Minute
  /\ UNCHANGED <<now, log>>

(* One round of the cleaner under the mutex.                               *)
cleanupVisitors ==
  /\ now = nextSweep
  /\ visitors' = [c \in Clients |-> IF Idle(visitors[c]) THEN Absent ELSE visitors[c]]
  /\ nextSweep' = now + Minute
  /\ UNCHANGED <<now, log>>

(* Time passes, but not beyond the moment the cleaner wakes up.            *)
Tick ==
  /\ now < MaxTime
  /\ now < nextSweep
  /\ now' = now + 1
  /\ UNCHANGED <<visitors, nextSweep, log>>

Next ==
  \/ \E r \in Requests, c \in Clients : RateLimit(r, c)
  \/ cleanupVisitors
  \/ Tick

Spec == Init /\ [][Next]_vars

-----------------------------------------------------------------------------
(* Properties.                                                             *)

(* The requests of client c in the minute that ends at time t.             *)
LastMinute(c, t) ==
  {r \in Requests : log[r].answer # "none" /\ log[r].client = c
                    /\ log[r].at \in t - Minute .. t}

(* Although the code counts in windows that start and end with the         *)
(* client's silence, no minute, wherever it starts, sees more than Limit   *)
(* requests of a client served, resets and sweeps included (RateLimit,     *)
(* cleanupVisitors).                                                       *)
LimitHolds ==
  \A c \in Clients, t \in 0 .. now :
    Cardinality({r \in LastMinute(c, t) : log[r].answer = "served"}) <= Limit

(* The map does not keep a client for more than two minutes after its last *)
(* request (cleanupVisitors).                                              *)
VisitorsForgotten ==
  \A c \in Clients : visitors[c].count > 0 => now - visitors[c].lastSeen <= 2 * Minute
=============================================================================
