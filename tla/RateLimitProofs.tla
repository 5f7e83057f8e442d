-------------------------- MODULE RateLimitProofs ---------------------------
(* Theorems about RateLimit for any number of clients and requests and any *)
(* limit.                                                                  *)
EXTENDS RateLimit, FiniteSetTheorems, TLAPS

USE LimitAssumption, RequestsAssumption

Sent(r, c) == log[r].answer # "none" /\ log[r].client = c

(* The map against the log: a client in the map was last seen with its     *)
(* latest request, one not in it has been silent for more than a minute,   *)
(* and of a client's requests those the counter does not count any more    *)
(* are more than a minute older than the latest.                           *)
MapAgrees ==
  \A c \in Clients, r \in Requests : Sent(r, c) =>
    IF visitors[c].count = 0
    THEN now - log[r].at > Minute
    ELSE /\ log[r].at <= visitors[c].lastSeen
         /\ \/ log[r].number <= visitors[c].count
            \/ visitors[c].lastSeen - log[r].at > Minute

LastSeen == \A c \in Clients : visitors[c].lastSeen <= now

(* Requests of a client at most a minute apart have different numbers.     *)
Numbered ==
  \A c \in Clients : \A r, s \in Requests :
    /\ Sent(r, c) /\ Sent(s, c) /\ r # s
    /\ log[r].at - log[s].at \in -Minute .. Minute
    => log[r].number # log[s].number

ServedNumber ==
  \A r \in Requests : log[r].answer = "served" => log[r].number \in 1 .. Limit

Swept ==
  \A c \in Clients : visitors[c].count > 0 => nextSweep <= visitors[c].lastSeen + 2 * Minute

IInv == TypeOK /\ MapAgrees /\ LastSeen /\ Numbered /\ ServedNumber /\ Swept

LEMMA InitIInv == Init => IInv
BY DEF Init, IInv, TypeOK, MapAgrees, LastSeen, Numbered, ServedNumber, Swept, Sent,
       Visitor, Request, Absent, Unsent

LEMMA TypeStep == TypeOK /\ [Next]_vars => TypeOK'
<1> SUFFICES ASSUME TypeOK, [Next]_vars PROVE TypeOK'
  OBVIOUS
<1> USE DEF TypeOK
<1>1. ASSUME NEW r \in Requests, NEW c \in Clients, RateLimit(r, c) PROVE TypeOK'
  <2>1. Seen(visitors[c]) \in Visitor
    BY DEF Seen, Visitor
  <2>2. [client |-> c, at |-> now, number |-> Seen(visitors[c]).count,
         answer |-> IF Seen(visitors[c]).count > Limit THEN "refused" ELSE "served"] \in Request
    BY <2>1 DEF Visitor, Request
  <2> QED BY <1>1, <2>1, <2>2 DEF RateLimit
<1>2. CASE cleanupVisitors
  <2>1. Absent \in Visitor
    BY DEF Absent, Visitor
  <2> QED BY <1>2, <2>1 DEF cleanupVisitors
<1>3. CASE Tick
  BY <1>3 DEF Tick
<1>4. CASE UNCHANGED vars
  BY <1>4 DEF vars
<1> QED BY <1>1, <1>2, <1>3, <1>4 DEF Next

(* What a request leaves behind.                                           *)
Answered(r, c) ==
  /\ log[r].answer = "none"
  /\ visitors' = [visitors EXCEPT ![c] = Seen(visitors[c])]
  /\ \A s \in Requests \ {r} : log'[s] = log[s]
  /\ log'[r].client = c
  /\ log'[r].at = now
  /\ log'[r].number = Seen(visitors[c]).count
  /\ log'[r].answer = "served" => Seen(visitors[c]).count <= Limit
  /\ UNCHANGED <<now, nextSweep>>

LEMMA RequestStep ==
  ASSUME IInv, NEW r \in Requests, NEW c \in Clients, RateLimit(r, c)
  PROVE  IInv'
<1>0. TypeOK /\ TypeOK'
  BY TypeStep DEF IInv, Next
<1>1. Answered(r, c)
  BY <1>0 DEF RateLimit, Answered, TypeOK, Seen, Request, Visitor
<1>2. Seen(visitors[c]).lastSeen = now /\ Seen(visitors[c]).count \in Nat \ {0}
  BY <1>0 DEF Seen, TypeOK, Visitor
<1>3. visitors'[c] = Seen(visitors[c]) /\ \A d \in Clients \ {c} : visitors'[d] = visitors[d]
  BY <1>0, <1>1 DEF Answered, TypeOK
<1>4. \A s \in Requests : Sent(s, c) =>
        \/ log[s].number < Seen(visitors[c]).count
        \/ now - log[s].at > Minute
  <2> SUFFICES ASSUME NEW s \in Requests, Sent(s, c)
               PROVE  \/ log[s].number < Seen(visitors[c]).count
                      \/ now - log[s].at > Minute
    OBVIOUS
  <2>1. log[s].at \in Nat /\ log[s].number \in Nat /\ visitors[c] \in Visitor /\ now \in Nat
    BY <1>0 DEF TypeOK, Request
  <2>2. visitors[c].lastSeen <= now
    BY DEF IInv, LastSeen
  <2>3. CASE visitors[c].count = 0
    BY <2>3 DEF IInv, MapAgrees
  <2>4. CASE visitors[c].count # 0
    <3>1. /\ log[s].at <= visitors[c].lastSeen
          /\ \/ log[s].number <= visitors[c].count
             \/ visitors[c].lastSeen - log[s].at > Minute
      BY <2>4 DEF IInv, MapAgrees
    <3> QED BY <2>1, <2>2, <2>4, <3>1 DEF Seen, Idle, Visitor
  <2> QED BY <2>3, <2>4
<1>5. LastSeen'
  <2>1. now \in Nat /\ now' = now
    BY <1>0, <1>1 DEF Answered, TypeOK
  <2> QED BY <1>2, <1>3, <2>1 DEF IInv, LastSeen
<1>6. Swept'
  BY <1>0, <1>1, <1>2, <1>3 DEF IInv, Swept, Answered, TypeOK
<1>7. ServedNumber'
  BY <1>0, <1>1, <1>2 DEF IInv, ServedNumber, Answered
<1>8. MapAgrees'
  <2> SUFFICES ASSUME NEW d \in Clients, NEW s \in Requests, Sent(s, d)'
               PROVE  IF visitors'[d].count = 0
                      THEN now' - log'[s].at > Minute
                      ELSE /\ log'[s].at <= visitors'[d].lastSeen
                           /\ \/ log'[s].number <= visitors'[d].count
                              \/ visitors'[d].lastSeen - log'[s].at > Minute
    BY DEF MapAgrees
  <2>0. log[s].at \in Nat /\ log[s].number \in Nat /\ log'[s].number \in Nat
    BY <1>0 DEF TypeOK, Request
  <2>1. CASE s = r
    <3>1. d = c
      BY <1>1, <2>1 DEF Answered, Sent
    <3> QED BY <1>0, <1>1, <1>2, <1>3, <2>0, <2>1, <3>1 DEF Answered, TypeOK
  <2>2. CASE s # r /\ d = c
    <3>1. Sent(s, c) /\ log'[s] = log[s]
      BY <1>1, <2>2 DEF Answered, Sent
    <3>2. log[s].at <= now
      BY <1>0, <3>1, <2>0 DEF IInv, MapAgrees, LastSeen, TypeOK, Visitor
    <3>3. log[s].number < Seen(visitors[c]).count \/ now - log[s].at > Minute
      BY <1>4, <3>1
    <3> QED BY <1>0, <1>1, <1>2, <1>3, <2>0, <2>2, <3>1, <3>2, <3>3 DEF TypeOK, Answered
  <2>3. CASE s # r /\ d # c
    <3>1. Sent(s, d) /\ log'[s] = log[s] /\ visitors'[d] = visitors[d] /\ now' = now
      BY <1>1, <1>3, <2>3 DEF Answered, Sent
    <3> QED BY <3>1 DEF IInv, MapAgrees
  <2> QED BY <2>1, <2>2, <2>3
<1>9. Numbered'
  <2>1. \A s \in Requests \ {r} : Sent(s, c) /\ now - log[s].at \in -Minute .. Minute =>
          log[s].number # Seen(visitors[c]).count
    <3> SUFFICES ASSUME NEW s \in Requests \ {r}, Sent(s, c),
                        now - log[s].at \in -Minute .. Minute
                 PROVE  log[s].number # Seen(visitors[c]).count
      OBVIOUS
    <3>1. log[s].at \in Nat /\ log[s].number \in Nat /\ now \in Nat
      BY <1>0 DEF TypeOK, Request
    <3>2. ~(now - log[s].at > Minute)
      BY <3>1
    <3> QED BY <1>2, <1>4, <3>1, <3>2
  <2> SUFFICES ASSUME NEW d \in Clients, NEW p \in Requests, NEW q \in Requests,
                      Sent(p, d)', Sent(q, d)', p # q,
                      log'[p].at - log'[q].at \in -Minute .. Minute
               PROVE  log'[p].number # log'[q].number
    BY DEF Numbered
  <2>2. CASE p # r /\ q # r
    BY <1>1, <2>2 DEF IInv, Numbered, Answered, Sent
  <2>3. CASE p = r
    <3>1. d = c /\ log'[q] = log[q] /\ Sent(q, c)
      BY <1>1, <2>3 DEF Answered, Sent
    <3> QED BY <1>1, <2>1, <2>3, <3>1 DEF Answered
  <2>4. CASE q = r
    <3>1. d = c /\ log'[p] = log[p] /\ Sent(p, c)
      BY <1>1, <2>4 DEF Answered, Sent
    <3>2. now \in Nat /\ log[p].at \in Nat
      BY <1>0 DEF TypeOK, Request
    <3>3. now - log[p].at \in -Minute .. Minute
      BY <1>1, <2>4, <3>1, <3>2 DEF Answered
    <3> QED BY <1>1, <2>1, <2>4, <3>1, <3>3 DEF Answered
  <2> QED BY <2>2, <2>3, <2>4
<1> QED BY <1>0, <1>5, <1>6, <1>7, <1>8, <1>9 DEF IInv

LEMMA IInvStep == IInv /\ [Next]_vars => IInv'
<1> SUFFICES ASSUME IInv, [Next]_vars PROVE IInv'
  OBVIOUS
<1>0. TypeOK /\ TypeOK'
  BY TypeStep DEF IInv
<1>1. ASSUME NEW r \in Requests, NEW c \in Clients, RateLimit(r, c) PROVE IInv'
  BY <1>1, RequestStep
<1>2. CASE cleanupVisitors
  <2>0. UNCHANGED <<now, log>>
    BY <1>2 DEF cleanupVisitors
  <2>1. Numbered' /\ ServedNumber'
    BY <2>0 DEF IInv, Numbered, ServedNumber, Sent
  <2>2. ASSUME NEW c \in Clients
        PROVE  \/ visitors'[c] = visitors[c] /\ ~Idle(visitors[c])
               \/ visitors'[c] = Absent /\ Idle(visitors[c])
    BY <1>2 DEF cleanupVisitors
  <2>3. LastSeen'
    BY <1>0, <2>0, <2>2 DEF IInv, LastSeen, Absent, TypeOK
  <2>4. Swept'
    <3> SUFFICES ASSUME NEW c \in Clients, visitors'[c].count > 0
                 PROVE  nextSweep' <= visitors'[c].lastSeen + 2 * Minute
      BY DEF Swept
    <3>1. visitors'[c] = visitors[c] /\ ~Idle(visitors[c])
      BY <2>2 DEF Absent
    <3> QED BY <1>0, <1>2, <3>1 DEF cleanupVisitors, Idle, TypeOK, Visitor
  <2>5. MapAgrees'
    <3> SUFFICES ASSUME NEW c \in Clients, NEW r \in Requests, Sent(r, c)
                 PROVE  IF visitors'[c].count = 0
                        THEN now - log[r].at > Minute
                        ELSE /\ log[r].at <= visitors'[c].lastSeen
                             /\ \/ log[r].number <= visitors'[c].count
                                \/ visitors'[c].lastSeen - log[r].at > Minute
      BY <2>0 DEF MapAgrees, Sent
    <3>1. CASE visitors'[c] = visitors[c]
      BY <3>1 DEF IInv, MapAgrees
    <3>2. CASE visitors'[c] = Absent /\ Idle(visitors[c])
      <4>1. log[r].at \in Nat /\ visitors[c] \in Visitor /\ now \in Nat
        BY <1>0 DEF TypeOK, Request
      <4>2. now - log[r].at > Minute
        BY <3>2, <4>1 DEF IInv, MapAgrees, Idle, Visitor
      <4> QED BY <3>2, <4>2 DEF Absent
    <3> QED BY <2>2, <3>1, <3>2
  <2> QED BY <1>0, <2>1, <2>3, <2>4, <2>5 DEF IInv
<1>3. CASE Tick
  <2>0. now' = now + 1 /\ UNCHANGED <<visitors, nextSweep, log>> /\ now \in Nat
    BY <1>0, <1>3 DEF Tick, TypeOK
  <2>1. Numbered' /\ ServedNumber' /\ Swept'
    BY <2>0 DEF IInv, Numbered, ServedNumber, Swept, Sent
  <2>2. LastSeen'
    BY <1>0, <2>0 DEF IInv, LastSeen, TypeOK, Visitor
  <2>3. MapAgrees'
    BY <1>0, <2>0 DEF IInv, MapAgrees, Sent, TypeOK, Request
  <2> QED BY <1>0, <2>1, <2>2, <2>3 DEF IInv
<1>4. CASE UNCHANGED vars
  BY <1>0, <1>4 DEF vars, IInv, Numbered, ServedNumber, Swept, LastSeen, MapAgrees, Sent
<1> QED BY <1>1, <1>2, <1>3, <1>4 DEF Next

(* The served requests of a minute carry different numbers up to Limit.    *)
LEMMA IInvLimit == IInv => LimitHolds
<1> SUFFICES ASSUME IInv, NEW c \in Clients, NEW t \in 0 .. now
             PROVE  Cardinality({r \in LastMinute(c, t) : log[r].answer = "served"}) <= Limit
  BY DEF LimitHolds
<1> DEFINE S == {r \in LastMinute(c, t) : log[r].answer = "served"}
           f == [r \in S |-> log[r].number]
<1>0. now \in Nat /\ t \in Nat /\ \A r \in Requests : log[r].at \in Nat
  BY DEF IInv, TypeOK, Request
<1>1. f \in [S -> 1 .. Limit]
  BY DEF IInv, ServedNumber, LastMinute
<1>2. ASSUME NEW r \in S, NEW s \in S, r # s PROVE f[r] # f[s]
  <2>1. /\ Sent(r, c) /\ Sent(s, c)
        /\ log[r].at \in t - Minute .. t /\ log[s].at \in t - Minute .. t
        /\ r \in Requests /\ s \in Requests
    BY DEF LastMinute, Sent
  <2>2. log[r].at - log[s].at \in -Minute .. Minute
    BY <1>0, <2>1
  <2> QED BY <1>2, <2>1, <2>2 DEF IInv, Numbered
<1>3. f \in Injection(S, 1 .. Limit)
  BY <1>1, <1>2 DEF Injection, IsInjective
<1>4. IsFiniteSet(1 .. Limit) /\ Cardinality(1 .. Limit) = Limit
  BY FS_Interval
<1> HIDE DEF S, f
<1>5. Cardinality(S) <= Limit
  BY <1>3, <1>4, FS_Injection
<1> QED BY <1>5 DEF S

(* Every variable keeps its type and the cleaner is never more than a      *)
(* minute away (ratelimit.go cleanupVisitors).                             *)
THEOREM TypeCorrect == Spec => []TypeOK
<1>1. IInv => TypeOK
  BY DEF IInv
<1> QED BY InitIInv, IInvStep, <1>1, PTL DEF Spec

(* No client is served more than Limit requests in any minute              *)
(* (ratelimit.go RateLimit).                                               *)
THEOREM NeverOverLimit == Spec => []LimitHolds
BY InitIInv, IInvStep, IInvLimit, PTL DEF Spec

(* No client stays in the map for more than two minutes after its last     *)
(* request (ratelimit.go cleanupVisitors).                                 *)
THEOREM MapIsSwept == Spec => []VisitorsForgotten
<1>1. IInv => VisitorsForgotten
  <2> SUFFICES ASSUME IInv, NEW c \in Clients, visitors[c].count > 0
               PROVE  now - visitors[c].lastSeen <= 2 * Minute
    BY DEF VisitorsForgotten
  <2> QED BY DEF IInv, Swept, TypeOK, Visitor
<1> QED BY InitIInv, IInvStep, <1>1, PTL DEF Spec
=============================================================================
