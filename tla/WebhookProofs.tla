---------------------------- MODULE WebhookProofs ----------------------------
(* Theorems about Webhook for any number of events and retries.            *)
EXTENDS Webhook, TLAPS

USE MaxRetriesAssumption

(* What is true of one event: only attempts up to the current one are on   *)
(* their way or have arrived, the current one only once it is posted, and  *)
(* all earlier ones have failed.                                           *)
Orderly(e) ==
  /\ \A i \in wire[e] \cup arrived[e] : i <= attempt[e]
  /\ pc[e] \in {"none", "post", "backoff"} => attempt[e] \notin wire[e] \cup arrived[e]
  /\ 0 .. attempt[e] - 1 \subseteq failed[e]

IInv == TypeOK /\ EndsForAReason /\ \A e \in Events : Orderly(e)

LEMMA InitIInv == Init => IInv
BY DEF Init, IInv, TypeOK, EndsForAReason, Orderly, Attempts, Active

(* A step of one goroutine that leaves the receiver alone.                 *)
LEMMA AttemptFailedStep ==
  ASSUME IInv, NEW e \in Events, AttemptFailed(e), UNCHANGED <<main, wire, receiverVars>>
  PROVE  IInv'
<1>0. /\ attempt[e] \in 0 .. maxRetries /\ pc[e] = "wait" /\ TypeOK
      /\ failed'[e] = failed[e] \cup {attempt[e]}
      /\ failed' \in [Events -> SUBSET Attempts]
      /\ \A f \in Events \ {e} : failed'[f] = failed[f]
  BY DEF IInv, TypeOK, AttemptFailed, Goto, Attempts
<1>1. CASE attempt[e] < maxRetries
  <2>1. /\ pc' = [pc EXCEPT ![e] = "backoff"] /\ attempt' = [attempt EXCEPT ![e] = @ + 1]
    BY <1>1 DEF AttemptFailed, Goto
  <2>2. /\ attempt'[e] = attempt[e] + 1 /\ pc'[e] = "backoff"
        /\ \A f \in Events \ {e} : attempt'[f] = attempt[f] /\ pc'[f] = pc[f]
    BY <1>0, <2>1 DEF TypeOK
  <2>3. TypeOK'
    BY <1>0, <1>1, <2>1, <2>2 DEF TypeOK, Attempts, Active, receiverVars
  <2>4. EndsForAReason'
    BY <1>0, <2>2 DEF IInv, EndsForAReason, receiverVars
  <2>5. ASSUME NEW f \in Events PROVE Orderly(f)'
    <3>1. CASE f = e
      <4>1. 0 .. attempt'[e] - 1 \subseteq failed'[e]
        BY <1>0, <2>2 DEF IInv, Orderly
      <4>2. \A i \in wire[e] \cup arrived[e] : i < attempt'[e]
        BY <1>0, <2>2 DEF IInv, Orderly, TypeOK, Attempts
      <4> QED BY <1>0, <2>2, <3>1, <4>1, <4>2 DEF Orderly, receiverVars, TypeOK, Attempts
    <3>2. CASE f # e
      BY <1>0, <2>2, <3>2 DEF IInv, Orderly, receiverVars
    <3> QED BY <3>1, <3>2
  <2> QED BY <2>3, <2>4, <2>5 DEF IInv
<1>2. CASE ~(attempt[e] < maxRetries)
  <2>1. pc' = [pc EXCEPT ![e] = "over"] /\ UNCHANGED attempt
    BY <1>2 DEF AttemptFailed, Goto
  <2>2. pc'[e] = "over" /\ \A f \in Events \ {e} : pc'[f] = pc[f]
    BY <1>0, <2>1 DEF TypeOK
  <2>3. TypeOK'
    BY <1>0, <2>1 DEF TypeOK, receiverVars
  <2>4. failed'[e] = Attempts
    <3>1. attempt[e] = maxRetries
      BY <1>0, <1>2
    <3>2. Attempts \subseteq failed'[e]
      BY <1>0, <3>1 DEF IInv, Orderly, Attempts
    <3> QED BY <1>0, <3>2 DEF TypeOK
  <2>5. EndsForAReason'
    BY <1>0, <2>1, <2>2, <2>4 DEF IInv, EndsForAReason, receiverVars
  <2>6. ASSUME NEW f \in Events PROVE Orderly(f)'
    BY <1>0, <2>1, <2>2 DEF IInv, Orderly, receiverVars
  <2> QED BY <2>3, <2>5, <2>6 DEF IInv
<1> QED BY <1>1, <1>2

LEMMA IInvStep == IInv /\ [Next]_vars => IInv'
<1> SUFFICES ASSUME IInv, [Next]_vars PROVE IInv'
  OBVIOUS
<1>0. TypeOK
  BY DEF IInv
<1>1. ASSUME NEW e \in Events, NotifyJobComplete(e) PROVE IInv'
  <2>1. TypeOK'
    BY <1>0, <1>1 DEF NotifyJobComplete, Goto, TypeOK, Active, receiverVars
  <2>2. EndsForAReason'
    BY <1>0, <1>1 DEF NotifyJobComplete, Goto, IInv, EndsForAReason, TypeOK, receiverVars
  <2>3. \A f \in Events : Orderly(f)'
    BY <1>0, <1>1 DEF NotifyJobComplete, Goto, IInv, Orderly, TypeOK, receiverVars
  <2> QED BY <2>1, <2>2, <2>3 DEF IInv
<1>2. ASSUME NEW e \in Events, Post(e) PROVE IInv'
  <2>0. /\ pc' = [pc EXCEPT ![e] = "wait"] /\ pc[e] = "post"
        /\ UNCHANGED <<main, attempt, failed, arrived, accepted>>
    BY <1>2 DEF Post, Goto, receiverVars
  <2>1. /\ wire' \in [Events -> SUBSET Attempts]
        /\ wire'[e] \subseteq wire[e] \cup {attempt[e]}
        /\ \A f \in Events \ {e} : wire'[f] = wire[f]
    BY <1>0, <1>2 DEF Post, TypeOK
  <2>2. \A f \in Events : wire'[f] \cap arrived[f] = {}
    BY <1>0, <2>0, <2>1 DEF IInv, Orderly, TypeOK
  <2>3. TypeOK'
    BY <1>0, <2>0, <2>1, <2>2 DEF TypeOK, Active
  <2>4. EndsForAReason'
    BY <1>0, <2>0 DEF IInv, EndsForAReason, TypeOK
  <2>5. \A f \in Events : Orderly(f)'
    BY <1>0, <2>0, <2>1 DEF IInv, Orderly, TypeOK, Attempts
  <2> QED BY <2>3, <2>4, <2>5 DEF IInv
<1>3. ASSUME NEW e \in Events, NEW i \in wire[e], Receive(e, i) PROVE IInv'
  <2>0. UNCHANGED <<main, pc, attempt, failed>> /\ i \in Attempts
    BY <1>0, <1>3 DEF Receive, senderVars, TypeOK
  <2>1. /\ wire' = [wire EXCEPT ![e] = @ \ {i}]
        /\ arrived' = [arrived EXCEPT ![e] = @ \cup {i}]
        /\ accepted' = [accepted EXCEPT ![e] = @ \cup {i}] \/ accepted' = accepted
    BY <1>3 DEF Receive
  <2>2. TypeOK'
    BY <1>0, <2>0, <2>1 DEF TypeOK
  <2>3. \A f \in Events : accepted[f] \subseteq accepted'[f]
    BY <1>0, <2>1 DEF TypeOK
  <2>4. EndsForAReason'
    BY <2>0, <2>3 DEF IInv, EndsForAReason
  <2>5. \A f \in Events : wire'[f] \cup arrived'[f] = wire[f] \cup arrived[f]
    BY <1>0, <1>3, <2>1 DEF TypeOK
  <2>6. \A f \in Events : Orderly(f)'
    BY <2>0, <2>5 DEF IInv, Orderly
  <2> QED BY <2>2, <2>4, <2>6 DEF IInv
<1>4. ASSUME NEW e \in Events, NEW i \in wire[e], Lose(e, i) PROVE IInv'
  <2>0. /\ UNCHANGED <<main, pc, attempt, failed, arrived, accepted>>
        /\ wire' = [wire EXCEPT ![e] = @ \ {i}]
    BY <1>4 DEF Lose, senderVars, receiverVars
  <2>1. TypeOK'
    BY <1>0, <2>0 DEF TypeOK
  <2>2. EndsForAReason' /\ \A f \in Events : Orderly(f)'
    BY <1>0, <2>0 DEF IInv, EndsForAReason, Orderly, TypeOK
  <2> QED BY <2>1, <2>2 DEF IInv
<1>5. ASSUME NEW e \in Events, Delivered(e) PROVE IInv'
  <2>0. /\ pc' = [pc EXCEPT ![e] = "delivered"] /\ attempt[e] \in accepted[e] /\ pc[e] = "wait"
        /\ UNCHANGED <<main, attempt, failed, wire, arrived, accepted>>
    BY <1>5 DEF Delivered, Goto, receiverVars
  <2>1. TypeOK'
    BY <1>0, <2>0 DEF TypeOK
  <2>2. EndsForAReason'
    BY <1>0, <2>0 DEF IInv, EndsForAReason, TypeOK
  <2>3. \A f \in Events : Orderly(f)'
    BY <1>0, <2>0 DEF IInv, Orderly, TypeOK
  <2> QED BY <2>1, <2>2, <2>3 DEF IInv
<1>6. ASSUME NEW e \in Events, Rejected(e) \/ NoAnswer(e) PROVE IInv'
  BY <1>6, AttemptFailedStep DEF Rejected, NoAnswer
<1>7. ASSUME NEW e \in Events, Backoff(e) PROVE IInv'
  <2>0. UNCHANGED <<main, attempt, failed, wire, arrived, accepted>> /\ pc[e] = "backoff"
    BY <1>7 DEF Backoff, Goto, receiverVars
  <2>1. \/ pc' = [pc EXCEPT ![e] = "post"]
        \/ main = "cancelled" /\ pc' = [pc EXCEPT ![e] = "over"]
    BY <1>7 DEF Backoff, Goto
  <2>2. TypeOK'
    BY <1>0, <2>0, <2>1 DEF TypeOK, Active
  <2>3. EndsForAReason'
    BY <1>0, <2>0, <2>1 DEF IInv, EndsForAReason, TypeOK
  <2>4. \A f \in Events : Orderly(f)'
    BY <1>0, <2>0, <2>1 DEF IInv, Orderly, TypeOK
  <2> QED BY <2>2, <2>3, <2>4 DEF IInv
<1>8. CASE Shutdown
  BY <1>0, <1>8 DEF Shutdown, IInv, TypeOK, EndsForAReason, Orderly, senderVars, receiverVars
<1>9. CASE UNCHANGED vars
  BY <1>0, <1>9 DEF vars, IInv, TypeOK, EndsForAReason, Orderly, senderVars, receiverVars
<1> QED BY <1>1, <1>2, <1>3, <1>4, <1>5, <1>6, <1>7, <1>8, <1>9 DEF Next, SendWebhook

(* The loop counter never exceeds maxRetries, and no attempt is on its way *)
(* after it has arrived (SendWebhook).                                     *)
THEOREM TypeCorrect == Spec => []TypeOK
<1>1. IInv => TypeOK
  BY DEF IInv
<1> QED BY InitIInv, IInvStep, <1>1, PTL DEF Spec

(* Whatever is lost, late or refused, the loop makes all of its attempts   *)
(* or is told of a success (SendWebhook).                                  *)
THEOREM AllAttemptsAreMade == Spec => []EndsForAReason
<1>1. IInv => EndsForAReason
  BY DEF IInv
<1> QED BY InitIInv, IInvStep, <1>1, PTL DEF Spec

(* Only attempts that looked like failures make duplicates (SendWebhook).  *)
THEOREM DuplicatesFollowFailures == Spec => []NoNeedlessDuplicate
<1>1. IInv => NoNeedlessDuplicate
  <2> SUFFICES ASSUME IInv, NEW e \in Events, NEW i \in arrived[e], NEW j \in arrived[e], i < j,
                      NEW k \in i .. j - 1
               PROVE  k \in failed[e]
    BY DEF NoNeedlessDuplicate
  <2>1. /\ i \in 0 .. maxRetries /\ j \in 0 .. maxRetries
        /\ attempt[e] \in 0 .. maxRetries /\ j <= attempt[e]
    BY DEF IInv, TypeOK, Orderly, Attempts
  <2>2. k \in 0 .. attempt[e] - 1
    BY <2>1
  <2> QED BY <2>2 DEF IInv, Orderly
<1> QED BY InitIInv, IInvStep, <1>1, PTL DEF Spec
=============================================================================
