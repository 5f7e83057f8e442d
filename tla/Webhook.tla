------------------------------- MODULE Webhook -------------------------------
(***************************************************************************)
(* Delivery of webhooks (internal/notify/webhook.go): every notification   *)
(* is a goroutine that posts, waits 1, 2, 4... seconds after an attempt    *)
(* that failed and posts again.  Nobody waits for the goroutines: when     *)
(* main returns they are gone.  Requests may get lost or be late, and so   *)
(* may the answers.                                                        *)
(***************************************************************************)
EXTENDS Integers

CONSTANTS
  Events,      \* calls of NotifyJobComplete with a URL
  maxRetries   \* WEBHOOK_RETRY

ASSUME MaxRetriesAssumption == maxRetries \in Nat

Attempts == 0 .. maxRetries

VARIABLES
  main,      \* "running", "cancelled" once main has called cancel, "exited"
  pc,        \* of the goroutine of each event
  attempt,   \* its loop counter
  wire,      \* attempts on their way to the receiver
  arrived,   \* attempts the receiver has got,
  accepted,  \* and those it has answered with 2xx
  failed     \* history: attempts that ended with an error for the sender

senderVars == <<pc, attempt, failed>>
receiverVars == <<arrived, accepted>>
vars == <<main, senderVars, wire, receiverVars>>

Active == {"post", "wait", "backoff"}

TypeOK ==
  /\ main \in {"running", "cancelled", "exited"}
  /\ pc \in [Events -> {"none", "delivered", "over"} \cup Active]
  /\ attempt \in [Events -> Attempts]
  /\ wire \in [Events -> SUBSET Attempts]
  /\ arrived \in [Events -> SUBSET Attempts]
  /\ accepted \in [Events -> SUBSET Attempts]
  /\ failed \in [Events -> SUBSET Attempts]
  /\ \A e \in Events :
       accepted[e] \subseteq arrived[e] /\ wire[e] \cap arrived[e] = {}

Init ==
  /\ main = "running"
  /\ pc = [e \in Events |-> "none"]
  /\ attempt = [e \in Events |-> 0]
  /\ wire = [e \in Events |-> {}]
  /\ arrived = [e \in Events |-> {}]
  /\ accepted = [e \in Events |-> {}]
  /\ failed = [e \in Events |-> {}]

Goto(e, from, to) ==
  /\ main # "exited"
  /\ pc[e] = from
  /\ pc' = [pc EXCEPT ![e] = to]

(* A handler starts the goroutine and returns.                             *)
NotifyJobComplete(e) ==
  /\ Goto(e, "none", "post")
  /\ UNCHANGED <<main, attempt, failed, wire, receiverVars>>

(* client.Do; with a cancelled context it fails at once.                   *)
Post(e) ==
  /\ Goto(e, "post", "wait")
  /\ wire' = IF main = "running" THEN [wire EXCEPT ![e] = @ \cup {attempt[e]}] ELSE wire
  /\ UNCHANGED <<main, attempt, failed, receiverVars>>

(* The receiver gets a request and answers it, well or badly.              *)
Receive(e, i) ==
  /\ i \in wire[e]
  /\ wire' = [wire EXCEPT ![e] = @ \ {i}]
  /\ arrived' = [arrived EXCEPT ![e] = @ \cup {i}]
  /\ accepted' = [accepted EXCEPT ![e] = @ \cup {i}] \/ UNCHANGED accepted
  /\ UNCHANGED <<main, senderVars>>

Lose(e, i) ==
  /\ i \in wire[e]
  /\ wire' = [wire EXCEPT ![e] = @ \ {i}]
  /\ UNCHANGED <<main, senderVars, receiverVars>>

(* Mutant: the loop goes on after a success.                               *)
DeliveredGoesOn(e) ==
  /\ pc[e] = "wait" /\ attempt[e] \in accepted[e]
  /\ IF attempt[e] < maxRetries
     THEN /\ Goto(e, "wait", "backoff")
          /\ attempt' = [attempt EXCEPT ![e] = @ + 1]
     ELSE /\ Goto(e, "wait", "delivered")
          /\ UNCHANGED attempt
  /\ UNCHANGED <<main, failed, wire, receiverVars>>

(* A 2xx answer.                                                           *)
Delivered(e) ==
  /\ attempt[e] \in accepted[e]
  /\ Goto(e, "wait", "delivered")
  /\ UNCHANGED <<main, attempt, failed, wire, receiverVars>>

(* Mutant: one retry too few.                                              *)
AttemptFailedEarly(e) ==
  /\ failed' = [failed EXCEPT ![e] = @ \cup {attempt[e]}]
  /\ IF attempt[e] + 1 < maxRetries
     THEN /\ Goto(e, "wait", "backoff")
          /\ attempt' = [attempt EXCEPT ![e] = @ + 1]
     ELSE /\ Goto(e, "wait", "over")
          /\ UNCHANGED attempt

(* Mutant: one retry too many.                                             *)
AttemptFailedLate(e) ==
  /\ failed' = [failed EXCEPT ![e] = @ \cup {attempt[e]}]
  /\ IF attempt[e] <= maxRetries
     THEN /\ Goto(e, "wait", "backoff")
          /\ attempt' = [attempt EXCEPT ![e] = @ + 1]
     ELSE /\ Goto(e, "wait", "over")
          /\ UNCHANGED attempt

(* The loop goes on with the next attempt, if there is one.                *)
AttemptFailed(e) ==
  /\ failed' = [failed EXCEPT ![e] = @ \cup {attempt[e]}]
  /\ IF attempt[e] < maxRetries
     THEN /\ Goto(e, "wait", "backoff")
          /\ attempt' = [attempt EXCEPT ![e] = @ + 1]
     ELSE /\ Goto(e, "wait", "over")
          /\ UNCHANGED attempt

(* Another status.                                                         *)
Rejected(e) ==
  /\ attempt[e] \in arrived[e] \ accepted[e]
  /\ AttemptFailed(e)
  /\ UNCHANGED <<main, wire, receiverVars>>

(* Mutant: the client has no timeout and only sees a broken connection.    *)
NoAnswerBrokenOnly(e) ==
  /\ attempt[e] \notin wire[e] \cup arrived[e]
  /\ AttemptFailed(e)
  /\ UNCHANGED <<main, wire, receiverVars>>

(* No answer: the request or the answer is lost or takes more than the     *)
(* client's 30 seconds, or the context is cancelled.                       *)
NoAnswer(e) ==
  /\ AttemptFailed(e)
  /\ UNCHANGED <<main, wire, receiverVars>>

(* The timer fires.  With a cancelled context the goroutine returns, or    *)
(* goes on if select finds both cases ready.                               *)
Backoff(e) ==
  /\ Goto(e, "backoff", "post") \/ (main = "cancelled" /\ Goto(e, "backoff", "over"))
  /\ UNCHANGED <<main, attempt, failed, wire, receiverVars>>

(* main: cancel, and the process ends with all goroutines.                 *)
Shutdown ==
  /\ \/ main = "running" /\ main' = "cancelled"
     \/ main = "cancelled" /\ main' = "exited"
  /\ UNCHANGED <<senderVars, wire, receiverVars>>

SendWebhook(e) == Post(e) \/ Delivered(e) \/ Rejected(e) \/ NoAnswer(e) \/ Backoff(e)

Next ==
  \/ \E e \in Events : NotifyJobComplete(e) \/ SendWebhook(e)
  \/ \E e \in Events : \E i \in wire[e] : Receive(e, i) \/ Lose(e, i)
  \/ Shutdown

Spec == Init /\ [][Next]_vars

(* Goroutines run, and a client does not wait for longer than its timeout; *)
(* a receiver may take any time.                                           *)
Fairness == \A e \in Events : WF_vars(SendWebhook(e))

FairSpec == Spec /\ Fairness

-----------------------------------------------------------------------------
(* Properties.                                                             *)

(* While the process is not shut down, a goroutine ends only after a 2xx   *)
(* answer to its last attempt, or after all of its attempts have failed    *)
(* (SendWebhook).                                                          *)
EndsForAReason ==
  main = "running" =>
    \A e \in Events :
      /\ pc[e] = "delivered" => attempt[e] \in accepted[e]
      /\ pc[e] = "over" => failed[e] = Attempts

(* The receiver gets an event again only because the attempt before looked *)
(* like a failure to the sender: late and lost answers make duplicates,    *)
(* successes never do (SendWebhook).                                       *)
NoNeedlessDuplicate ==
  \A e \in Events : \A i, j \in arrived[e] : i < j => i .. j - 1 \subseteq failed[e]

(* A goroutine does not outlive a receiver that never answers              *)
(* (SendWebhook).                                                          *)
SendEnds ==
  \A e \in Events : pc[e] \in Active ~> pc[e] \notin Active \/ main = "exited"
=============================================================================
