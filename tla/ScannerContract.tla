---------------------------- MODULE ScannerContract ----------------------------
(***************************************************************************)
(* What the scanners and uploads of all nodes promise together, without    *)
(* listings, queries and tasks: who may make a job for a video holds at    *)
(* most one claim to it, made once.  Apart from new claims nothing happens *)
(* to the jobs of a video but by an incident, to each incident one job.    *)
(***************************************************************************)
EXTENDS Integers

CONSTANTS
  Jobs,
  MayClaim,      \* pairs of a video and who may make a job for it
  Nobody,        \* no video, no maker
  MaxIncidents

VARIABLES claim, incidents

vars == <<claim, incidents>>

(* first: as its maker has made it.  again: brought back by something else *)
None == [standing |-> "none", video |-> Nobody, by |-> Nobody]
Claims == [standing: {"first", "again"}, video: {c[1] : c \in MayClaim}, by: {c[2] : c \in MayClaim}]

TypeOK ==
  /\ claim \in [Jobs -> Claims \cup {None}]
  /\ incidents \in 0 .. MaxIncidents

Init ==
  /\ claim = [j \in Jobs |-> None]
  /\ incidents = 0

Strike == incidents < MaxIncidents /\ incidents' = incidents + 1

First(c) == [standing |-> "first", video |-> c[1], by |-> c[2]]
Again(c) == [standing |-> "again", video |-> c[1], by |-> c[2]]

Claim(j) ==
  /\ UNCHANGED incidents
  /\ claim[j] = None
  /\ \E c \in MayClaim :
       /\ claim' = [claim EXCEPT ![j] = First(c)]
       /\ \A i \in Jobs : claim[i] # First(c)

(* A job fails or is deleted; the video may be claimed anew.               *)
End(j) ==
  /\ Strike
  /\ claim[j] # None
  /\ claim' = [claim EXCEPT ![j] = None]

(* A job that had failed or was cancelled runs again.                      *)
BringBack(j) ==
  /\ Strike
  /\ \E c \in MayClaim :
       /\ claim[j] \in {None, First(c), Again(c)}
       /\ claim' = [claim EXCEPT ![j] = Again(c)]

Absorb == Strike /\ UNCHANGED claim

Next == Absorb \/ \E j \in Jobs : Claim(j) \/ End(j) \/ BringBack(j)

Spec == Init /\ [][Next]_vars
=============================================================================
