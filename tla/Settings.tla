------------------------------ MODULE Settings -------------------------------
(***************************************************************************)
(* The settings table (internal/appsettings, database.go                   *)
(* UpdateSettingsMap): PUT /settings writes every key of a form in one     *)
(* transaction, in the random order of a Go map, so two requests may wait  *)
(* for each other's rows until PostgreSQL ends one of them.  What the      *)
(* scanner, an upload or GET /settings loads falls back from the table to  *)
(* the environment and from there to a default.                            *)
(*                                                                         *)
(* Blank stands for "" and for a number that is not positive, Spaces for a *)
(* text that trimming makes blank.  A ladder is the set of its rungs, each *)
(* with its place; one that cannot be read has none.                       *)
(***************************************************************************)
EXTENDS Integers

CONSTANTS
  Saves,        \* PUT requests
  NoSave,
  Keys,
  Secret,       \* s3_secret_key, which a form may leave out
  Audio,        \* hls_audio_bitrate
  Ladder,       \* hls_ladder
  NoKey,
  Values,       \* what a text or number may be, apart from
  Blank, Spaces,
  Places,       \* of rungs in a ladder
  DefaultLadder,
  Forms,        \* what the dashboard may send
  Env,          \* the environment (config.go Load)
  SaveDefault,  \* what Save stores for a blank, if not a blank
  LoadDefault,  \* what Load makes of a blank
  MaxIncidents  \* requests that are cut off: a bound

Text == Values \cup {Blank, Spaces}

(* sized: has it a width and a height?                                     *)
Rung == [place: Places, sized: BOOLEAN, video: Text, audio: Text]
Setting(k) == IF k = Ladder THEN SUBSET Rung ELSE Text
Nothing(k) == IF k = Ladder THEN {} ELSE Blank

ASSUME KeysAssumption ==
  /\ {Secret, Audio, Ladder} \subseteq Keys /\ Ladder \notin {Secret, Audio}
  /\ NoKey \notin Keys
ASSUME TextAssumption == Blank # Spaces /\ {Blank, Spaces} \cap Values = {}
ASSUME LadderAssumption == DefaultLadder \subseteq Rung /\ DefaultLadder # {}
ASSUME FormsAssumption == \A f \in Forms : \A k \in Keys : f[k] \in Setting(k)
ASSUME SavesAssumption == NoSave \notin Saves
ASSUME ConfigAssumption ==
  \A k \in Keys : {Env[k], SaveDefault[k], LoadDefault[k]} \subseteq Setting(k)
ASSUME BoundAssumption == MaxIncidents \in Nat

VARIABLES
  table,     \* app_settings, a function on the keys that have a row
  pc,        \* of each request
  form,      \* what it saves
  left,      \* keys it has still to write
  wants,     \* the key its statement is at
  last,      \* history: the last request whose form the table has,
  lastSecret, \* and the last one with a secret
  incidents

requestVars == <<pc, form, left, wants>>
vars == <<table, requestVars, last, lastSecret, incidents>>

TypeOK ==
  /\ DOMAIN table \subseteq Keys /\ \A k \in DOMAIN table : table[k] \in Setting(k)
  /\ pc \in [Saves -> {"idle", "tx", "saved", "failed"}]
  /\ form \in [Saves -> Forms]
  /\ left \in [Saves -> SUBSET Keys]
  /\ wants \in [Saves -> Keys \cup {NoKey}]
  /\ last \in Saves \cup {NoSave}
  /\ lastSecret \in Saves \cup {NoSave}
  /\ incidents \in 0 .. MaxIncidents
  /\ \A s \in Saves :
       /\ wants[s] # NoKey => pc[s] = "tx" /\ wants[s] \in left[s]
       /\ pc[s] = "saved" => left[s] = {}

Init ==
  /\ table = [k \in {} |-> Blank]
  /\ pc = [s \in Saves |-> "idle"]
  /\ form \in [Saves -> Forms]
  /\ left = [s \in Saves |-> {}]
  /\ wants = [s \in Saves |-> NoKey]
  /\ last = NoSave
  /\ lastSecret = NoSave
  /\ incidents = 0

-----------------------------------------------------------------------------
(* Load and Save as functions.                                             *)

Or(k, value, fallback) == IF value = Nothing(k) THEN fallback ELSE value

InTable(k) == IF k \in DOMAIN table THEN table[k] ELSE Nothing(k)

(* StringSetting takes an empty value for a missing one; a stored number   *)
(* is never blank.                                                         *)
Load(k) == Or(k, Or(k, InTable(k), Env[k]), LoadDefault[k])

(* Mutant: a secret that is left blank is stored as well.                  *)
AllKeys(f) == Keys

(* The keys Save puts into its map.                                        *)
Written(f) == IF f[Secret] = Blank THEN Keys \ {Secret} ELSE Keys

TrimSpace(value) == IF value = Spaces THEN Blank ELSE value

(* Mutant: an audio bitrate is needed too.                                 *)
UsableWithAudio(r) == r.sized /\ TrimSpace(r.video) # Blank /\ TrimSpace(r.audio) # Blank

Usable(r) == r.sized /\ TrimSpace(r.video) # Blank

(* Rungs that cannot be used are dropped, the others get an audio bitrate. *)
normalizeLadder(rungs, audio) ==
  LET clean == {[r EXCEPT !.audio = Or(Audio, TrimSpace(@), audio)] :
                  r \in {q \in rungs : Usable(q)}}
  IN  IF clean = {} THEN DefaultLadder ELSE clean

(* Texts are trimmed, but not the secret and not the bitrate for rungs.    *)
Stored(f, k) ==
  IF k = Ladder THEN normalizeLadder(f[Ladder], f[Audio])
  ELSE IF k = Secret THEN f[Secret]
  ELSE Or(k, TrimSpace(f[k]), SaveDefault[k])

(* The table after statements for some keys of a form.                     *)
Updated(f, keys) ==
  [k \in DOMAIN table \cup keys |-> IF k \in keys THEN Stored(f, k) ELSE table[k]]

-----------------------------------------------------------------------------
(* UpdateSettingsMap.                                                      *)

Incident == incidents < MaxIncidents /\ incidents' = incidents + 1

Save(s) ==
  /\ pc[s] = "idle"
  /\ pc' = [pc EXCEPT ![s] = "tx"]
  /\ \E f \in Forms :
       /\ form' = [form EXCEPT ![s] = f]
       /\ left' = [left EXCEPT ![s] = Written(f)]
  /\ UNCHANGED <<table, wants, last, lastSecret, incidents>>

(* Mutant: a failed transaction is not rolled back.                        *)
HeldForever(s) == IF pc[s] \in {"tx", "failed"} THEN Written(form[s]) \ left[s] ELSE {}

(* The rows a transaction has locked.                                      *)
Held(s) == IF pc[s] = "tx" THEN Written(form[s]) \ left[s] ELSE {}

(* The loop goes to a key.                                                 *)
Execute(s) ==
  /\ pc[s] = "tx" /\ wants[s] = NoKey
  /\ \E k \in left[s] : wants' = [wants EXCEPT ![s] = k]
  /\ UNCHANGED <<table, pc, form, left, last, lastSecret, incidents>>

(* Mutant: every statement commits for itself.                             *)
ExecutedAlone(s) ==
  /\ wants[s] # NoKey
  /\ \A t \in Saves \ {s} : wants[s] \notin Held(t)
  /\ table' = Updated(form[s], {wants[s]})
  /\ left' = [left EXCEPT ![s] = @ \ {wants[s]}]
  /\ wants' = [wants EXCEPT ![s] = NoKey]
  /\ UNCHANGED <<pc, form, last, lastSecret, incidents>>

(* Its statement is done once no other transaction holds the row.          *)
Executed(s) ==
  /\ wants[s] # NoKey
  /\ \A t \in Saves \ {s} : wants[s] \notin Held(t)
  /\ left' = [left EXCEPT ![s] = @ \ {wants[s]}]
  /\ wants' = [wants EXCEPT ![s] = NoKey]
  /\ UNCHANGED <<table, pc, form, last, lastSecret, incidents>>

(* Mutant: the first statement is followed by the commit.                  *)
CommitEarly(s) ==
  /\ pc[s] = "tx" /\ wants[s] = NoKey /\ left[s] # Written(form[s])
  /\ pc' = [pc EXCEPT ![s] = "saved"]
  /\ table' = Updated(form[s], Held(s))
  /\ last' = s
  /\ lastSecret' = IF Secret \in Held(s) THEN s ELSE lastSecret
  /\ UNCHANGED <<form, left, wants, incidents>>

(* The answer may be lost, and the request fails with its form saved.      *)
Commit(s) ==
  /\ pc[s] = "tx" /\ left[s] = {}
  /\ \/ pc' = [pc EXCEPT ![s] = "saved"] /\ UNCHANGED incidents
     \/ pc' = [pc EXCEPT ![s] = "failed"] /\ Incident
  /\ table' = Updated(form[s], Written(form[s]))
  /\ last' = s
  /\ lastSecret' = IF Secret \in Written(form[s]) THEN s ELSE lastSecret
  /\ UNCHANGED <<form, left, wants>>

(* An error: the deferred Rollback frees the rows.                         *)
Rollback(s) ==
  /\ pc[s] = "tx"
  /\ pc' = [pc EXCEPT ![s] = "failed"]
  /\ wants' = [wants EXCEPT ![s] = NoKey]
  /\ UNCHANGED <<table, form, left, last, lastSecret>>

WaitsFor(s, t) == wants[s] # NoKey /\ wants[s] \in Held(t)

(* A cycle of requests, each waiting for a row another one holds.          *)
Deadlocked(s) ==
  \E cycle \in SUBSET Saves :
    /\ s \in cycle
    /\ \A t \in cycle :
         /\ \E u \in cycle \ {t} : WaitsFor(t, u)
         /\ \E u \in cycle \ {t} : WaitsFor(u, t)

(* PostgreSQL ends one transaction of a cycle with an error.               *)
DeadlockVictim(s) ==
  /\ Deadlocked(s)
  /\ Rollback(s)
  /\ UNCHANGED incidents

(* The client goes away, a statement fails or the process ends.            *)
CutOff(s) ==
  /\ Incident
  /\ Rollback(s)

UpdateSettingsMap(s) == Execute(s) \/ Executed(s) \/ Commit(s)

Next == \E s \in Saves : Save(s) \/ UpdateSettingsMap(s) \/ DeadlockVictim(s) \/ CutOff(s)

Spec == Init /\ [][Next]_vars

(* A request that has begun runs on, and PostgreSQL finds deadlocks.       *)
Fairness ==
  /\ \A s \in Saves : WF_vars(UpdateSettingsMap(s))
  /\ WF_vars(\E s \in Saves : DeadlockVictim(s))

FairSpec == Spec /\ Fairness

-----------------------------------------------------------------------------
(* Properties.                                                             *)

(* Whatever requests overlap, fail or are ended, the table never mixes two *)
(* forms: it is the last form that was saved, with the last secret that    *)
(* anybody gave (UpdateSettingsMap, Save).                                 *)
OneForm ==
  /\ DOMAIN table = (IF last = NoSave THEN {} ELSE Keys \ {Secret}) \cup
                    (IF lastSecret = NoSave THEN {} ELSE {Secret})
  /\ last # NoSave => \A k \in Keys \ {Secret} : table[k] = Stored(form[last], k)
  /\ lastSecret # NoSave => table[Secret] = form[lastSecret][Secret]

(* A secret, once stored, is only ever replaced by another one: a form     *)
(* that leaves it blank keeps it (Save).                                   *)
SecretIsKept ==
  [][(Secret \in DOMAIN table => Secret \in DOMAIN table' /\ table'[Secret] # Blank)]_vars

(* The random order of the keys blocks nobody for good: every request      *)
(* saves or fails (UpdateSettingsMap).                                     *)
SavesEnd == \A s \in Saves : pc[s] = "tx" ~> pc[s] \in {"saved", "failed"}

(* README.md, Wasabi/S3 HLS Scanner: the values can be changed in the      *)
(* dashboard, and a secret left blank keeps the current one.  Then the     *)
(* scanner, uploads and the dashboard load what the last form filled in    *)
(* and the last secret given, whatever the environment says.  Of a ladder  *)
(* they load every rung that has a size and a video bitrate, as it was     *)
(* given or with an audio bitrate where that was blank, no other rung, and *)
(* the default if there is none (Load, Save, normalizeLadder).             *)
Like(r, q) == r = [q EXCEPT !.audio = r.audio] /\ TrimSpace(q.audio) \in {Blank, r.audio}

LoadedLadder(rungs) ==
  LET given == {q \in rungs : q.sized /\ q.video \notin {Blank, Spaces}}
  IN  IF given = {} THEN Load(Ladder) = DefaultLadder
      ELSE /\ \A q \in given : \E r \in Load(Ladder) : Like(r, q)
           /\ \A r \in Load(Ladder) : \E q \in given : Like(r, q)

SavedIsLoaded ==
  /\ last # NoSave =>
       /\ \A k \in Keys \ {Secret, Ladder} :
            form[last][k] \in Values => Load(k) = form[last][k]
       /\ LoadedLadder(form[last][Ladder])
  /\ lastSecret # NoSave => Load(Secret) = form[lastSecret][Secret]
=============================================================================
