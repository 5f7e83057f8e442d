--------------------------- MODULE SettingsProofs ----------------------------
(* Theorems about Settings for any number of requests, keys and values.    *)
EXTENDS Settings, TLAPS

USE KeysAssumption, SavesAssumption, BoundAssumption

(* The last requests are over, so their forms do not change any more.      *)
LastIsSaved ==
  /\ last # NoSave => pc[last] \in {"saved", "failed"}
  /\ lastSecret # NoSave => /\ pc[lastSecret] \in {"saved", "failed"}
                           /\ form[lastSecret][Secret] # Blank

IInv == TypeOK /\ OneForm /\ LastIsSaved

(* What is left of a ladder: the default, or each rung that can be used,   *)
(* with its own audio bitrate or, if it has none, the form's               *)
(* (normalizeLadder).                                                      *)
LEMMA LadderKeepsRungs ==
  ASSUME NEW rungs \in SUBSET Rung, NEW audio \in Text
  PROVE  /\ normalizeLadder(rungs, audio) \subseteq Rung
         /\ normalizeLadder(rungs, audio) # {}
         /\ LET given == {q \in rungs : Usable(q)}
            IN  IF given = {} THEN normalizeLadder(rungs, audio) = DefaultLadder
                ELSE normalizeLadder(rungs, audio) =
                       {[q EXCEPT !.audio = Or(Audio, TrimSpace(@), audio)] : q \in given}
<1> DEFINE given == {q \in rungs : Usable(q)}
           clean == {[q EXCEPT !.audio = Or(Audio, TrimSpace(@), audio)] : q \in given}
<1>1. \A q \in rungs : Or(Audio, TrimSpace(q.audio), audio) \in Text
  BY KeysAssumption DEF Or, TrimSpace, Text, Rung, Nothing
<1>2. clean \in SUBSET Rung
  <2> SUFFICES ASSUME NEW q \in given
               PROVE  [q EXCEPT !.audio = Or(Audio, TrimSpace(@), audio)] \in Rung
    OBVIOUS
  <2>1. q \in Rung /\ Or(Audio, TrimSpace(q.audio), audio) \in Text
    BY <1>1
  <2> QED BY <2>1 DEF Rung
<1>3. clean = {} <=> given = {}
  OBVIOUS
<1>4. normalizeLadder(rungs, audio) = IF clean = {} THEN DefaultLadder ELSE clean
  BY DEF normalizeLadder
<1> HIDE DEF clean
<1>5. normalizeLadder(rungs, audio) \subseteq Rung /\ normalizeLadder(rungs, audio) # {}
  BY <1>2, <1>4, LadderAssumption
<1> QED BY <1>3, <1>4, <1>5 DEF clean

LEMMA StoredType ==
  ASSUME NEW f \in Forms, NEW k \in Keys
  PROVE  Stored(f, k) \in Setting(k)
<1>1. f[Ladder] \in SUBSET Rung /\ f[Audio] \in Text /\ f[Secret] \in Text
  BY FormsAssumption DEF Setting
<1>2. CASE k = Ladder
  BY <1>1, <1>2, LadderKeepsRungs DEF Stored, Setting
<1>3. CASE k # Ladder
  <2>1. f[k] \in Text /\ SaveDefault[k] \in Text
    BY <1>3, FormsAssumption, ConfigAssumption DEF Setting
  <2> QED BY <1>1, <1>3, <2>1 DEF Stored, Setting, Or, TrimSpace, Text, Nothing
<1> QED BY <1>2, <1>3

LEMMA InitIInv == Init => IInv
BY DEF Init, IInv, TypeOK, OneForm, LastIsSaved

(* A step that leaves the table and the forms alone and does not touch a   *)
(* request that is over.                                                   *)
LEMMA QuietStep ==
  ASSUME IInv, TypeOK', UNCHANGED <<table, form, last, lastSecret>>,
         \A s \in Saves : pc[s] \in {"saved", "failed"} => pc'[s] \in {"saved", "failed"}
  PROVE  IInv'
BY DEF IInv, OneForm, LastIsSaved, TypeOK

LEMMA RollbackStep ==
  ASSUME IInv, NEW s \in Saves, Rollback(s), incidents' \in 0 .. MaxIncidents
  PROVE  IInv'
<1>1. TypeOK'
  BY DEF IInv, TypeOK, Rollback
<1> QED BY <1>1, QuietStep DEF Rollback, IInv, TypeOK

LEMMA CommitStep ==
  ASSUME IInv, NEW s \in Saves, Commit(s)
  PROVE  IInv'
<1>0. TypeOK /\ s # NoSave /\ form[s] \in Forms
  BY DEF IInv, TypeOK
<1>1. \A k \in Keys : Stored(form[s], k) \in Setting(k)
  BY <1>0, StoredType
<1>2. /\ DOMAIN table' = DOMAIN table \cup Written(form[s])
      /\ \A k \in DOMAIN table' :
           table'[k] = IF k \in Written(form[s]) THEN Stored(form[s], k) ELSE table[k]
  BY DEF Commit, Updated
<1>3. TypeOK'
  <2>1. DOMAIN table' \subseteq Keys /\ \A k \in DOMAIN table' : table'[k] \in Setting(k)
    BY <1>0, <1>1, <1>2 DEF TypeOK, Written
  <2>2. incidents' \in 0 .. MaxIncidents
    BY <1>0 DEF Commit, Incident, TypeOK
  <2> QED BY <1>0, <2>1, <2>2 DEF Commit, TypeOK
<1>4. \A k \in Keys \ {Secret} : table'[k] = Stored(form[s], k)
  BY <1>2 DEF Written
<1>5. last' = s /\ UNCHANGED form /\ pc'[s] \in {"saved", "failed"}
      /\ \A t \in Saves \ {s} : pc'[t] = pc[t]
  BY <1>0 DEF Commit, TypeOK
<1>6. \A k : Stored(form[s], k)' = Stored(form[s], k)
  BY <1>5 DEF Stored, Or, TrimSpace, normalizeLadder, Usable, Nothing
<1>7. CASE form[s][Secret] = Blank
  <2>1. /\ DOMAIN table' = DOMAIN table \cup (Keys \ {Secret})
        /\ Secret \in DOMAIN table => table'[Secret] = table[Secret]
        /\ lastSecret' = lastSecret
    BY <1>2, <1>7 DEF Commit, Written
  <2>2. OneForm'
    BY <1>0, <1>4, <1>5, <1>6, <2>1, KeysAssumption DEF OneForm, IInv
  <2>3. LastIsSaved'
    BY <1>0, <1>5, <2>1 DEF LastIsSaved, IInv, TypeOK
  <2> QED BY <1>3, <2>2, <2>3 DEF IInv
<1>8. CASE form[s][Secret] # Blank
  <2>1. /\ DOMAIN table' = Keys
        /\ table'[Secret] = form[s][Secret]
        /\ lastSecret' = s
    BY <1>0, <1>2, <1>8, KeysAssumption DEF Commit, Written, Stored, TypeOK
  <2>2. OneForm'
    BY <1>0, <1>4, <1>5, <1>6, <2>1, KeysAssumption DEF OneForm
  <2>3. LastIsSaved'
    BY <1>0, <1>5, <1>8, <2>1 DEF LastIsSaved
  <2> QED BY <1>3, <2>2, <2>3 DEF IInv
<1> QED BY <1>7, <1>8

LEMMA IInvStep == IInv /\ [Next]_vars => IInv'
<1> SUFFICES ASSUME IInv, [Next]_vars PROVE IInv'
  OBVIOUS
<1>0. TypeOK
  BY DEF IInv
<1>1. ASSUME NEW s \in Saves, Save(s) PROVE IInv'
  <2>1. PICK f \in Forms :
          /\ form' = [form EXCEPT ![s] = f]
          /\ left' = [left EXCEPT ![s] = Written(f)]
    BY <1>1 DEF Save
  <2>2. Written(f) \in SUBSET Keys
    BY DEF Written
  <2>3. TypeOK'
    BY <1>0, <1>1, <2>1, <2>2 DEF Save, TypeOK
  <2>4. \A t \in Saves : pc[t] \in {"saved", "failed"} =>
                          t # s /\ form'[t] = form[t] /\ pc'[t] = pc[t]
    BY <1>0, <1>1, <2>1 DEF Save, TypeOK
  <2>5. UNCHANGED <<table, last, lastSecret>>
    BY <1>1 DEF Save
  <2>6. LastIsSaved'
    BY <1>0, <2>4, <2>5 DEF IInv, LastIsSaved, TypeOK
  <2>7. last # NoSave => form'[last] = form[last]
    BY <1>0, <2>4 DEF IInv, LastIsSaved, TypeOK
  <2>8. lastSecret # NoSave => form'[lastSecret] = form[lastSecret]
    BY <1>0, <2>4 DEF IInv, LastIsSaved, TypeOK
  <2>9. OneForm'
    BY <2>5, <2>7, <2>8 DEF IInv, OneForm
  <2> QED BY <2>3, <2>6, <2>9 DEF IInv
<1>2. ASSUME NEW s \in Saves, Execute(s) PROVE IInv'
  <2>1. TypeOK'
    BY <1>0, <1>2 DEF Execute, TypeOK
  <2> QED BY <1>2, <2>1, QuietStep DEF Execute
<1>3. ASSUME NEW s \in Saves, Executed(s) PROVE IInv'
  <2>1. TypeOK'
    BY <1>0, <1>3 DEF Executed, TypeOK
  <2> QED BY <1>3, <2>1, QuietStep DEF Executed
<1>4. ASSUME NEW s \in Saves, Commit(s) PROVE IInv'
  BY <1>4, CommitStep
<1>5. ASSUME NEW s \in Saves, DeadlockVictim(s) \/ CutOff(s) PROVE IInv'
  <2>1. Rollback(s) /\ incidents' \in 0 .. MaxIncidents
    BY <1>0, <1>5 DEF DeadlockVictim, CutOff, Incident, TypeOK
  <2> QED BY <2>1, RollbackStep
<1>6. CASE UNCHANGED vars
  <2>1. TypeOK'
    BY <1>0, <1>6 DEF vars, requestVars, TypeOK
  <2> QED BY <1>6, <2>1, QuietStep DEF vars, requestVars
<1> QED BY <1>1, <1>2, <1>3, <1>4, <1>5, <1>6 DEF Next, UpdateSettingsMap

(* No request commits before it has written every key of its form          *)
(* (UpdateSettingsMap).                                                    *)
THEOREM TypeCorrect == Spec => []TypeOK
<1>1. IInv => TypeOK
  BY DEF IInv
<1> QED BY InitIInv, IInvStep, <1>1, PTL DEF Spec

(* However many requests overlap, and wherever they fail, the table holds  *)
(* one form (Save, UpdateSettingsMap).                                     *)
THEOREM FormsDoNotMix == Spec => []OneForm
<1>1. IInv => OneForm
  BY DEF IInv
<1> QED BY InitIInv, IInvStep, <1>1, PTL DEF Spec

(* What the last form fills in is what is loaded, for every environment,   *)
(* and so is the last secret given; of a ladder, each rung that can be     *)
(* used and no other, or the default (Load, normalizeLadder).              *)
THEOREM FormIsLoaded == Spec => []SavedIsLoaded
<1>1. IInv => SavedIsLoaded
  <2> SUFFICES ASSUME IInv PROVE SavedIsLoaded
    OBVIOUS
  <2>1. ASSUME NEW k \in Keys \ {Secret, Ladder}, last # NoSave, form[last][k] \in Values
        PROVE  Load(k) = form[last][k]
    <3>1. form[last][k] \notin {Blank, Spaces}
      BY <2>1, TextAssumption
    <3>2. k \in DOMAIN table /\ table[k] = form[last][k]
      BY <2>1, <3>1 DEF IInv, OneForm, Stored, Or, TrimSpace, Nothing
    <3> QED BY <2>1, <3>1, <3>2 DEF Load, InTable, Or, Nothing
  <2>2. ASSUME lastSecret # NoSave
        PROVE  Load(Secret) = form[lastSecret][Secret]
    <3>1. /\ Secret \in DOMAIN table
          /\ table[Secret] = form[lastSecret][Secret] /\ form[lastSecret][Secret] # Blank
      BY <2>2 DEF IInv, OneForm, LastIsSaved
    <3> QED BY <3>1, KeysAssumption DEF Load, InTable, Or, Nothing
  <2>3. ASSUME last # NoSave PROVE LoadedLadder(form[last][Ladder])
    <3>1. PICK rungs, audio : rungs = form[last][Ladder] /\ audio = form[last][Audio]
      OBVIOUS
    <3>2. rungs \in SUBSET Rung /\ audio \in Text
      <4>1. form[last] \in Forms
        BY <2>3 DEF IInv, TypeOK
      <4> QED BY <3>1, <4>1, FormsAssumption, KeysAssumption DEF Setting
    <3>3. Load(Ladder) = normalizeLadder(rungs, audio)
      <4>1. Ladder \in DOMAIN table /\ table[Ladder] = normalizeLadder(rungs, audio)
        BY <2>3, <3>1, KeysAssumption DEF IInv, OneForm, Stored
      <4>2. normalizeLadder(rungs, audio) # {}
        BY <3>2, LadderKeepsRungs
      <4> QED BY <4>1, <4>2 DEF Load, InTable, Or, Nothing
    <3> DEFINE given == {q \in rungs : q.sized /\ q.video \notin {Blank, Spaces}}
               filled(q) == [q EXCEPT !.audio = Or(Audio, TrimSpace(@), audio)]
    <3>4. given = {q \in rungs : Usable(q)}
      BY TextAssumption DEF Usable, TrimSpace
    <3>5. \A q \in rungs : Like(filled(q), q)
      <4> SUFFICES ASSUME NEW q \in rungs PROVE Like(filled(q), q)
        OBVIOUS
      <4>1. q \in Rung
        BY <3>2
      <4>2. filled(q).audio = Or(Audio, TrimSpace(q.audio), audio)
        BY <4>1 DEF Rung
      <4>3. filled(q) = [q EXCEPT !.audio = filled(q).audio]
        BY <4>1, <4>2 DEF Rung
      <4>4. TrimSpace(q.audio) \in {Blank, filled(q).audio}
        BY <4>2, KeysAssumption DEF Or, Nothing
      <4> HIDE DEF filled
      <4> QED BY <4>3, <4>4 DEF Like
    <3>6. IF given = {} THEN Load(Ladder) = DefaultLadder
                        ELSE Load(Ladder) = {filled(q) : q \in given}
      BY <3>2, <3>3, <3>4, LadderKeepsRungs
    <3>7. given # {} => /\ \A q \in given : \E x \in Load(Ladder) : Like(x, q)
                       /\ \A x \in Load(Ladder) : \E q \in given : Like(x, q)
      <4> HIDE DEF filled
      <4> QED BY <3>5, <3>6
    <3>8. LoadedLadder(rungs)
      BY <3>6, <3>7 DEF LoadedLadder
    <3> QED BY <3>1, <3>8
  <2> QED BY <2>1, <2>2, <2>3 DEF SavedIsLoaded
<1> QED BY InitIInv, IInvStep, <1>1, PTL DEF Spec

(* No step removes the secret, whatever the form says (Save).              *)
THEOREM SecretStays == Spec => SecretIsKept
<1> DEFINE Keeps == Secret \in DOMAIN table => Secret \in DOMAIN table' /\ table'[Secret] # Blank
<1>1. IInv /\ [Next]_vars => [Keeps]_vars
  <2> SUFFICES ASSUME IInv, [Next]_vars, Secret \in DOMAIN table
               PROVE  Secret \in DOMAIN table' /\ table'[Secret] # Blank
    OBVIOUS
  <2>1. table[Secret] # Blank
    <3>1. lastSecret # NoSave
      BY DEF IInv, OneForm
    <3> QED BY <3>1 DEF IInv, OneForm, LastIsSaved
  <2>2. CASE UNCHANGED table
    BY <2>1, <2>2
  <2>3. CASE ~UNCHANGED table
    <3>1. PICK s \in Saves : Commit(s)
      BY <2>3 DEF Next, UpdateSettingsMap, Save, Execute, Executed, DeadlockVictim, CutOff,
                  Rollback, vars
    <3>2. /\ DOMAIN table' = DOMAIN table \cup Written(form[s])
          /\ table'[Secret] = IF Secret \in Written(form[s]) THEN Stored(form[s], Secret)
                             ELSE table[Secret]
      BY <3>1 DEF Commit, Updated
    <3> QED BY <2>1, <3>2, KeysAssumption DEF Written, Stored
  <2> QED BY <2>2, <2>3
<1> QED BY InitIInv, IInvStep, <1>1, PTL DEF Spec, SecretIsKept
=============================================================================
