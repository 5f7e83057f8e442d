---------------------------- MODULE HlsOutputProofs ----------------------------
(***************************************************************************)
(* Proofs about HlsOutput, for any ladders, requests, presets and any      *)
(* number of runs.  IInv, below, is the inductive invariant.               *)
(***************************************************************************)
EXTENDS HlsOutput, FiniteSetTheorems, SequenceTheorems, WellFoundedInduction, TLAPS

-----------------------------------------------------------------------------
(* Files.                                                                  *)

LEMMA OverOfRuns ==
  ASSUME NEW n, NEW new, NEW old,
         \A f \in DOMAIN new : new[f].run \in 1 .. n,
         \A f \in DOMAIN old : old[f].run \in 1 .. n
  PROVE  \A f \in DOMAIN Over(new, old) : Over(new, old)[f].run \in 1 .. n
BY DEF Over

LEMMA SingleFile ==
  ASSUME NEW f, NEW content
  PROVE  DOMAIN Single(f, content) = {f} /\ Single(f, content)[f] = content
BY DEF Single

LEMMA NoFile == DOMAIN NoFiles = {}
BY DEF NoFiles

(* ffmpeg writes no file for another run than the present one.             *)
LEMMA SinglePlaylistFiles ==
  ASSUME NEW name, name # "segment"
  PROVE  /\ DOMAIN SinglePlaylist(name) = {<<Top, name>>, <<Top, "segment">>}
         /\ SinglePlaylist(name)[<<Top, name>>] = Playlist({Here("segment")})
         /\ SinglePlaylist(name)[<<Top, "segment">>] = Segment(audio > 0)
<1>1. PICK list : /\ list = Single(<<Top, name>>, Playlist({Here("segment")}))
                  /\ DOMAIN list = {<<Top, name>>}
                  /\ list[<<Top, name>>] = Playlist({Here("segment")})
  BY SingleFile
<1>2. PICK segment : /\ segment = Single(<<Top, "segment">>, Segment(audio > 0))
                     /\ DOMAIN segment = {<<Top, "segment">>}
                     /\ segment[<<Top, "segment">>] = Segment(audio > 0)
  BY SingleFile
<1>3. SinglePlaylist(name) = Over(list, segment)
  BY <1>1, <1>2 DEF SinglePlaylist
<1>4. <<Top, name>> # <<Top, "segment">>
  OBVIOUS
<1> QED BY <1>1, <1>2, <1>3, <1>4 DEF Over

LEMMA FilesAreOfTheRun ==
  ASSUME NEW s, NEW f \in DOMAIN BuildArgs(s)
  PROVE  BuildArgs(s)[f].run = run
<1>1. /\ \A refs : Playlist(refs).run = run
      /\ \A sound : Segment(sound).run = run
  BY DEF Playlist, Segment
<1>2. CASE IsLadder(s) /\ Variants(s) # {}
  <2>1. BuildArgs(s) = BuildHLSLadderArgs(s)
    BY <1>2 DEF BuildArgs, IsLadder
  <2>2. PICK b : b = BuildHLSLadderArgs(s)
    OBVIOUS
  <2>3. \A d, file : Within(s, d, file).run = file.run
    BY DEF Within
  <2>4. \A g \in DOMAIN b : b[g].run = run
    BY <1>1, <2>2, <2>3 DEF BuildHLSLadderArgs
  <2> QED BY <2>1, <2>2, <2>4
<1>3. ASSUME NEW name, name \in {"master", "index"}, BuildArgs(s) = SinglePlaylist(name)
      PROVE  BuildArgs(s)[f].run = run
  <2>1. name # "segment"
    BY <1>3
  <2> QED BY <1>1, <1>3, <2>1, SinglePlaylistFiles
<1>4. CASE IsLadder(s) /\ Variants(s) = {}
  BY <1>3, <1>4 DEF BuildArgs
<1>5. CASE ~IsLadder(s) /\ s.format = "hls" /\ s.renditions = <<>>
  <2>1. BuildArgs(s) = SinglePlaylist("index")
    BY <1>5 DEF BuildArgs
  <2> QED BY <1>3, <2>1
<1>6. CASE ~IsLadder(s) /\ ~(s.format = "hls" /\ s.renditions = <<>>)
  <2>1. BuildArgs(s) = Single(File, Segment(audio > 0))
    BY <1>6 DEF BuildArgs
  <2>2. PICK b : b = Single(File, Segment(audio > 0))
    OBVIOUS
  <2>3. \A g \in DOMAIN b : b[g].run = run
    BY <1>1, <2>2 DEF Single
  <2> QED BY <2>1, <2>2, <2>3
<1> QED BY <1>2, <1>4, <1>5, <1>6

LEMMA EncodedRuns ==
  ASSUME run \in Nat \ {0}, \A f \in DOMAIN local : local[f].run \in 1 .. run
  PROVE  \A f \in DOMAIN Over(BuildArgs(settings), local) :
           Over(BuildArgs(settings), local)[f].run \in 1 .. run
<1>1. PICK n, new, old :
        n = run /\ n \in Nat \ {0} /\ new = BuildArgs(settings) /\ old = local
  OBVIOUS
<1>2. \A f \in DOMAIN new : new[f].run \in 1 .. n
  BY <1>1, FilesAreOfTheRun
<1>3. \A f \in DOMAIN old : old[f].run \in 1 .. n
  BY <1>1
<1> QED BY <1>1, <1>2, <1>3, OverOfRuns

-----------------------------------------------------------------------------
(* Renditions.                                                             *)

(* Induction over the natural numbers with a set for the predicate.        *)
LEMMA SetInduction ==
  ASSUME NEW S, S \subseteq Nat, 0 \in S, \A n \in S : n + 1 \in S
  PROVE  S = Nat
<1> DEFINE R == OpToRel(<, Nat)
           T == Nat \ S
<1>1. IsWellFoundedOn(R, Nat)
  BY NatLessThanWellFounded
<1>2. \A x, y \in Nat : <<y, x>> \in R <=> y < x
  BY DEF OpToRel
<1> SUFFICES ASSUME T # {} PROVE FALSE
  OBVIOUS
<1>3. PICK x \in T : \A y \in T : ~(<<y, x>> \in R)
  <2> HIDE DEF R, T
  <2>1. T \subseteq Nat
    BY DEF T
  <2> QED BY <1>1, <2>1, WFMin
<1>4. x \in Nat /\ x # 0 /\ x - 1 \in Nat /\ x - 1 \in T
  OBVIOUS
<1>5. <<x - 1, x>> \in R
  <2> HIDE DEF R
  <2> QED BY <1>2, <1>4
<1> QED BY <1>3, <1>4, <1>5

(* One turn of the loop of validRenditions.                                *)
ValidStep(f, rs, i) ==
  IF i = 0 THEN <<>>
  ELSE IF Sized(rs[i]) THEN Append(f[i - 1], rs[i]) ELSE f[i - 1]

(* The function validRenditions chooses exists.                            *)
LEMMA ValidExists ==
  ASSUME NEW rs, NEW n \in Nat
  PROVE  \E f : f = [i \in 0 .. n |-> ValidStep(f, rs, i)]
<1> DEFINE S == {m \in Nat : \E f : f = [i \in 0 .. m |-> ValidStep(f, rs, i)]}
<1>1. 0 \in S
  <2> DEFINE f == [i \in 0 .. 0 |-> <<>>]
  <2>1. f = [i \in 0 .. 0 |-> ValidStep(f, rs, i)]
    BY DEF ValidStep
  <2> QED BY <2>1
<1>2. ASSUME NEW m \in S PROVE m + 1 \in S
  <2>1. PICK f : f = [i \in 0 .. m |-> ValidStep(f, rs, i)]
    OBVIOUS
  <2> DEFINE g == [i \in 0 .. m + 1 |-> IF i = m + 1 THEN ValidStep(f, rs, m + 1) ELSE f[i]]
  <2>2. ASSUME NEW i \in 0 .. m + 1 PROVE g[i] = ValidStep(g, rs, i)
    <3>1. CASE i = 0
      BY <2>1, <3>1 DEF ValidStep
    <3>2. CASE i # 0
      <4>1. i - 1 \in 0 .. m /\ g[i - 1] = f[i - 1]
        BY <3>2
      <4>2. ValidStep(g, rs, i) = ValidStep(f, rs, i)
        BY <3>2, <4>1 DEF ValidStep
      <4>3. g[i] = ValidStep(f, rs, i)
        <5>1. CASE i = m + 1
          BY <5>1
        <5>2. CASE i # m + 1
          <6>1. i \in 0 .. m
            BY <5>2
          <6> QED BY <2>1, <5>2, <6>1
        <5> QED BY <5>1, <5>2
      <4> QED BY <4>2, <4>3
    <3> QED BY <3>1, <3>2
  <2>3. g = [i \in 0 .. m + 1 |-> ValidStep(g, rs, i)]
    BY <2>2
  <2> HIDE DEF g
  <2>4. \E h : h = [i \in 0 .. m + 1 |-> ValidStep(h, rs, i)]
    BY <2>3
  <2> QED BY <2>4
<1>3. S = Nat
  <2> HIDE DEF S
  <2>1. S \subseteq Nat
    BY DEF S
  <2> QED BY <1>1, <1>2, <2>1, SetInduction
<1> QED BY <1>3

(* What the loop over the renditions keeps: those that have a size, all of *)
(* them, each once and in their order.                                     *)
IsSelection(v, n, rs, m) ==
  \E at \in [1 .. n -> 1 .. m] :
    /\ \A i, j \in 1 .. n : i < j => at[i] < at[j]
    /\ \A i \in 1 .. n : v[i] = rs[at[i]] /\ Sized(rs[at[i]])
    /\ \A k \in 1 .. m : Sized(rs[k]) => \E i \in 1 .. n : at[i] = k

LEMMA SelectionGrows ==
  ASSUME NEW R, NEW rs \in Seq(R), NEW m \in Nat, m + 1 \in 1 .. Len(rs),
         NEW v \in Seq(R), IsSelection(v, Len(v), rs, m)
  PROVE  LET w == IF Sized(rs[m + 1]) THEN Append(v, rs[m + 1]) ELSE v
         IN w \in Seq(R) /\ IsSelection(w, Len(w), rs, m + 1)
<1>1. PICK at \in [1 .. Len(v) -> 1 .. m] :
         /\ \A i, j \in 1 .. Len(v) : i < j => at[i] < at[j]
         /\ \A i \in 1 .. Len(v) : v[i] = rs[at[i]] /\ Sized(rs[at[i]])
         /\ \A k \in 1 .. m : Sized(rs[k]) => \E i \in 1 .. Len(v) : at[i] = k
  BY DEF IsSelection
<1>2. CASE ~Sized(rs[m + 1])
  <2>1. at \in [1 .. Len(v) -> 1 .. m + 1]
    OBVIOUS
  <2>2. \A k \in 1 .. m + 1 : Sized(rs[k]) => \E i \in 1 .. Len(v) : at[i] = k
    <3> SUFFICES ASSUME NEW k \in 1 .. m + 1, Sized(rs[k])
                 PROVE  \E i \in 1 .. Len(v) : at[i] = k
      OBVIOUS
    <3>1. k # m + 1
      BY <1>2
    <3>2. k \in 1 .. m
      BY <3>1
    <3> QED BY <1>1, <3>2
  <2>3. IsSelection(v, Len(v), rs, m + 1)
    BY <1>1, <2>1, <2>2 DEF IsSelection
  <2> QED BY <1>2, <2>3
<1>3. CASE Sized(rs[m + 1])
  <2>1. PICK r \in R : r = rs[m + 1]
    OBVIOUS
  <2>2. PICK w \in Seq(R) : /\ w = Append(v, r) /\ Len(w) = Len(v) + 1
                            /\ w[Len(v) + 1] = r /\ \A i \in 1 .. Len(v) : w[i] = v[i]
    <3>1. Append(v, r) \in Seq(R)
      OBVIOUS
    <3>2. /\ Len(Append(v, r)) = Len(v) + 1 /\ Append(v, r)[Len(v) + 1] = r
          /\ \A i \in 1 .. Len(v) : Append(v, r)[i] = v[i]
      BY AppendProperties
    <3> QED BY <3>1, <3>2
  <2>3. PICK n \in Nat : n = Len(v)
    OBVIOUS
  <2> DEFINE to == [i \in 1 .. n + 1 |-> IF i = n + 1 THEN m + 1 ELSE at[i]]
  <2>4. /\ to \in [1 .. n + 1 -> 1 .. m + 1] /\ to[n + 1] = m + 1
        /\ \A i \in 1 .. n : to[i] = at[i] /\ at[i] \in 1 .. m
    <3>1. \A i \in 1 .. n : at[i] \in 1 .. m /\ i # n + 1 /\ i \in 1 .. n + 1
      BY <2>3
    <3>2. /\ \A i \in 1 .. n : to[i] = at[i]
          /\ to[n + 1] = m + 1 /\ DOMAIN to = 1 .. n + 1
      BY <3>1
    <3>3. \A i \in 1 .. n + 1 : to[i] \in 1 .. m + 1
      BY <3>1
    <3> QED BY <3>1, <3>2, <3>3
  <2> HIDE DEF to
  <2>5. ASSUME NEW i \in 1 .. n + 1, NEW j \in 1 .. n + 1, i < j PROVE to[i] < to[j]
    <3>1. i \in 1 .. n /\ to[i] = at[i] /\ at[i] \in 1 .. m
      BY <2>4, <2>5
    <3>2. CASE j = n + 1
      BY <2>4, <3>1, <3>2
    <3>3. CASE j # n + 1
      <4>1. j \in 1 .. n
        BY <3>3
      <4> QED BY <1>1, <2>3, <2>4, <2>5, <3>1, <4>1
    <3> QED BY <3>2, <3>3
  <2>6. ASSUME NEW i \in 1 .. n + 1 PROVE w[i] = rs[to[i]] /\ Sized(rs[to[i]])
    <3>1. CASE i = n + 1
      BY <1>3, <2>1, <2>2, <2>3, <2>4, <3>1
    <3>2. CASE i # n + 1
      <4>1. i \in 1 .. n
        BY <3>2
      <4> QED BY <1>1, <2>2, <2>3, <2>4, <4>1
    <3> QED BY <3>1, <3>2
  <2>7. ASSUME NEW k \in 1 .. m + 1, Sized(rs[k]) PROVE \E i \in 1 .. n + 1 : to[i] = k
    <3>1. CASE k = m + 1
      BY <2>4, <3>1
    <3>2. CASE k # m + 1
      <4>1. k \in 1 .. m
        BY <3>2
      <4>2. PICK i \in 1 .. n : at[i] = k
        BY <1>1, <2>3, <2>7, <4>1
      <4> QED BY <2>4, <4>2
    <3> QED BY <3>1, <3>2
  <2>8. Len(w) = n + 1
    BY <2>2, <2>3
  <2>9. IsSelection(w, n + 1, rs, m + 1)
    <3> SUFFICES /\ to \in [1 .. n + 1 -> 1 .. m + 1]
                 /\ \A i, j \in 1 .. n + 1 : i < j => to[i] < to[j]
                 /\ \A i \in 1 .. n + 1 : w[i] = rs[to[i]] /\ Sized(rs[to[i]])
                 /\ \A k \in 1 .. m + 1 : Sized(rs[k]) => \E i \in 1 .. n + 1 : to[i] = k
      BY Zenon DEF IsSelection
    <3> QED BY <2>4, <2>5, <2>6, <2>7
  <2> QED BY <1>3, <2>1, <2>2, <2>8, <2>9
<1> QED BY <1>2, <1>3

(* The ladder of a job keeps the renditions that have a size, all of them, *)
(* each once and in their order, however many there are (ffmpeg.go         *)
(* BuildHLSLadderArgs).                                                    *)
THEOREM SizedRenditionsAreKept ==
  ASSUME NEW s, NEW R, s.renditions \in Seq(R)
  PROVE  /\ validRenditions(s) \in Seq(R)
         /\ IsSelection(validRenditions(s), Len(validRenditions(s)), s.renditions, Len(s.renditions))
<1>1. PICK rs \in Seq(R) : rs = s.renditions
  OBVIOUS
<1>2. PICK last \in Nat : last = Len(rs)
  OBVIOUS
<1> DEFINE valid[n \in 0 .. last] ==
             IF n = 0 THEN <<>>
             ELSE IF Sized(rs[n]) THEN Append(valid[n - 1], rs[n])
             ELSE valid[n - 1]
<1>3. validRenditions(s) = valid[last]
  BY <1>1, <1>2 DEF validRenditions
<1>4. valid = [n \in 0 .. last |-> ValidStep(valid, rs, n)]
  <2>1. \E f : f = [n \in 0 .. last |-> ValidStep(f, rs, n)]
    BY <1>2, ValidExists
  <2> QED BY <2>1 DEF ValidStep
<1> HIDE DEF valid
<1> DEFINE Done(m) == valid[m] \in Seq(R) /\ IsSelection(valid[m], Len(valid[m]), rs, m)
           S == {m \in Nat : m <= last => Done(m)}
<1>5. 0 \in S
  <2>1. valid[0] = <<>>
    BY <1>4 DEF ValidStep
  <2>2. <<>> \in Seq(R) /\ Len(<<>>) = 0
    OBVIOUS
  <2>3. IsSelection(<<>>, 0, rs, 0)
    <3>1. PICK f : f = [i \in 1 .. 0 |-> i]
      OBVIOUS
    <3>2. f \in [1 .. 0 -> 1 .. 0] /\ 1 .. 0 = {}
      BY <3>1
    <3> QED BY <3>2 DEF IsSelection
  <2> QED BY <2>1, <2>2, <2>3
<1>6. ASSUME NEW m \in S PROVE m + 1 \in S
  <2> SUFFICES ASSUME m + 1 <= last PROVE Done(m + 1)
    OBVIOUS
  <2>1. m \in Nat /\ m \in 0 .. last /\ m + 1 \in 1 .. Len(rs) /\ m + 1 \in 0 .. last
    BY <1>2
  <2>2. Done(m)
    BY <2>1
  <2>3. PICK v \in Seq(R) : v = valid[m] /\ IsSelection(v, Len(v), rs, m)
    BY <2>2
  <2>4. valid[m + 1] = IF Sized(rs[m + 1]) THEN Append(v, rs[m + 1]) ELSE v
    <3>1. valid[m + 1] = ValidStep(valid, rs, m + 1)
      BY <1>4, <2>1
    <3>2. m + 1 # 0 /\ (m + 1) - 1 = m
      BY <2>1
    <3> QED BY <2>3, <3>1, <3>2 DEF ValidStep
  <2> QED BY <2>1, <2>3, <2>4, SelectionGrows
<1>7. S = Nat
  <2> HIDE DEF S
  <2>1. S \subseteq Nat
    BY DEF S
  <2> QED BY <1>5, <1>6, <2>1, SetInduction
<1>8. Done(last)
  BY <1>2, <1>7
<1> QED BY <1>1, <1>2, <1>3, <1>8

-----------------------------------------------------------------------------
(* Types.  Between runs files of earlier ones may lie in the directory.    *)

AtWork == {"probe", "picture", "encode", "upload"}

RunsFit ==
  /\ stage \in AtWork => run > 0
  /\ \A f \in DOMAIN local : local[f].run \in 1 .. run

LEMMA InitTyped == Init => TypeOK /\ RunsFit
<1> SUFFICES ASSUME Init PROVE TypeOK /\ RunsFit
  OBVIOUS
<1>1. DOMAIN local = {} /\ DOMAIN stored = {} /\ run \in 0 .. MaxRuns
  BY NoFile, MaxRunsAssumption DEF Init
<1> QED BY <1>1 DEF Init, TypeOK, RunsFit, Stages, AtWork

LEMMA TypeStep ==
  ASSUME TypeOK, RunsFit, [Next]_vars
  PROVE  TypeOK' /\ RunsFit'
<1> USE DEF AtWork
<1>0. run \in Nat /\ MaxRuns \in Nat /\ \A n \in Nat : n \in 1 .. n <=> n > 0
  BY MaxRunsAssumption DEF TypeOK
<1>1. CASE Submit
  BY <1>1 DEF Submit, TypeOK, RunsFit, Stages, infoVars, fileVars
<1>2. CASE UpdatePreset
  BY <1>2 DEF UpdatePreset, TypeOK, RunsFit, jobVars, infoVars, fileVars
<1>3. CASE Resolve
  <2>1. run' = run + 1 /\ run' \in 0 .. MaxRuns /\ 1 .. run \subseteq 1 .. run'
    BY <1>0, <1>3 DEF Resolve
  <2>2. stage' = "probe" /\ probed' = FALSE
        /\ UNCHANGED <<audio, info, outdated, preset, local, left, stored>>
    BY <1>3 DEF Resolve, jobVars, infoVars, fileVars
  <2>3. \A i \in 1 .. run : i \in 1 .. run'
    BY <1>0, <2>1
  <2>4. /\ \A f \in DOMAIN local' : local'[f].run \in 1 .. run'
        /\ \A f \in DOMAIN stored' : stored'[f].run \in 1 .. run'
    BY <2>2, <2>3 DEF TypeOK, RunsFit
  <2>5. run' > 0 /\ left' \subseteq DOMAIN local'
    BY <1>0, <2>1, <2>2 DEF TypeOK
  <2> QED BY <2>1, <2>2, <2>4, <2>5 DEF TypeOK, RunsFit, Stages
<1>4. CASE Probe
  BY <1>4 DEF Probe, TypeOK, RunsFit, Stages, jobVars, infoVars, fileVars
<1>5. CASE Picture
  <2>1. /\ stage' = "encode" /\ run > 0
        /\ UNCHANGED <<audio, preset, run, probed, left>>
    BY <1>5 DEF Picture, RunsFit, jobVars
  <2>2. DOMAIN Thumbnail = {Thumb} \cup DOMAIN local
        /\ Thumbnail[Thumb] = Segment(FALSE)
        /\ \A f \in DOMAIN local \ {Thumb} : Thumbnail[f] = local[f]
    BY DEF Single, Over, Thumbnail
  <2>3. Segment(FALSE).run = run
    BY DEF Segment
  <2>4. local' \in {local, Thumbnail}
    BY <1>5 DEF Picture
  <2>5. DOMAIN local \subseteq DOMAIN local' /\ \A f \in DOMAIN local' : local'[f].run \in 1 .. run
    BY <1>0, <2>1, <2>2, <2>3, <2>4 DEF RunsFit
  <2>6. info' \in {"none", "picture"} /\ outdated' \in BOOLEAN
    BY <1>5 DEF Picture, UpdateJobOutputInfo, infoVars, TypeOK
  <2>7. \A f \in DOMAIN stored' : stored'[f].run \in 1 .. run
    <3>1. CASE stored' = stored
      BY <3>1 DEF TypeOK
    <3>2. CASE local' = Thumbnail /\ stored' = Over(Single(Thumb, local'[Thumb]), stored)
      <4>1. PICK new : new = Single(Thumb, local'[Thumb])
        OBVIOUS
      <4>2. \A f \in DOMAIN new : new[f].run \in 1 .. run
        BY <2>2, <2>5, <3>2, <4>1 DEF Single
      <4>3. PICK old : old = stored /\ \A f \in DOMAIN old : old[f].run \in 1 .. run
        BY DEF TypeOK
      <4> QED BY <3>2, <4>1, <4>2, <4>3, OverOfRuns
    <3> QED BY <1>5, <3>1, <3>2 DEF Picture
  <2> QED BY <2>1, <2>5, <2>6, <2>7 DEF TypeOK, RunsFit, Stages
<1>6. CASE NoPicture
  BY <1>6 DEF NoPicture, TypeOK, RunsFit, Stages, jobVars, infoVars, fileVars
<1>7. CASE Encode
  <2>1. /\ stage' = "upload" /\ run > 0
        /\ local' = Over(BuildArgs(settings), local) /\ left' \subseteq DOMAIN local'
        /\ info' \in {"none", "picture"} /\ outdated' \in BOOLEAN
        /\ UNCHANGED <<audio, preset, run, probed, stored>>
    BY <1>7 DEF Encode, UpdateJobOutputInfo, RunsFit, TypeOK, jobVars
  <2>2. \A f \in DOMAIN local' : local'[f].run \in 1 .. run
    BY <1>0, <2>1, EncodedRuns DEF RunsFit
  <2> QED BY <2>1, <2>2 DEF TypeOK, RunsFit, Stages
<1>8. ASSUME NEW f \in left, Upload(f) PROVE TypeOK' /\ RunsFit'
  <2>1. PICK new : new = Single(f, local[f])
    OBVIOUS
  <2>2. /\ stage = "upload" /\ left' \subseteq left /\ stored' = Over(new, stored)
        /\ UNCHANGED <<audio, info, outdated, preset, stage, run, probed, local>>
    BY <1>8, <2>1 DEF Upload, jobVars, infoVars
  <2>3. \A g \in DOMAIN stored' : stored'[g].run \in 1 .. run
    <3>1. \A g \in DOMAIN new : new[g].run \in 1 .. run
      BY <2>1 DEF Single, TypeOK, RunsFit
    <3>2. PICK old : old = stored /\ \A g \in DOMAIN old : old[g].run \in 1 .. run
      BY DEF TypeOK
    <3> QED BY <2>2, <3>1, <3>2, OverOfRuns
  <2> QED BY <2>2, <2>3 DEF TypeOK, RunsFit
<1>9. ASSUME NEW outcome \in {"completed", "failed"}, Return(outcome)
      PROVE  TypeOK' /\ RunsFit'
  BY <1>9, NoFile DEF Return, TypeOK, RunsFit, Stages, jobVars, infoVars
<1>10. CASE Crash
  <2>1. /\ stage' = "queued" /\ left' = {} /\ run > 0
        /\ UNCHANGED <<audio, info, outdated, preset, run, probed, stored>>
        /\ local' \in {local, NoFiles, Over(BuildArgs(settings), local)}
    BY <1>10 DEF Crash, RunsFit, jobVars, infoVars
  <2>2. \A f \in DOMAIN local' : local'[f].run \in 1 .. run
    <3>1. CASE local' = Over(BuildArgs(settings), local)
      BY <1>0, <2>1, <3>1, EncodedRuns DEF RunsFit
    <3> QED BY <2>1, <3>1, NoFile DEF RunsFit
  <2> QED BY <2>1, <2>2 DEF TypeOK, RunsFit, Stages
<1>11. CASE Retry
  BY <1>11 DEF Retry, TypeOK, RunsFit, Stages, jobVars, infoVars, fileVars
<1>12. CASE UNCHANGED vars
  BY <1>12 DEF vars, TypeOK, RunsFit, jobVars, infoVars, fileVars
<1> QED BY <1>1, <1>2, <1>3, <1>4, <1>5, <1>6, <1>7, <1>8, <1>9, <1>10, <1>11, <1>12
        DEF Next, HandleTranscode, Complete, Fail

(* Every variable has its type, and no file is of a run that has not begun *)
(* (handler.go HandleTranscode).                                           *)
THEOREM TypeCorrect == Spec => []TypeOK
<1>1. Init => TypeOK /\ RunsFit
  BY InitTyped
<1>2. TypeOK /\ RunsFit /\ [Next]_vars => TypeOK' /\ RunsFit'
  BY TypeStep
<1> QED BY <1>1, <1>2, PTL DEF Spec

-----------------------------------------------------------------------------
(* Settings.                                                               *)

LEMMA SameRenditions ==
  ASSUME NEW s, NEW t, s.renditions = t.renditions
  PROVE  validRenditions(s) = validRenditions(t)
<1> DEFINE Keep(rs) ==
             LET valid[n \in 0 .. Len(rs)] ==
                   IF n = 0 THEN <<>>
                   ELSE IF Sized(rs[n]) THEN Append(valid[n - 1], rs[n])
                   ELSE valid[n - 1]
             IN valid[Len(rs)]
<1>1. validRenditions(s) = Keep(s.renditions) /\ validRenditions(t) = Keep(t.renditions)
  BY DEF validRenditions
<1> HIDE DEF Keep
<1> QED BY <1>1

(* A row keeps what Create or the scanner put there, and the ladder of the *)
(* scanner is never empty.                                                 *)
JobFits ==
  stage # "none" =>
    /\ IsSettings(job.settings)
    /\ job.scanned => IsLadder(job.settings)

(* Without a preset a run uses the settings of the row, with the tracks    *)
(* ffprobe has counted.                                                    *)
SettingsOfRun ==
  stage \in AtWork \cup {"completed"} /\ ~job.preset =>
    settings = IF probed THEN [job.settings EXCEPT !.tracks = audio] ELSE job.settings

LEMMA SubmitFits ==
  ASSUME Submit
  PROVE  JobFits'
<1>1. CASE \E ladder \in Ladders : job' = CreateJobForKey(ladder)
  <2>1. PICK ladder \in Ladders : job' = CreateJobForKey(ladder)
    BY <1>1
  <2>2. PICK s : s = job'.settings
    OBVIOUS
  <2>3. /\ {"codec", "format", "master", "tracks", "renditions"} \subseteq DOMAIN s
        /\ s.format = "hls"
        /\ s.renditions = IF ladder = <<>>
                          THEN <<[name |-> Plain(HeightName(SettingsHeight)),
                                  height |-> SettingsHeight]>>
                          ELSE ladder
    BY <2>1, <2>2 DEF CreateJobForKey
  <2>4. IsLadderValue(s.renditions) /\ s.renditions # <<>>
    <3>1. CASE ladder # <<>>
      BY <2>3, <3>1, LadderAssumption
    <3>2. CASE ladder = <<>>
      <4>1. PICK r : r = [name |-> Plain(HeightName(SettingsHeight)), height |-> SettingsHeight]
        OBVIOUS
      <4>2. s.renditions = <<r>> /\ r.height \in Int
        BY <2>3, <3>2, <4>1, LadderAssumption
      <4>6. r.name.word \notin {Blank, <<"top", 0>>}
        <5>1. r.name.word = <<"p", SettingsHeight>>
          BY <4>1 DEF Plain, HeightName
        <5>2. <<"p", SettingsHeight>> # Blank
          BY BlankAssumption, LadderAssumption
        <5> QED BY <5>1, <5>2
      <4>3. DOMAIN <<r>> = {1} /\ <<r>>[1] = r /\ <<r>> # <<>>
        OBVIOUS
      <4>4. {<<r>>[i] : i \in DOMAIN <<r>>} = {r}
        BY <4>3
      <4>5. <<r>> \in Seq({r})
        OBVIOUS
      <4> QED BY <4>2, <4>3, <4>4, <4>5, <4>6 DEF IsLadderValue
    <3> QED BY <3>1, <3>2
  <2> QED BY <2>2, <2>3, <2>4 DEF JobFits, IsSettings, IsLadder
<1>2. CASE \E r \in Requests : job' = [scanned |-> FALSE, preset |-> r.preset, settings |-> r.settings]
  BY <1>2, RequestAssumption DEF JobFits
<1> QED BY <1>1, <1>2 DEF Submit

SettingsFit == JobFits /\ SettingsOfRun /\ (stage = "probe" => ~probed)

LEMMA InitSettings == Init => SettingsFit
BY DEF Init, SettingsFit, JobFits, SettingsOfRun, AtWork

LEMMA SettingsStep ==
  ASSUME TypeOK, SettingsFit, [Next]_vars
  PROVE  SettingsFit'
<1> USE DEF AtWork
<1>1. CASE Submit
  <2>1. stage' = "queued"
    BY <1>1 DEF Submit
  <2> QED BY <1>1, <2>1, SubmitFits DEF SettingsFit, SettingsOfRun
<1>2. CASE Resolve
  <2>1. stage # "none" /\ stage' = "probe" /\ job' = job /\ audio' = audio /\ ~probed'
    BY <1>2 DEF Resolve, jobVars
  <2>2. ~job.preset => settings' = job.settings
    BY <1>2 DEF Resolve
  <2>3. JobFits'
    BY <2>1 DEF SettingsFit, JobFits
  <2>4. SettingsOfRun'
    BY <2>1, <2>2 DEF SettingsOfRun
  <2> QED BY <2>1, <2>3, <2>4 DEF SettingsFit
<1>3. CASE Probe
  <2>1. stage = "probe" /\ stage' = "picture" /\ job' = job /\ audio' = audio /\ ~probed
    BY <1>3 DEF Probe, SettingsFit, jobVars
  <2>2. ~job.preset => settings = job.settings
    BY <2>1 DEF SettingsFit, SettingsOfRun
  <2>3. \/ probed' /\ settings' = [settings EXCEPT !.tracks = audio]
        \/ ~probed' /\ settings' = settings
    BY <1>3, <2>1 DEF Probe
  <2>4. JobFits'
    BY <2>1 DEF SettingsFit, JobFits
  <2>5. SettingsOfRun'
    BY <2>1, <2>2, <2>3 DEF SettingsOfRun
  <2> QED BY <2>1, <2>4, <2>5 DEF SettingsFit
<1>4. ASSUME UNCHANGED <<job, audio, settings, probed>>,
             stage' # "none" => stage # "none",
             stage' = "probe" => stage = "probe",
             stage' \in AtWork \cup {"completed"} => stage \in AtWork \cup {"completed"}
      PROVE  SettingsFit'
  <2>1. JobFits'
    BY <1>4 DEF SettingsFit, JobFits
  <2>2. SettingsOfRun'
    BY <1>4 DEF SettingsFit, SettingsOfRun
  <2>3. stage' = "probe" => ~probed'
    BY <1>4 DEF SettingsFit
  <2> QED BY <2>1, <2>2, <2>3 DEF SettingsFit
<1>5. CASE UpdatePreset
  <2>1. stage' = stage
    BY <1>5 DEF UpdatePreset
  <2>2. UNCHANGED <<job, audio, settings, probed>>
    BY <1>5 DEF UpdatePreset, jobVars
  <2> QED BY <1>4, <2>1, <2>2
<1>6. CASE Picture \/ NoPicture \/ Encode
  <2>1. stage \in AtWork /\ stage' \in {"encode", "upload"}
    BY <1>6 DEF Picture, NoPicture, Encode
  <2>2. UNCHANGED <<job, audio, settings, probed>>
    BY <1>6 DEF Picture, NoPicture, Encode, jobVars
  <2> QED BY <1>4, <2>1, <2>2
<1>7. CASE \E f \in left : Upload(f)
  BY <1>4, <1>7 DEF Upload, jobVars
<1>8. CASE Complete \/ Fail
  <2>1. stage \in AtWork /\ stage' \in {"completed", "failed"}
    BY <1>8 DEF Complete, Fail, Return
  <2>2. UNCHANGED <<job, audio, settings, probed>>
    BY <1>8 DEF Complete, Fail, Return, jobVars
  <2> QED BY <1>4, <2>1, <2>2
<1>9. CASE Crash \/ Retry
  BY <1>4, <1>9 DEF Crash, Retry, jobVars
<1>10. CASE UNCHANGED vars
  <2>1. stage' = stage
    BY <1>10 DEF vars
  <2>2. UNCHANGED <<job, audio, settings, probed>>
    BY <1>10 DEF vars, jobVars
  <2> QED BY <1>4, <2>1, <2>2
<1> QED BY <1>1, <1>2, <1>3, <1>5, <1>6, <1>7, <1>8, <1>9, <1>10 DEF Next, HandleTranscode

-----------------------------------------------------------------------------
(* The files of a run.                                                     *)

Master == <<Top, "master">>
Indexes(s) == {<<d, "index">> : d \in Variants(s)}
Segments(s) == {<<d, "segment">> : d \in Variants(s)}

(* A ladder with a rendition that has a size.                              *)
LEMMA LadderFiles ==
  ASSUME NEW s, IsLadder(s), s.master \in {Blank, "master"}, Variants(s) # {}
  PROVE  /\ DOMAIN BuildArgs(s) = {Master} \cup Indexes(s) \cup Segments(s)
         /\ BuildArgs(s)[Master] = Playlist(Indexes(s))
         /\ \A f \in Indexes(s) :
              BuildArgs(s)[f] = Within(s, f[1], Playlist({Here("segment")}))
         /\ \A f \in Segments(s) : BuildArgs(s)[f] = Within(s, f[1], Segment(s.tracks > 0))
<1>1. Or(s.master, "master") = "master"
  BY DEF Or
<1>2. BuildArgs(s) = BuildHLSLadderArgs(s)
  BY DEF BuildArgs, IsLadder
<1>3. /\ Master \notin Indexes(s) \cup Segments(s)
      /\ \A f \in Indexes(s) : f \notin Segments(s)
  BY DEF Master, Indexes, Segments
<1>4. PICK I, S, M, list, sound :
        /\ I = Indexes(s) /\ S = Segments(s) /\ M = Master
        /\ list = Playlist({Here("segment")}) /\ sound = Segment(s.tracks > 0)
  OBVIOUS
<1>5. PICK b : b = [f \in {M} \cup I \cup S |->
                      CASE f = M -> Playlist(I)
                        [] f \in I -> Within(s, f[1], list)
                        [] OTHER -> Within(s, f[1], sound)]
  OBVIOUS
<1>6. BuildArgs(s) = b
  BY <1>1, <1>2, <1>4, <1>5 DEF BuildHLSLadderArgs, Indexes, Segments, Master
<1>7. /\ M \notin I \cup S /\ \A f \in I : f \notin S
  BY <1>3, <1>4
<1>8. /\ DOMAIN b = {M} \cup I \cup S /\ b[M] = Playlist(I)
      /\ \A f \in I : b[f] = Within(s, f[1], list)
      /\ \A f \in S : b[f] = Within(s, f[1], sound)
  BY <1>5, <1>7
<1> QED BY <1>4, <1>6, <1>8

(* A folder changes nothing of a file but whether it is whole.             *)
LEMMA PlaylistOfFolder ==
  ASSUME NEW s, NEW d, NEW refs, NEW file, file = Within(s, d, Playlist(refs))
  PROVE  file.refs = refs /\ file.sound /\ file.whole = (d \notin Shared(s))
BY DEF Within, Playlist

(* And a segment.                                                          *)
LEMMA SegmentOfFolder ==
  ASSUME NEW s, NEW d, NEW sound, NEW file, file = Within(s, d, Segment(sound))
  PROVE  file.refs = {} /\ file.sound = sound /\ file.whole = (d \notin Shared(s))
BY DEF Within, Segment

(* A ladder whose renditions are all dropped.                              *)
LEMMA EmptyLadderFiles ==
  ASSUME NEW s, IsLadder(s), Variants(s) = {}
  PROVE  /\ DOMAIN BuildArgs(s) = {Master, <<Top, "segment">>}
         /\ BuildArgs(s)[Master] = Playlist({Here("segment")})
         /\ BuildArgs(s)[<<Top, "segment">>] = Segment(audio > 0)
<1>1. BuildArgs(s) = SinglePlaylist("master")
  BY DEF BuildArgs, IsLadder
<1>2. "master" # "segment"
  OBVIOUS
<1> QED BY <1>1, <1>2, SinglePlaylistFiles DEF Master

LEMMA FilesAreSent ==
  ASSUME NEW s, IsLadder(s), s.master \in {Blank, "master"}
  PROVE  File \notin DOMAIN BuildArgs(s)
<1>1. CASE Variants(s) # {}
  <2>1. DOMAIN BuildArgs(s) = {Master} \cup Indexes(s) \cup Segments(s)
    BY <1>1, LadderFiles
  <2>2. File # Master /\ File \notin Indexes(s) /\ File \notin Segments(s)
    BY DEF File, Master, Indexes, Segments
  <2> QED BY <2>1, <2>2
<1>2. CASE Variants(s) = {}
  <2>1. DOMAIN BuildArgs(s) = {Master, <<Top, "segment">>}
    BY <1>2, EmptyLadderFiles
  <2>2. File # Master /\ File # <<Top, "segment">>
    BY DEF File, Master
  <2> QED BY <2>1, <2>2
<1> QED BY <1>1, <1>2

LEMMA SameFiles ==
  ASSUME UNCHANGED <<run, audio, settings>>
  PROVE  BuildArgs(settings)' = BuildArgs(settings)
BY DEF BuildArgs, BuildHLSLadderArgs, SinglePlaylist, Playlist, Segment, IsLadder, Variants,
       Folder, Shared,
       Within, validRenditions, cleanRenditionName, HeightName, IndexName, Sized, Over, Single, Or, Here,
       Top, File

LEMMA SelfContainedLadder ==
  ASSUME SettingsFit, stage \in AtWork \cup {"completed"}, SelfContained
  PROVE  /\ IsLadder(settings) /\ settings.master \in {Blank, "master"}
         /\ settings.renditions = job.settings.renditions
         /\ IsLadderValue(settings.renditions)
         /\ probed => settings.tracks = audio
<1>1. /\ IsSettings(job.settings) /\ IsLadder(job.settings)
      /\ job.settings.master \in {Blank, "master"}
      /\ settings = IF probed THEN [job.settings EXCEPT !.tracks = audio] ELSE job.settings
  BY DEF SettingsFit, JobFits, SettingsOfRun, SelfContained, AtWork
<1>2. /\ settings.format = job.settings.format /\ settings.renditions = job.settings.renditions
      /\ settings.master = job.settings.master
      /\ probed => settings.tracks = audio
  BY <1>1 DEF IsSettings
<1> QED BY <1>1, <1>2 DEF IsSettings, IsLadder

-----------------------------------------------------------------------------
(* The upload.                                                             *)

(* Of a job that names its ladder, each file of the run is stored or still *)
(* to be sent, and what lies in the directory under its name is of the run.*)
Delivered ==
  stage \in {"upload", "completed"} /\ SelfContained =>
    \A f \in DOMAIN BuildArgs(settings) :
      IF f \in left THEN local[f] = BuildArgs(settings)[f]
      ELSE f \in DOMAIN stored /\ stored[f] = BuildArgs(settings)[f]

(* A picture the row names is stored or will be sent.                      *)
PictureComes ==
  stage \in {"upload", "completed"} /\ info = "picture" /\ ~outdated =>
    Thumb \in left \cup DOMAIN stored

LEMMA EncodeDelivers ==
  ASSUME SettingsFit, Encode
  PROVE  Delivered' /\ PictureComes'
<1>1. /\ stage = "encode" /\ stage' = "upload"
      /\ local' = Over(BuildArgs(settings), local)
      /\ left' = {f \in DOMAIN local' : settings.format = "hls" <=> f # File}
      /\ UpdateJobOutputInfo(left')
      /\ UNCHANGED <<job, audio, settings, run>>
  BY DEF Encode, jobVars
<1>2. PICK b : b = BuildArgs(settings)
  OBVIOUS
<1>3. BuildArgs(settings)' = b
  BY <1>1, <1>2, SameFiles
<1>4. ASSUME SelfContained', NEW f \in DOMAIN b
      PROVE  f \in left' /\ local'[f] = b[f]
  <2>1. SelfContained
    BY <1>1, <1>4 DEF SelfContained
  <2>2. IsLadder(settings) /\ settings.master \in {Blank, "master"}
    BY <1>1, <2>1, SelfContainedLadder DEF AtWork
  <2>3. f # File /\ settings.format = "hls"
    BY <1>2, <2>2, FilesAreSent DEF IsLadder
  <2>4. f \in DOMAIN local' /\ local'[f] = b[f]
    BY <1>1, <1>2 DEF Over
  <2> QED BY <1>1, <2>3, <2>4
<1>5. Delivered'
  BY <1>3, <1>4 DEF Delivered
<1>6. info' = "picture" /\ ~outdated' => Thumb \in left'
  BY <1>1 DEF UpdateJobOutputInfo
<1> QED BY <1>5, <1>6 DEF PictureComes

LEMMA UploadDelivers ==
  ASSUME Delivered, PictureComes, NEW f \in left, Upload(f)
  PROVE  Delivered' /\ PictureComes'
<1>1. /\ stage = "upload" /\ stage' = stage
      /\ left' = left \ {f} /\ local' = local
      /\ stored' = Over(Single(f, local[f]), stored)
      /\ UNCHANGED <<job, audio, info, outdated, settings, run>>
  BY DEF Upload, jobVars, infoVars
<1>2. PICK b : b = BuildArgs(settings)
  OBVIOUS
<1>3. BuildArgs(settings)' = b
  BY <1>1, <1>2, SameFiles
<1>4. /\ DOMAIN stored' = {f} \cup DOMAIN stored
      /\ stored'[f] = local[f]
      /\ \A g \in DOMAIN stored \ {f} : stored'[g] = stored[g]
  BY <1>1 DEF Over, Single
<1>5. ASSUME SelfContained', NEW g \in DOMAIN b
      PROVE  IF g \in left' THEN local'[g] = b[g] ELSE g \in DOMAIN stored' /\ stored'[g] = b[g]
  <2>1. SelfContained
    BY <1>1, <1>5 DEF SelfContained
  <2>2. IF g \in left THEN local[g] = b[g] ELSE g \in DOMAIN stored /\ stored[g] = b[g]
    BY <1>1, <1>2, <2>1 DEF Delivered
  <2>3. CASE g = f
    BY <1>1, <1>4, <2>2, <2>3
  <2>4. CASE g # f
    BY <1>1, <1>4, <2>2, <2>4
  <2> QED BY <2>3, <2>4
<1>6. Delivered'
  BY <1>3, <1>5 DEF Delivered
<1>7. PictureComes'
  BY <1>1, <1>4 DEF PictureComes
<1> QED BY <1>6, <1>7

LEMMA DeliveryStep ==
  ASSUME TypeOK, SettingsFit, Delivered, PictureComes, [Next]_vars
  PROVE  Delivered' /\ PictureComes'
<1>1. CASE Encode
  BY <1>1, EncodeDelivers
<1>2. CASE \E f \in left : Upload(f)
  BY <1>2, UploadDelivers
<1>3. ASSUME stage' \notin {"upload", "completed"}
      PROVE  Delivered' /\ PictureComes'
  BY <1>3 DEF Delivered, PictureComes
<1>4. CASE Submit \/ Resolve \/ Probe \/ Picture \/ NoPicture \/ Fail \/ Crash \/ Retry
  <2>1. stage' \notin {"upload", "completed"}
    BY <1>4 DEF Submit, Resolve, Probe, Picture, NoPicture, Fail, Return, Crash, Retry
  <2> QED BY <1>3, <2>1
<1>5. ASSUME stage' \in {"upload", "completed"} => stage \in {"upload", "completed"},
             UNCHANGED <<job, audio, info, outdated, settings, run, left, stored>>,
             local' = local \/ left = {}
      PROVE  Delivered' /\ PictureComes'
  <2>1. PICK b : b = BuildArgs(settings)
    OBVIOUS
  <2>2. BuildArgs(settings)' = b
    BY <1>5, <2>1, SameFiles
  <2>3. SelfContained' => SelfContained
    BY <1>5 DEF SelfContained
  <2>4. Delivered'
    BY <1>5, <2>1, <2>2, <2>3 DEF Delivered
  <2>5. PictureComes'
    BY <1>5 DEF PictureComes
  <2> QED BY <2>4, <2>5
<1>6. CASE Complete
  <2>1. stage = "upload" /\ left = {} /\ left' = {}
    BY <1>6 DEF Complete, Return
  <2>2. UNCHANGED <<job, audio, info, outdated, settings, run, stored>>
    BY <1>6 DEF Complete, Return, jobVars, infoVars
  <2> QED BY <1>5, <2>1, <2>2
<1>7. CASE UpdatePreset
  BY <1>5, <1>7 DEF UpdatePreset, jobVars, infoVars, fileVars
<1>8. CASE UNCHANGED vars
  BY <1>5, <1>8 DEF vars, jobVars, infoVars, fileVars
<1> QED BY <1>1, <1>2, <1>4, <1>6, <1>7, <1>8 DEF Next, HandleTranscode

(* All of it together is inductive.                                        *)
IInv == TypeOK /\ RunsFit /\ SettingsFit /\ Delivered /\ PictureComes

LEMMA Invariant == Spec => []IInv
<1>1. Init => IInv
  <2>1. Init => Delivered /\ PictureComes
    BY DEF Init, Delivered, PictureComes
  <2> QED BY <2>1, InitTyped, InitSettings DEF IInv
<1>2. IInv /\ [Next]_vars => IInv'
  BY TypeStep, SettingsStep, DeliveryStep DEF IInv
<1> QED BY <1>1, <1>2, PTL DEF Spec

(* A video whose entry promises a picture has one, whichever run captured, *)
(* announced and failed to send it (handler.go HandleTranscode,            *)
(* updateThumbnailInfo; media.go Uploads).                                 *)
THEOREM PromisedPictures == Spec => []PictureIsThere
<1>1. IInv => PictureIsThere
  <2> SUFFICES ASSUME IInv, stage = "completed", thumbnailReady, ~outdated
               PROVE  Thumb \in DOMAIN stored
    BY DEF PictureIsThere
  <2>1. left = {}
    BY NoFile DEF IInv, TypeOK
  <2> QED BY <2>1 DEF IInv, PictureComes, thumbnailReady
<1> QED BY <1>1, Invariant, PTL

-----------------------------------------------------------------------------
(* The player.                                                             *)

LEMMA FollowedFrom ==
  ASSUME NEW files, NEW x
  PROVE  x \in Follow(files) <=>
           \/ x \in files
           \/ \E f \in files \cap DOMAIN stored : \E ref \in stored[f].refs :
                x = rewriteHLSPlaylist(ref, f[1])
BY DEF Follow

(* No folder of a ladder is taken for a file beside the playlist.          *)
LEMMA FolderNames ==
  ASSUME NEW s, IsLadderValue(s.renditions)
  PROVE  /\ Top # Blank
         /\ \A d \in Variants(s) : d # Blank
<1>1. \A x \in {"top", "p", "v"}, n \in Int : <<x, n>> # Blank
  BY BlankAssumption
<1>2. Top # Blank
  BY <1>1 DEF Top
<1>3. ASSUME NEW d \in Variants(s)
      PROVE  d # Blank
  <2>1. PICK rs, R : rs = s.renditions /\ R = {rs[i] : i \in DOMAIN rs} /\ rs \in Seq(R)
    BY DEF IsLadderValue
  <2>2. PICK v \in Seq(R) : v = validRenditions(s)
    BY <2>1, SizedRenditionsAreKept
  <2>3. PICK i \in 1 .. Len(v) : d = cleanRenditionName(v[i], i - 1)
    BY <2>2 DEF Variants, Folder
  <2>4. v[i] \in R
    BY <2>2
  <2>5. /\ v[i].height \in Int /\ i - 1 \in Int
        /\ v[i].name # Blank => v[i].name.word # Blank
    BY <2>1, <2>4 DEF IsLadderValue
  <2> QED BY <1>1, <2>3, <2>5 DEF cleanRenditionName, HeightName, IndexName
<1> QED BY <1>2, <1>3

(* Once all files of a run are stored, a player that begins with the       *)
(* master playlist asks for these files and no other.                      *)
LEMMA PlayerFindsAll ==
  ASSUME IInv, stage = "completed", SelfContained
  PROVE  /\ PlayerAsksFor = DOMAIN BuildArgs(settings)
         /\ \A f \in DOMAIN BuildArgs(settings) :
              f \in DOMAIN stored /\ stored[f] = BuildArgs(settings)[f]
<1>1. PICK b, s : b = BuildArgs(settings) /\ s = settings
  OBVIOUS
<1>2. \A f \in DOMAIN b : f \in DOMAIN stored /\ stored[f] = b[f]
  <2>1. left = {}
    BY NoFile DEF IInv, TypeOK
  <2> QED BY <1>1, <2>1 DEF IInv, Delivered
<1>3. IsLadder(s) /\ s.master \in {Blank, "master"} /\ IsLadderValue(s.renditions)
  BY <1>1, SelfContainedLadder DEF IInv
<1>4. Top # Blank /\ \A d \in Variants(s) : d # Blank
  BY <1>3, FolderNames
<1>5. /\ \A refs : Playlist(refs).refs = refs
      /\ \A sound : Segment(sound).refs = {}
  BY DEF Playlist, Segment
<1>6. \A d : rewriteHLSPlaylist(Here("segment"), d) = <<d, "segment">>
  BY DEF rewriteHLSPlaylist, Here
<1>7. \A e : \A d \in Variants(s) : rewriteHLSPlaylist(<<d, "index">>, e) = <<d, "index">>
  BY <1>4 DEF rewriteHLSPlaylist
<1>8. Master[1] = Top /\ \A d : <<d, "index">>[1] = d
  BY DEF Master
<1>9. CASE Variants(s) # {}
  <2>1. /\ DOMAIN b = {Master} \cup Indexes(s) \cup Segments(s)
        /\ b[Master] = Playlist(Indexes(s))
        /\ \A f \in Indexes(s) : b[f] = Within(s, f[1], Playlist({Here("segment")}))
    BY <1>1, <1>3, <1>9, LadderFiles
  <2>2. /\ Master \in DOMAIN stored /\ stored[Master].refs = Indexes(s)
        /\ \A f \in Indexes(s) : f \in DOMAIN stored /\ stored[f].refs = {Here("segment")}
    <3>1. Master \in DOMAIN stored /\ stored[Master].refs = Indexes(s)
      BY <1>2, <1>5, <2>1
    <3>2. ASSUME NEW f \in Indexes(s)
          PROVE  f \in DOMAIN stored /\ stored[f].refs = {Here("segment")}
      <4>1. f \in DOMAIN stored /\ stored[f] = Within(s, f[1], Playlist({Here("segment")}))
        BY <1>2, <2>1
      <4>2. PICK refs : refs = {Here("segment")}
        OBVIOUS
      <4>3. stored[f] = Within(s, f[1], Playlist(refs))
        BY <4>1, <4>2
      <4> QED BY <4>1, <4>2, <4>3, PlaylistOfFolder
    <3> QED BY <3>1, <3>2
  <2>3. Follow({Master}) = {Master} \cup Indexes(s)
    <3>1. ASSUME NEW x
          PROVE  x \in Follow({Master}) <=> x \in {Master} \cup Indexes(s)
      <4>1. x \in Follow({Master}) <=>
              x = Master \/ \E ref \in Indexes(s) : x = rewriteHLSPlaylist(ref, Top)
        BY <1>8, <2>2, FollowedFrom
      <4>2. \A ref \in Indexes(s) : rewriteHLSPlaylist(ref, Top) = ref
        BY <1>7 DEF Indexes
      <4> QED BY <4>1, <4>2
    <3> QED BY <3>1
  <2>4. Follow({Master} \cup Indexes(s)) = DOMAIN b
    <3>1. ASSUME NEW x
          PROVE  x \in Follow({Master} \cup Indexes(s)) <=> x \in DOMAIN b
      <4>1. x \in Follow({Master} \cup Indexes(s)) <=>
              \/ x \in {Master} \cup Indexes(s)
              \/ \E f \in {Master} \cup Indexes(s) : \E ref \in stored[f].refs :
                   x = rewriteHLSPlaylist(ref, f[1])
        BY <2>2, FollowedFrom
      <4>2. \A ref \in stored[Master].refs : rewriteHLSPlaylist(ref, Master[1]) \in Indexes(s)
        BY <1>7, <2>2 DEF Indexes
      <4>3. (\E f \in Indexes(s) : \E ref \in stored[f].refs : x = rewriteHLSPlaylist(ref, f[1]))
              <=> x \in Segments(s)
        <5>1. \A d \in Variants(s) : \A ref \in stored[<<d, "index">>].refs :
                rewriteHLSPlaylist(ref, <<d, "index">>[1]) = <<d, "segment">>
          BY <1>6, <1>8, <2>2 DEF Indexes
        <5>2. \A d \in Variants(s) : stored[<<d, "index">>].refs # {}
          BY <2>2 DEF Indexes
        <5>3. ASSUME NEW f \in Indexes(s), NEW ref \in stored[f].refs,
                     x = rewriteHLSPlaylist(ref, f[1])
              PROVE  x \in Segments(s)
          <6>1. PICK d \in Variants(s) : f = <<d, "index">>
            BY DEF Indexes
          <6> QED BY <5>1, <5>3, <6>1 DEF Segments
        <5>4. ASSUME x \in Segments(s)
              PROVE  \E f \in Indexes(s) : \E ref \in stored[f].refs :
                       x = rewriteHLSPlaylist(ref, f[1])
          <6>1. PICK d \in Variants(s) : x = <<d, "segment">>
            BY <5>4 DEF Segments
          <6>2. PICK f \in Indexes(s) : f = <<d, "index">>
            BY DEF Indexes
          <6>3. PICK ref \in stored[f].refs : x = rewriteHLSPlaylist(ref, f[1])
            BY <5>1, <5>2, <6>1, <6>2
          <6> QED BY <6>3
        <5> QED BY <5>3, <5>4
      <4> QED BY <2>1, <4>1, <4>2, <4>3
    <3> QED BY <3>1
  <2>5. PlayerAsksFor = DOMAIN b
    BY <2>3, <2>4 DEF PlayerAsksFor, Master
  <2> QED BY <1>1, <1>2, <2>5
<1>10. CASE Variants(s) = {}
  <2>1. /\ DOMAIN b = {Master, <<Top, "segment">>}
        /\ b[Master] = Playlist({Here("segment")})
        /\ b[<<Top, "segment">>] = Segment(audio > 0)
    BY <1>1, <1>3, <1>10, EmptyLadderFiles
  <2>2. /\ Master \in DOMAIN stored /\ stored[Master].refs = {Here("segment")}
        /\ <<Top, "segment">> \in DOMAIN stored /\ stored[<<Top, "segment">>].refs = {}
    BY <1>2, <1>5, <2>1
  <2>3. Follow({Master}) = DOMAIN b
    <3>1. ASSUME NEW x
          PROVE  x \in Follow({Master}) <=> x \in DOMAIN b
      <4>1. x \in Follow({Master}) <=>
              x = Master \/ \E ref \in {Here("segment")} : x = rewriteHLSPlaylist(ref, Top)
        BY <1>8, <2>2, FollowedFrom
      <4> QED BY <1>6, <2>1, <4>1
    <3> QED BY <3>1
  <2>4. Follow(DOMAIN b) = DOMAIN b
    <3>1. ASSUME NEW x
          PROVE  x \in Follow(DOMAIN b) <=> x \in DOMAIN b
      <4>1. x \in Follow(DOMAIN b) <=>
              \/ x \in DOMAIN b
              \/ \E f \in DOMAIN b : \E ref \in stored[f].refs : x = rewriteHLSPlaylist(ref, f[1])
        BY <1>2, FollowedFrom
      <4>2. \A f \in DOMAIN b : \A ref \in stored[f].refs :
              rewriteHLSPlaylist(ref, f[1]) = <<Top, "segment">>
        BY <1>6, <1>8, <2>1, <2>2
      <4> QED BY <2>1, <4>1, <4>2
    <3> QED BY <3>1
  <2>5. PlayerAsksFor = DOMAIN b
    BY <2>3, <2>4 DEF PlayerAsksFor, Master
  <2> QED BY <1>1, <1>2, <2>5
<1> QED BY <1>9, <1>10

(* What is shown as playable plays, whatever ladder the settings held and  *)
(* whatever runs failed halfway before: all a player asks for is there and *)
(* is of the run that completed (handler.go HandleTranscode, ffmpeg.go     *)
(* BuildArgs, media.go HLS).                                               *)
THEOREM PlayableVideosPlay == Spec => []PlayableIsPlayed
<1>1. IInv => PlayableIsPlayed
  <2> SUFFICES ASSUME IInv, playable, SelfContained, NEW f \in PlayerAsksFor
               PROVE  f \in DOMAIN stored /\ stored[f].run = run
    BY DEF PlayableIsPlayed
  <2>1. PICK b : b = BuildArgs(settings) /\ f \in DOMAIN b
    BY PlayerFindsAll DEF playable
  <2>2. f \in DOMAIN stored /\ stored[f] = b[f]
    BY <2>1, PlayerFindsAll DEF playable
  <2>3. b[f].run = run
    BY <2>1, FilesAreOfTheRun
  <2> QED BY <2>2, <2>3
<1> QED BY <1>1, Invariant, PTL

(* No ladder loses the sound of a source that could be probed (handler.go  *)
(* HandleTranscode, ffmpeg.go BuildHLSLadderArgs).                         *)
THEOREM NoSoundIsLost == Spec => []SoundIsKept
<1>1. IInv => SoundIsKept
  <2> SUFFICES ASSUME IInv, playable, SelfContained, probed, audio > 0,
                      NEW f \in PlayerAsksFor \cap DOMAIN stored
               PROVE  stored[f].sound
    BY DEF SoundIsKept
  <2>1. PICK b, s : b = BuildArgs(settings) /\ s = settings
    OBVIOUS
  <2>2. f \in DOMAIN b /\ stored[f] = b[f]
    BY <2>1, PlayerFindsAll DEF playable
  <2>3. IsLadder(s) /\ s.master \in {Blank, "master"} /\ s.tracks = audio
    BY <2>1, SelfContainedLadder DEF IInv, playable
  <2>4. /\ \A refs : Playlist(refs).sound
        /\ Segment(audio > 0).sound /\ Segment(s.tracks > 0).sound
    BY <2>3 DEF Playlist, Segment
  <2>5. CASE Variants(s) # {}
    <3>1. /\ DOMAIN b = {Master} \cup Indexes(s) \cup Segments(s)
          /\ b[Master] = Playlist(Indexes(s))
          /\ \A g \in Indexes(s) : b[g] = Within(s, g[1], Playlist({Here("segment")}))
          /\ \A g \in Segments(s) : b[g] = Within(s, g[1], Segment(s.tracks > 0))
      BY <2>1, <2>3, <2>5, LadderFiles
    <3>2. s.tracks > 0
      BY <2>3
    <3>3. /\ b[Master].sound
          /\ \A g \in Indexes(s) : b[g].sound
          /\ \A g \in Segments(s) : b[g].sound
      <4>1. b[Master].sound
        BY <2>4, <3>1
      <4>2. ASSUME NEW g \in Indexes(s) PROVE b[g].sound
        <5>1. PICK refs : refs = {Here("segment")} /\ b[g] = Within(s, g[1], Playlist(refs))
          BY <3>1
        <5> QED BY <5>1, PlaylistOfFolder
      <4>3. ASSUME NEW g \in Segments(s) PROVE b[g].sound
        <5>1. b[g] = Within(s, g[1], Segment(s.tracks > 0))
          BY <3>1
        <5>2. b[g].sound = (s.tracks > 0)
          BY <5>1, SegmentOfFolder
        <5> QED BY <3>2, <5>2
      <4> QED BY <4>1, <4>2, <4>3
    <3> QED BY <2>2, <3>1, <3>3
  <2>6. CASE Variants(s) = {}
    <3>1. /\ DOMAIN b = {Master, <<Top, "segment">>}
          /\ b[Master] = Playlist({Here("segment")})
          /\ b[<<Top, "segment">>] = Segment(audio > 0)
      BY <2>1, <2>3, <2>6, EmptyLadderFiles
    <3> QED BY <2>2, <2>4, <3>1
  <2> QED BY <2>5, <2>6
<1> QED BY <1>1, Invariant, PTL

(* Renditions that can be told apart have different folders.               *)
LEMMA FoldersDiffer ==
  ASSUME NEW rs, ToldApart(rs), \A n \in 1 .. Len(rs) : Sized(rs[n]) /\ rs[n].height \in Int,
         Len(rs) \in Nat, NEW i \in 1 .. Len(rs), NEW j \in 1 .. Len(rs), i # j
  PROVE  cleanRenditionName(rs[i], i - 1) # cleanRenditionName(rs[j], j - 1)
<1> DEFINE a == rs[i]
           b == rs[j]
<1>1. /\ a.name = Blank /\ b.name = Blank => a.height # b.height
      /\ a.name # Blank /\ b.name = Blank => a.name.word # HeightName(b.height)
      /\ b.name # Blank /\ a.name = Blank => b.name.word # HeightName(a.height)
      /\ a.name # Blank /\ b.name # Blank =>
           /\ a.name.word = b.name.word => a.name.word = Odd
           /\ a.name.word # IndexName(j - 1)
           /\ b.name.word # IndexName(i - 1)
  BY DEF ToldApart
<1>2. /\ \A m, n : HeightName(m) = HeightName(n) => m = n
      /\ \A m, n : HeightName(m) # IndexName(n)
      /\ IndexName(i - 1) # IndexName(j - 1)
  BY DEF HeightName, IndexName
<1>3. a.height > 0 /\ b.height > 0
  BY DEF Sized
<1>4. /\ a.name = Blank => cleanRenditionName(a, i - 1) = HeightName(a.height)
      /\ a.name # Blank => cleanRenditionName(a, i - 1) =
                             IF a.name.word = Odd THEN IndexName(i - 1) ELSE a.name.word
      /\ b.name = Blank => cleanRenditionName(b, j - 1) = HeightName(b.height)
      /\ b.name # Blank => cleanRenditionName(b, j - 1) =
                             IF b.name.word = Odd THEN IndexName(j - 1) ELSE b.name.word
  BY <1>3 DEF cleanRenditionName
<1> HIDE DEF a, b
<1>5. cleanRenditionName(a, i - 1) # cleanRenditionName(b, j - 1)
  BY <1>1, <1>2, <1>4
<1> QED BY <1>5 DEF a, b

(* Each rendition has a folder of its own, and a player finds all of them  *)
(* whole, if they can be told apart, however many there are (ffmpeg.go     *)
(* BuildHLSLadderArgs, cleanRenditionName).                                *)
THEOREM RenditionsStayApart == Spec => []NamedApart
<1>1. IInv => NamedApart
  <2>1. PICK valid : valid = validRenditions(job.settings)
    OBVIOUS
  <2> SUFFICES ASSUME IInv, playable, SelfContained, valid # <<>>, ToldApart(valid)
               PROVE  /\ Cardinality({f \in PlayerAsksFor : f[2] = "index"}) = Len(valid)
                      /\ \A f \in PlayerAsksFor : f \in DOMAIN stored /\ stored[f].whole
    BY <2>1 DEF NamedApart
  <2>2. PICK s, b : s = settings /\ b = BuildArgs(settings)
    OBVIOUS
  <2>3. /\ IsLadder(s) /\ s.master \in {Blank, "master"}
        /\ s.renditions = job.settings.renditions /\ IsLadderValue(s.renditions)
    BY <2>2, SelfContainedLadder DEF IInv, playable
  <2>4. valid = validRenditions(s)
    BY <2>1, <2>3, SameRenditions
  <2>5. PICK n \in Nat : /\ n = Len(valid) /\ n > 0
                         /\ \A i \in 1 .. n : Sized(valid[i]) /\ valid[i].height \in Int
    <3>1. PICK rs, R : rs = s.renditions /\ R = {rs[i] : i \in DOMAIN rs} /\ rs \in Seq(R)
      BY <2>3 DEF IsLadderValue
    <3>2. valid \in Seq(R) /\ IsSelection(valid, Len(valid), rs, Len(rs))
      BY <2>4, <3>1, SizedRenditionsAreKept
    <3>3. Len(valid) \in Nat /\ Len(valid) > 0
      BY <3>2
    <3>4. \A i \in 1 .. Len(valid) : valid[i] \in R /\ Sized(valid[i])
      BY <3>2 DEF IsSelection
    <3>5. \A r \in R : r.height \in Int
      BY <2>3, <3>1 DEF IsLadderValue
    <3> QED BY <3>3, <3>4, <3>5
  <2>6. PICK folder : folder = [i \in 1 .. n |-> Folder(s, i)]
    OBVIOUS
  <2>7. \A i, j \in 1 .. n : i # j => folder[i] # folder[j]
    <3> SUFFICES ASSUME NEW i \in 1 .. n, NEW j \in 1 .. n, i # j
                 PROVE  folder[i] # folder[j]
      OBVIOUS
    <3>1. cleanRenditionName(valid[i], i - 1) # cleanRenditionName(valid[j], j - 1)
      BY <2>5, FoldersDiffer
    <3>2. /\ folder[i] = cleanRenditionName(valid[i], i - 1)
          /\ folder[j] = cleanRenditionName(valid[j], j - 1)
      BY <2>4, <2>6 DEF Folder
    <3> QED BY <3>1, <3>2
  <2>8. Variants(s) = {folder[i] : i \in 1 .. n} /\ Shared(s) = {}
    BY <2>4, <2>5, <2>6, <2>7 DEF Variants, Shared
  <2>9. Variants(s) # {}
    <3>1. 1 \in 1 .. n
      BY <2>5
    <3> QED BY <2>8, <3>1
  <2>10. /\ DOMAIN b = {Master} \cup Indexes(s) \cup Segments(s)
         /\ b[Master] = Playlist(Indexes(s))
         /\ \A f \in Indexes(s) : b[f] = Within(s, f[1], Playlist({Here("segment")}))
         /\ \A f \in Segments(s) : b[f] = Within(s, f[1], Segment(s.tracks > 0))
    BY <2>2, <2>3, <2>9, LadderFiles
  <2>11. \A f \in DOMAIN b : b[f].whole
    <3>1. \A f \in Indexes(s) \cup Segments(s) : b[f].whole
      <4>1. ASSUME NEW f \in Indexes(s) PROVE b[f].whole
        <5>1. PICK refs : refs = {Here("segment")} /\ b[f] = Within(s, f[1], Playlist(refs))
          BY <2>10
        <5>2. b[f].whole = (f[1] \notin Shared(s))
          BY <5>1, PlaylistOfFolder
        <5> QED BY <2>8, <5>2
      <4>2. ASSUME NEW f \in Segments(s) PROVE b[f].whole
        <5>1. b[f] = Within(s, f[1], Segment(s.tracks > 0))
          BY <2>10
        <5>2. b[f].whole = (f[1] \notin Shared(s))
          BY <5>1, SegmentOfFolder
        <5> QED BY <2>8, <5>2
      <4> QED BY <4>1, <4>2
    <3>2. b[Master].whole
      BY <2>10 DEF Playlist
    <3> QED BY <2>10, <3>1, <3>2
  <2>12. /\ PlayerAsksFor = DOMAIN b
         /\ \A f \in DOMAIN b : f \in DOMAIN stored /\ stored[f] = b[f]
    BY <2>2, PlayerFindsAll DEF playable
  <2>13. {f \in PlayerAsksFor : f[2] = "index"} = Indexes(s)
    BY <2>10, <2>12 DEF Master, Indexes, Segments
  <2>14. ExistsBijection(1 .. n, Indexes(s))
    <3> DEFINE at == [i \in 1 .. n |-> <<folder[i], "index">>]
    <3>1. at \in Surjection(1 .. n, Indexes(s))
      BY <2>8 DEF Indexes, Surjection
    <3>2. \A i, j \in 1 .. n : i # j => at[i] # at[j]
      BY <2>7
    <3>3. at \in Injection(1 .. n, Indexes(s))
      BY <3>1, <3>2 DEF Injection, Surjection, IsInjective
    <3> QED BY <3>1, <3>3 DEF ExistsBijection, Bijection
  <2>15. Cardinality({f \in PlayerAsksFor : f[2] = "index"}) = Len(valid)
    BY <2>5, <2>13, <2>14, FS_CountingElements
  <2> QED BY <2>11, <2>12, <2>15
<1> QED BY <1>1, Invariant, PTL
================================================================================
