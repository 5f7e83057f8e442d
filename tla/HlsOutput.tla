------------------------------ MODULE HlsOutput -------------------------------
(***************************************************************************)
(* What a job writes and what a player finds: from the settings of a row   *)
(* and its preset (handler.go) over the variants ffmpeg is told to write   *)
(* (ffmpeg.go BuildArgs) and the upload, one object after the other, to    *)
(* the playlists the API serves (media.go).  Runs may fail, crash and be   *)
(* repeated, and presets may change in between.                            *)
(*                                                                         *)
(* A file is a pair of a folder and a name; a playlist has one segment.    *)
(* The folders the handler makes before ffmpeg makes them anyway are left  *)
(* out.                                                                    *)
(***************************************************************************)
EXTENDS Integers, Sequences, FiniteSets

CONSTANTS
  Blank,       \* a setting that is not given
  Odd,         \* what is left of a name without a letter or digit, - or _
  NoPreset,
  Ladders,     \* what HLS_LADDER may hold: sequences of renditions
  Requests,    \* what clients of the API ask for
  Presets,     \* settings a preset may have
  SettingsHeight,  \* HLS_HEIGHT
  MaxRuns      \* a bound

(* Renditions and settings, as far as they are looked into.  A name that   *)
(* is given has a word, in small letters, digits, - and _, and a spelling: *)
(* capitals, and blanks and other characters between.  No word is Blank or *)
(* a path.                                                                 *)
IsLadderValue(ladder) ==
  /\ ladder \in Seq({ladder[i] : i \in DOMAIN ladder})
  /\ \A i \in DOMAIN ladder :
       /\ ladder[i].height \in Int
       /\ ladder[i].name # Blank => ladder[i].name.word \notin {Blank, <<"top", 0>>}

IsSettings(s) ==
  /\ {"codec", "format", "master", "tracks", "renditions"} \subseteq DOMAIN s
  /\ IsLadderValue(s.renditions)

(* A setting that is not given is not taken for the name of a folder.      *)
ASSUME BlankAssumption == Blank \notin {"top", "p", "v"} \X Int
ASSUME LadderAssumption == SettingsHeight \in Int /\ \A ladder \in Ladders : IsLadderValue(ladder)
ASSUME RequestAssumption == \A r \in Requests : r.preset \in BOOLEAN /\ IsSettings(r.settings)
ASSUME MaxRunsAssumption == MaxRuns \in Nat

VARIABLES
  job,       \* the row: who made it, settings
  info,      \* its output_info: "picture" if that names a thumbnail
  outdated,  \* history: the last UPDATE that would have changed it was lost
  preset,    \* the preset it names
  audio,     \* audio streams of its source
  stage,
  run,       \* counts deliveries
  settings,  \* of the current run
  probed,    \* ffprobe has read the source
  local,     \* files in the job's directory,
  left,      \* those the upload has still to send,
  stored     \* and those at the output URL

jobVars == <<job, audio>>
infoVars == <<info, outdated>>
fileVars == <<local, left, stored>>
vars == <<jobVars, infoVars, preset, stage, run, settings, probed, fileVars>>

NoFiles == <<>>

(* What is written under a name replaces what was there.                   *)
Over(new, old) ==
  [f \in DOMAIN new \cup DOMAIN old |-> IF f \in DOMAIN new THEN new[f] ELSE old[f]]
Single(f, content) == [g \in {f} |-> content]

Stages == {"none", "queued", "probe", "picture", "encode", "upload", "completed", "failed"}

TypeOK ==
  /\ stage \in Stages
  /\ run \in 0 .. MaxRuns
  /\ probed \in BOOLEAN
  /\ audio \in 0 .. 1
  /\ preset \in Presets \cup {NoPreset}
  /\ info \in {"none", "picture"} /\ outdated \in BOOLEAN
  /\ left \subseteq DOMAIN local
  /\ stage \in {"completed", "failed"} => local = NoFiles
  /\ \A f \in DOMAIN stored : stored[f].run \in 1 .. run

Init ==
  /\ stage = "none"
  /\ job = Blank
  /\ info = "none" /\ outdated = FALSE
  /\ preset = NoPreset
  /\ audio \in 0 .. 1
  /\ run = 0
  /\ settings = Blank
  /\ probed = FALSE
  /\ local = NoFiles
  /\ left = {}
  /\ stored = NoFiles

-----------------------------------------------------------------------------
(* Names.                                                                  *)

Top == <<"top", 0>>
Thumb == <<Top, "thumbnail">>
File == <<Top, "file">>     \* of a job that is not hls, beside the directory
HeightName(h) == <<"p", h>>
IndexName(i) == <<"v", i>>
Plain(word) == [word |-> word, spelling |-> "plain"]

(* Mutant: the name is always that of the height.                          *)
HeightOnly(r, i) == IF r.height > 0 THEN HeightName(r.height) ELSE IndexName(i)

(* The folder of a rendition, whose spelling is lost; i counts from 0.     *)
cleanRenditionName(r, i) ==
  CASE r.name # Blank /\ r.name.word # Odd -> r.name.word
    [] r.name = Blank /\ r.height > 0 -> HeightName(r.height)
    [] OTHER -> IndexName(i)

(* A width that is not positive counts as a height of 0 here.              *)
Sized(r) == r.height > 0

(* The renditions up to the n-th that have a size, in their order; a      *)
(* function, so that proofs can use it.                                    *)
validRenditions(s) ==
  LET valid[n \in 0 .. Len(s.renditions)] ==
        IF n = 0 THEN <<>>
        ELSE IF Sized(s.renditions[n]) THEN Append(valid[n - 1], s.renditions[n])
        ELSE valid[n - 1]
  IN valid[Len(s.renditions)]

IsLadder(s) == s.format = "hls" /\ s.renditions # <<>>

Or(value, fallback) == IF value = Blank THEN fallback ELSE value

-----------------------------------------------------------------------------
(* Settings.                                                               *)

(* The job of a scanned object; <<>> is a ladder that cannot be read.      *)
CreateJobForKey(ladder) ==
  [scanned |-> TRUE, preset |-> FALSE,
   settings |-> [codec |-> "libx264", format |-> "hls", master |-> "master", tracks |-> 0,
                 renditions |-> IF ladder = <<>>
                                THEN <<[name |-> Plain(HeightName(SettingsHeight)), height |-> SettingsHeight]>>
                                ELSE ladder]]

(* codec stands for all settings of this kind.                             *)
mergeSettings(inline, base) ==
  [base EXCEPT !.codec = Or(inline.codec, @), !.format = Or(inline.format, @)]

-----------------------------------------------------------------------------
(* Files ffmpeg writes.  A playlist names files relative to itself.        *)

Here(name) == <<Blank, name>>
Playlist(refs) == [run |-> run, refs |-> refs, sound |-> TRUE, whole |-> TRUE]
Segment(sound) == [run |-> run, refs |-> {}, sound |-> sound, whole |-> TRUE]

(* The folder of the i-th variant.                                         *)
Folder(s, i) == cleanRenditionName(validRenditions(s)[i], i - 1)

Variants(s) == {Folder(s, i) : i \in 1 .. Len(validRenditions(s))}

(* Folders that several variants write to.                                 *)
Shared(s) ==
  {d \in Variants(s) : \E i, j \in 1 .. Len(validRenditions(s)) :
                         i # j /\ Folder(s, i) = d /\ Folder(s, j) = d}

(* There they overwrite each other's files, and no file is whole.          *)
Within(s, d, file) == [file EXCEPT !.whole = d \notin Shared(s)]

BuildHLSLadderArgs(s) ==
  LET master == <<Top, Or(s.master, "master")>>
      indexes == {<<d, "index">> : d \in Variants(s)}
      segments == {<<d, "segment">> : d \in Variants(s)}
  IN [f \in {master} \cup indexes \cup segments |->
        CASE f = master -> Playlist(indexes)
          [] f \in indexes -> Within(s, f[1], Playlist({Here("segment")}))
          [] OTHER -> Within(s, f[1], Segment(s.tracks > 0))]

(* One playlist: of a job without ladder, or with one that has no valid    *)
(* rendition, which keeps the name the handler has chosen.                 *)
SinglePlaylist(name) ==
  Over(Single(<<Top, name>>, Playlist({Here("segment")})),
       Single(<<Top, "segment">>, Segment(audio > 0)))

BuildArgs(s) ==
  CASE IsLadder(s) /\ Variants(s) # {} -> BuildHLSLadderArgs(s)
    [] IsLadder(s) /\ Variants(s) = {} -> SinglePlaylist("master")
    [] s.format = "hls" /\ s.renditions = <<>> -> SinglePlaylist("index")
    [] OTHER -> Single(File, Segment(audio > 0))

(* ffmpeg ends with an error when it shall map sound that is not there.    *)
CanEncode(s) == IsLadder(s) /\ Variants(s) # {} /\ s.tracks > 0 => audio > 0

-----------------------------------------------------------------------------
(* The job.                                                                *)

Submit ==
  /\ stage = "none"
  /\ stage' = "queued"
  /\ \/ \E ladder \in Ladders : job' = CreateJobForKey(ladder)
     \/ \E r \in Requests : job' = [scanned |-> FALSE, preset |-> r.preset, settings |-> r.settings]
  /\ UNCHANGED <<audio, infoVars, preset, run, settings, probed, fileVars>>

(* PUT and DELETE of the preset; one that the job does not name is of no   *)
(* interest.                                                               *)
UpdatePreset ==
  /\ stage # "none" /\ job.preset
  /\ preset' \in Presets \cup {NoPreset}
  /\ UNCHANGED <<jobVars, infoVars, stage, run, settings, probed, fileVars>>

(* The handler reads the row and its preset; an error leaves the settings  *)
(* as they are.                                                            *)
Resolve ==
  /\ stage = "queued" /\ run < MaxRuns
  /\ stage' = "probe"
  /\ run' = run + 1
  /\ \/ settings' = job.settings
     \/ /\ job.preset /\ preset # NoPreset
        /\ settings' = mergeSettings(job.settings, preset)
  /\ probed' = FALSE
  /\ UNCHANGED <<jobVars, infoVars, preset, fileVars>>

(* Mutant: a repeated run does not use what ffprobe says.                  *)
ProbeFirstRunOnly ==
  /\ stage = "probe"
  /\ stage' = "picture"
  /\ \/ /\ probed' = TRUE
        /\ settings' = IF run > 1 THEN settings ELSE [settings EXCEPT !.tracks = audio]
     \/ UNCHANGED <<settings, probed>>
  /\ UNCHANGED <<jobVars, infoVars, preset, run, fileVars>>

(* An error of ffprobe is ignored.                                         *)
Probe ==
  /\ stage = "probe"
  /\ stage' = "picture"
  /\ \/ probed' = TRUE /\ settings' = [settings EXCEPT !.tracks = audio]
     \/ UNCHANGED <<settings, probed>>
  /\ UNCHANGED <<jobVars, infoVars, preset, run, fileVars>>

(* UpdateJobOutputInfo, whose error is ignored.                            *)
UpdateJobOutputInfo(files) ==
  LET new == IF Thumb \in files THEN "picture" ELSE "none"
  IN info' \in {new, info} /\ outdated' = (info' # new)

(* One frame of the source as a file.                                      *)
Thumbnail == Over(Single(Thumb, Segment(FALSE)), local)

(* A picture is captured, named in the row, and put to its place, whether  *)
(* that succeeds or not; or none is, though a broken one may be left.      *)
Picture ==
  /\ stage = "picture" /\ settings.format = "hls"
  /\ stage' = "encode"
  /\ \/ /\ local' = Thumbnail
        /\ UpdateJobOutputInfo({Thumb})
        /\ stored' \in {stored, Over(Single(Thumb, local'[Thumb]), stored)}
     \/ /\ local' \in {local, Thumbnail}
        /\ UNCHANGED <<infoVars, stored>>
  /\ UNCHANGED <<jobVars, preset, run, settings, probed, left>>

NoPicture ==
  /\ stage = "picture" /\ settings.format # "hls"
  /\ stage' = "encode"
  /\ UNCHANGED <<jobVars, infoVars, preset, run, settings, probed, fileVars>>

(* Mutant: what the row says of the output is added to, not replaced.      *)
EncodeAddsInfo ==
  /\ stage = "encode" /\ CanEncode(settings)
  /\ stage' = "upload"
  /\ local' = Over(BuildArgs(settings), local)
  /\ left' = {f \in DOMAIN local' : settings.format = "hls" <=> f # File}
  /\ UpdateJobOutputInfo(left' \cup IF info = "picture" THEN {Thumb} ELSE {})
  /\ UNCHANGED <<jobVars, preset, run, settings, probed, stored>>

(* ffmpeg runs, and output_info is replaced.  The output directory may     *)
(* still have files of a run that crashed; all of it is sent.              *)
Encode ==
  /\ stage = "encode" /\ CanEncode(settings)
  /\ stage' = "upload"
  /\ local' = Over(BuildArgs(settings), local)
  /\ left' = {f \in DOMAIN local' : settings.format = "hls" <=> f # File}
  /\ UpdateJobOutputInfo(left')
  /\ UNCHANGED <<jobVars, preset, run, settings, probed, stored>>

(* The files of a folder are walked in the order of their names.  How the  *)
(* names of folders and of other files lie to these is left open.          *)
WalkDir == <<"index", "master", "segment", "thumbnail">>

Precedes(f, g) ==
  f[1] = g[1] /\ \E i, j \in DOMAIN WalkDir : i < j /\ WalkDir[i] = f[2] /\ WalkDir[j] = g[2]

MayBeNext(f) == f \in left /\ \A g \in left : ~Precedes(g, f)

(* Mutant: objects that are already there are skipped.                     *)
UploadMissing(f) ==
  /\ stage = "upload" /\ MayBeNext(f)
  /\ left' = left \ {f}
  /\ stored' = Over(stored, Single(f, local[f]))
  /\ UNCHANGED <<jobVars, infoVars, preset, stage, run, settings, probed, local>>

(* One object.                                                             *)
Upload(f) ==
  /\ stage = "upload" /\ MayBeNext(f)
  /\ left' = left \ {f}
  /\ stored' = Over(Single(f, local[f]), stored)
  /\ UNCHANGED <<jobVars, infoVars, preset, stage, run, settings, probed, local>>

(* The directory is removed when the handler returns.                      *)
Return(outcome) ==
  /\ stage' = outcome
  /\ local' = NoFiles
  /\ left' = {}
  /\ UNCHANGED <<jobVars, infoVars, preset, run, settings, probed, stored>>

(* Mutant: the directory of a completed job stays.                         *)
CompleteKeepsDir ==
  /\ stage = "upload" /\ left = {}
  /\ stage' = "completed"
  /\ UNCHANGED <<jobVars, infoVars, preset, run, settings, probed, fileVars>>

Complete == stage = "upload" /\ left = {} /\ Return("completed")

Fail == stage \in {"probe", "picture", "encode", "upload"} /\ Return("failed")

(* The worker dies, perhaps with files ffmpeg has begun, and the task is   *)
(* delivered again, there or on another machine.                           *)
Crash ==
  /\ stage \in {"probe", "picture", "encode", "upload"}
  /\ stage' = "queued"
  /\ left' = {}
  /\ \/ local' \in {local, NoFiles}
     \/ stage = "encode" /\ local' = Over(BuildArgs(settings), local)
  /\ UNCHANGED <<jobVars, infoVars, preset, run, settings, probed, stored>>

Retry ==
  /\ stage = "failed"
  /\ stage' = "queued"
  /\ UNCHANGED <<jobVars, infoVars, preset, run, settings, probed, fileVars>>

HandleTranscode ==
  \/ Resolve \/ Probe \/ Picture \/ NoPicture \/ Encode \/ (\E f \in left : Upload(f)) \/ Complete \/ Fail

Next == Submit \/ UpdatePreset \/ HandleTranscode \/ Crash \/ Retry

Spec == Init /\ [][Next]_vars

-----------------------------------------------------------------------------
(* The player.                                                             *)

(* A line of the playlist, joined with the folder it is served from.       *)
rewriteHLSPlaylist(ref, base) == IF ref[1] = Blank THEN <<base, ref[2]>> ELSE ref

(* Files a player asks for after it has been given one.                    *)
Follow(files) ==
  files \cup UNION {{rewriteHLSPlaylist(ref, f[1]) : ref \in stored[f].refs} :
                      f \in files \cap DOMAIN stored}

PlayerAsksFor == Follow(Follow({<<Top, "master">>}))

(* Uploads shows the job, whose output is in S3, with a picture, and with  *)
(* a link to play it.                                                      *)
thumbnailReady == info = "picture"

playable == stage = "completed" /\ (job.scanned \/ job.settings.format = "hls")

-----------------------------------------------------------------------------
(* Properties.                                                             *)

(* Jobs of the scanner, and others that name a ladder and no preset, with  *)
(* the master playlist where the API looks for it.                         *)
SelfContained ==
  /\ ~job.preset
  /\ job.scanned \/ IsLadder(job.settings)
  /\ job.settings.master \in {Blank, "master"}

(* What is shown as playable plays: whatever ladder the settings held,     *)
(* readable or not, and whatever runs failed halfway before, a player      *)
(* finds all it asks for, and all of it is of the run that completed       *)
(* (HandleTranscode, BuildArgs, Uploads, HLS).                             *)
PlayableIsPlayed ==
  playable /\ SelfContained =>
    PlayerAsksFor \subseteq {f \in DOMAIN stored : stored[f].run = run}

(* Renditions can be told apart if the words of their names differ, those  *)
(* without a name have different heights, and no word reads like the name  *)
(* another gets for want of its own.  720P and 720p cannot, nor HD 720 and *)
(* HD720.                                                                  *)
ToldApart(rs) ==
  \A i, j \in 1 .. Len(rs) : i # j =>
    /\ rs[i].name = Blank /\ rs[j].name = Blank => rs[i].height # rs[j].height
    /\ rs[i].name # Blank /\ rs[j].name = Blank => rs[i].name.word # HeightName(rs[j].height)
    /\ rs[i].name # Blank /\ rs[j].name # Blank =>
         /\ rs[i].name.word = rs[j].name.word => rs[i].name.word = Odd
         /\ rs[i].name.word # IndexName(j - 1)

(* Each rendition has a folder of its own, and a player finds all of them  *)
(* whole, if they can be told apart: whether they have names or not,       *)
(* whatever their sizes are, what is dropped between them, and which runs  *)
(* wrote there before (BuildHLSLadderArgs, cleanRenditionName).            *)
NamedApart ==
  LET valid == validRenditions(job.settings)
  IN playable /\ SelfContained /\ valid # <<>> /\ ToldApart(valid) =>
       /\ Cardinality({f \in PlayerAsksFor : f[2] = "index"}) = Len(valid)
       /\ \A f \in PlayerAsksFor : f \in DOMAIN stored /\ stored[f].whole

(* No ladder loses the sound of a source that could be probed, also when a *)
(* client or an earlier run took it to be silent (HandleTranscode).        *)
SoundIsKept ==
  playable /\ SelfContained /\ probed /\ audio > 0 =>
    \A f \in PlayerAsksFor \cap DOMAIN stored : stored[f].sound

(* A completed video whose entry promises a picture has one, whichever run *)
(* captured, announced and failed to send it, unless the statement that    *)
(* would have taken the promise back was lost.  The row names a picture    *)
(* before it is sent, and a failed capture says nothing to the row         *)
(* (HandleTranscode, updateThumbnailInfo, Uploads, Thumbnail).             *)
PictureIsThere ==
  stage = "completed" /\ thumbnailReady /\ ~outdated => Thumb \in DOMAIN stored

-----------------------------------------------------------------------------
(* Comment of mergeSettings: inline settings take precedence over the      *)
(* preset.                                                                 *)
InlineTakesPrecedence ==
  stage \in {"probe", "picture", "encode", "upload"} =>
    /\ job.settings.codec # Blank => settings.codec = job.settings.codec
    /\ job.settings.format # Blank => settings.format = job.settings.format
    /\ job.settings.renditions # <<>> => settings.renditions = job.settings.renditions
=============================================================================
