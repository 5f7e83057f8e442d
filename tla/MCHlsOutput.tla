----------------------------- MODULE MCHlsOutput -----------------------------
(* Instances of HlsOutput for TLC.                                         *)
EXTENDS HlsOutput, SequencesExt

MCRendition(h) == [name |-> Blank, height |-> h]

(* All kinds of names: none; one of odd characters; 720p and 720P, which   *)
(* read like a height; v1, which reads like an index.  And a rendition of  *)
(* no height, which is dropped.  A third one matters where that shifts     *)
(* positions.                                                              *)
MCNames ==
  {Blank, Plain(Odd), Plain(HeightName(720)), Plain(IndexName(1)),
   [word |-> HeightName(720), spelling |-> "capital"]}
MCRenditions == [name : MCNames, height : {720}] \cup [name : {Blank}, height : {0}]
MCLadders ==
  BoundedSeq(MCRenditions, 2)
    \cup {<<MCRendition(0), r, [name |-> Plain(IndexName(1)), height |-> 720]>> : r \in MCRenditions}

MCSettings ==
  [codec : {Blank}, format : {Blank, "hls"}, master : {Blank, "main"}, tracks : 0 .. 1,
   renditions : {<<>>, <<MCRendition(0)>>, <<MCRendition(480), MCRendition(720)>>}]

(* Of a job with a preset, codec and format matter besides the ladder,     *)
(* which is all it has when the preset is gone.                            *)
MCPresetSettings ==
  [codec : {Blank, "own"}, format : {Blank, "hls"}, master : {Blank}, tracks : {0},
   renditions : {<<>>, <<MCRendition(480), MCRendition(720)>>}]

MCRequests ==
  [preset : {FALSE}, settings : MCSettings] \cup [preset : {TRUE}, settings : MCPresetSettings]

MCPresets ==
  [codec : {"preset"}, format : {"hls"}, master : {Blank}, tracks : {0},
   renditions : {<<>>, <<MCRendition(480)>>}]
=============================================================================
