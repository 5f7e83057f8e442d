--------------------------- MODULE MCUploadCleanup ----------------------------
(* Instances of UploadCleanup for TLC.                                     *)
EXTENDS UploadCleanup

Atom(a) == IF a = "" THEN <<>> ELSE <<a>>
Video(dir, base, hash) ==
  [key |-> Atom(dir) \o base \o <<".mp4">>, dir |-> Atom(dir), base |-> base, hash |-> <<hash>>]

(* Two files of one name in two directories, and one whose name begins     *)
(* like theirs.                                                            *)
TwoVideos   == {Video("a", <<"movie">>, "#1"), Video("b", <<"movie">>, "#2")}
BeginAlike  == {Video("a", <<"movie">>, "#1"), Video("a", <<"movie", "-hd">>, "#2")}

HlsPrefix   == <<"hls">>
NoTemplate  == <<>>
NamedPlaces == <<"file_base_name", "hls">>

Symmetry == Permutations(Jobs) \cup Permutations(Runs) \cup Permutations(Requests)
                \cup Permutations(Parts)
=============================================================================
