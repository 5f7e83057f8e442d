----------------------------- MODULE MCScanner ------------------------------
(* Instances of Scanner for TLC.                                           *)
EXTENDS Scanner

(* The prefix of .env.example, a template that leads to a place under it,  *)
(* and another prefix, which path.Join cleans.                             *)
Default == [prefix |-> <<"hls">>, template |-> <<>>]
Within  == [prefix |-> <<"hls">>, template |-> <<"hls", "archive">>]
Moved   == [prefix |-> <<"media", "", "hls">>, template |-> <<>>]

ThreeSettings == {Default, Within, Moved}
TwoSettings   == {Default, Moved}

Symmetry == Permutations(Jobs) \cup Permutations(Nodes)
=============================================================================
