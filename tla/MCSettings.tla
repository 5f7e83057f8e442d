----------------------------- MODULE MCSettings ------------------------------
(* Instances of Settings for TLC: a text that the environment sets, a      *)
(* number with a default, the secret and a ladder.                         *)
EXTENDS Settings

CONSTANTS number, a, b, default

MCKeys == {Audio, number, Secret, Ladder}
MCEnv == [k \in MCKeys |-> IF k = Audio THEN a ELSE Nothing(k)]
MCSaveDefault == [k \in MCKeys |-> IF k = number THEN default ELSE Nothing(k)]
MCLoadDefault == [MCSaveDefault EXCEPT ![Ladder] = DefaultLadder]

Good   == [place |-> 1, sized |-> TRUE, video |-> a, audio |-> b]
Silent == [place |-> 2, sized |-> TRUE, video |-> b, audio |-> Blank]
Bad    == [place |-> 1, sized |-> TRUE, video |-> Spaces, audio |-> b]
MCDefaultLadder == {[Good EXCEPT !.video = default]}

Form(audio, n, secret, rungs) ==
  [k \in MCKeys |-> CASE k = Audio -> audio [] k = number -> n
                      [] k = Secret -> secret [] k = Ladder -> rungs]

(* All filled in, nothing filled in, and what is treated specially.        *)
MCForms ==
  {Form(a, a, a, {Good}), Form(Blank, Blank, Blank, {}),
   Form(b, b, Blank, {Silent, Bad}), Form(Spaces, Blank, Spaces, {Silent, Good}),
   Form(b, a, b, {Bad}), Form(b, Blank, Blank, {Good, Silent, Bad}),
   Form(Blank, b, Blank, {Silent}), Form(a, Blank, b, {})}
=============================================================================
