CONSTANTS
  Audio = audio
  number = number
  Secret = secret
  Ladder = ladder
  NoKey = NoKey
  NoSave = NoSave
  Blank = Blank
  Spaces = Spaces
  a = a
  b = b
  default = default
  Keys <- MCKeys
  Env <- MCEnv
  SaveDefault <- MCSaveDefault
  LoadDefault <- MCLoadDefault
  DefaultLadder <- MCDefaultLadder
  Forms <- MCForms
  Places = {1, 2}
  Saves = {s1, s2}
  Values = {a, b, default}
  MaxIncidents = 2
SPECIFICATION FairSpec
INVARIANTS TypeOK OneForm SavedIsLoaded
PROPERTY SecretIsKept SavesEnd
CHECK_DEADLOCK FALSE
