CONSTANTS
  Blank = Blank
  Odd = Odd
  NoPreset = NoPreset
  Ladders = {}
  Requests <- MCRequests
  Presets <- MCPresets
  SettingsHeight = 720
  MaxRuns = 2
SPECIFICATION Spec
INVARIANTS InlineTakesPrecedence
CHECK_DEADLOCK FALSE
