CONSTANTS
  Blank = Blank
  Odd = Odd
  NoPreset = NoPreset
  Ladders <- MCLadders
  Requests <- MCRequests
  Presets <- MCPresets
  SettingsHeight = 720
  MaxRuns = 2
SPECIFICATION Spec
INVARIANTS TypeOK PlayableIsPlayed NamedApart SoundIsKept PictureIsThere
CHECK_DEADLOCK FALSE
