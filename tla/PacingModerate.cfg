CONSTANTS
  MaxInputBytes = 786432
  MaxOutputBytes = 786432
  Formats <- MCFormats
  Callbacks <- MCCallbacks
  Options <- DefaultOptions
  Generations = 16
  Overheads <- ModerateOverheads
  Missing = {0, 1, 2}
  ResampleRate = 0
  ModelRate = 40000
  Load = 25
SPECIFICATION PacingSpec
PROPERTIES
  KeepsPlaying
  SlowConversionGrows
