CONSTANTS
  MaxInputBytes = 786432
  MaxOutputBytes = 786432
  Formats <- MCFormats
  Callbacks <- LongCallbacks
  Options <- LargeOptions
  Generations = 16
  Overheads <- NoOverhead
  Missing = {2}
  ResampleRate = 0
  ModelRate = 40000
  Load = 150
SPECIFICATION PacingSpec
INVARIANTS
  GrownBlocksAreAnswered
