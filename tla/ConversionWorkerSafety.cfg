\* 19200 bytes leave 4800 frames for a hop at 48 kHz, so that every block is
\* clamped; at 16 kHz they leave 8000 frames, and only blocks beyond 500 ms are.
CONSTANTS
  MaxInputBytes = 19200
  Formats <- MCFormats
  Callbacks <- MCCallbacks
  Options <- MCOptions
  Generations = 3
SPECIFICATION FairSpec
INVARIANTS
  TypeOK
  BacklogsBounded
  NoLostWakeup
  SeamlessSplice
  HistoryContiguous
  SilentUntilStarted
  BuffersFit
  NoFlowDeadlock
PROPERTIES
  AudioIsConserved
  StopJoins
