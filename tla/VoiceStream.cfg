\* At 100 samples a second the context is 4 samples, the look-ahead 6, the
\* overlap 3, the search 1, and a block of 250 ms is 25.
CONSTANTS
  MaxInputBytes = 786432
  Rate = 100
  Durations = {250, 500}
  Skips = {0, 7}
  Lags <- MCLags
  Shortfalls = {2, 3}
  MaxWindows = 3
  MaxGenerations = 2
SPECIFICATION Spec
INVARIANTS
  TypeOK
  NothingFromBefore
  WindowsContinue
  TailAdjoins
PROPERTIES
  VoiceStaysInPlace
  HeardAsPromised
CHECK_DEADLOCK FALSE
