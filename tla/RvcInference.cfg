CONSTANTS
  w1 = w1
  w2 = w2
  main = main
  Workers = {w1, w2}
  Main = main
  Models = {"a.pth", "b.pth"}
  Configurations <- SameSettings
  StreamGenerations = {1}
  MaxStreams = 2
  MaxResets = 2
SYMMETRY WorkerSymmetry
SPECIFICATION Spec
INVARIANTS
  TypeOK
  InferencesAreSerial
  OneExtractionPerHubert
  NothingOutlivesReset
  WarmedUp
