CONSTANTS
  w1 = w1
  w2 = w2
  main = main
  Workers = {w1}
  Main = main
  Models = {"a.pth"}
  Configurations <- OtherSettings
  StreamGenerations = {1}
  MaxStreams = 2
  MaxResets = 2
SPECIFICATION Spec
INVARIANTS
  SettingsTakeEffect
