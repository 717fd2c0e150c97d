CONSTANTS
  HalfRange = 8192
  Updaters = {u1, u2}
  Nobody = nobody
  a = a
  b = b
  gone = gone
  Models = {a, b, gone}
  NoModel = NoModel
  Saves <- MCSaves
  Edits = {7}
  Machines = {2, 8}
  MaxSaves = 3
  MaxSnapshots = 1
SPECIFICATION Spec
INVARIANTS
  ReserveIsKept
  LastSaveWins
  VoiceFollowsSettings
PROPERTIES
  EditsFit
SYMMETRY Threads
VIEW Seen
