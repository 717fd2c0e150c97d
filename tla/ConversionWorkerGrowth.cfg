CONSTANTS
  MaxInputBytes = 786432
  Formats <- MCFormat
  Callbacks <- MCCallback
  Options <- MCOption
  Generations = 4
SPECIFICATION Spec
INVARIANTS
  FirstBlockAtInitial
