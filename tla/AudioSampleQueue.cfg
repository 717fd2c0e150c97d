CONSTANTS
  a = a
  b = b
  silence = silence
  Samples <- MCSamples
  Zero = silence
  MinimumCapacity = 1
  Bursts <- MCBursts
  Requests = {0, 1, 2, 20}
  MaxQueued = 4
SPECIFICATION Spec
INVARIANTS
  TypeOK
PROPERTIES
  FifoOrder
