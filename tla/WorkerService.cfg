CONSTANTS
  c1 = c1
  c2 = c2
  r1 = r1
  r2 = r2
  r3 = r3
  Clients = {c1, c2}
  Requests = {r1, r2, r3}
  parallel_workers = 2
  MaxSaves = 2
SPECIFICATION FairSpec
INVARIANTS
  PoolIsNotOverrun
  NoLeakedSlot
  ServersOutliveReplies
  ConfiguredIsApplied
PROPERTIES
  RequestsAreReceived
CHECK_DEADLOCK FALSE
