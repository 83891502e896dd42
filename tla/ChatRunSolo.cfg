SPECIFICATION Spec
CONSTANTS
  r1 = r1
  r2 = r2
  k1 = k1
  l1 = l1
  a1 = a1
  a2 = a2
  t1 = t1
  t2 = t2
  Runs = {r1}
  Readers = {}
  Loaders = {l1}
  NoRun = NoRun
  NoDoc = NoDoc
  Creator = r1
  Upgrading = {r1}
  Naming = {r1}
  Leaving = {r1}
  Draining = {}
  LongRuns = {r1}
  Text <- SoloText
  Agent <- SoloAgent
  Endings = {"none", "empty", "reply", "rotated", "partial"}
  MaxContent = 1
  StreamCap = 10
  ReadCount = 2
  MaxFaults = 1
  MaxCrashes = 1
  MayDelete = TRUE
INVARIANT RepliesInOrder
CHECK_DEADLOCK FALSE
