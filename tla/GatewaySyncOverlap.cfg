SPECIFICATION Spec
CONSTANTS
  Procs = {p1, p2}
  Slots = {s1}
  Ids = {i1}
  Contents = {x, y}
  Stamps = {m1, m2}
  MaxItems = 1
  BatchLimit = 2
  MaxFaults = 1
  Escapes = TRUE
INVARIANTS
  SynchronizedInCore
  NoSilentLoss
  QueueMatchesLocal
CHECK_DEADLOCK FALSE
