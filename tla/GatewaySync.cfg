SPECIFICATION FairSpec
CONSTANTS
  Procs = {p1}
  Slots = {s1, s2}
  Ids = {i1, i2}
  Contents = {x}
  Stamps = {m1}
  MaxItems = 1
  BatchLimit = 2
  MaxFaults = 2
  Escapes = FALSE
INVARIANTS
  TypeOK
  OverrunBounded
PROPERTIES
  SynchronizedIsFinal
  EverythingSettles
CHECK_DEADLOCK FALSE
