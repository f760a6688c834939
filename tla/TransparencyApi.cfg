SPECIFICATION Spec
CONSTANTS
  MaxSkew = 1
  Events = {e1, e2, e3}
  Clients = {c1, c2}
  MaxTime = 2
SYMMETRY Symmetry
INVARIANTS
  TypeOK
  HeadsArePrefixes
  AckCoversEvent
  NoFalseAlarm
  RefusedOnlyByRaceOrSkew
