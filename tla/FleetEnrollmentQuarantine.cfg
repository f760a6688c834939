SPECIFICATION Spec
CONSTANTS
  Devices = {d1, d2}
  Enrollments = {e1, e2, e3}
  Fingerprints = {f1, f2}
  Boundaries = {b1}
  Expiries = {2}
  SubmittedAs = {"pending", "enrolled"}
  Requests = {q1, q2}
  Slots = {s1}
  Fresh = Fresh
  MaxOverlap = 1
  MaxTime = 2
  None = None
  Pending = Pending
INVARIANTS QuarantineBlocksDevice
CHECK_DEADLOCK FALSE
SYMMETRY Symmetry
