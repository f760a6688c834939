SPECIFICATION VerifierSpec
CONSTANTS
  MaxSkew = 0
  MaxSize = 5
  MaxDamage = 2
INVARIANTS
  AcceptedIsIncluded
  ContinuousIsExtension
  HonestIsAccepted
CHECK_DEADLOCK FALSE
