SPECIFICATION Spec
CONSTANTS
  PreTrigger = 2
  PostTrigger = 2
  MaxBoot = 2
  MaxTick = 3
  MaxUtc = 2
  MaxFrames = 5
  None = None
INVARIANTS StartFailsOnlyOnUtcStepBack SegmentsVerify
CHECK_DEADLOCK FALSE
