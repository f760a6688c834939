SPECIFICATION MotionSpec
CONSTANTS
  NsPerMs = 2
  QueueAge = 1
  Watchdog = 2
  MaxClock = 8
  MaxSequence = 3
INVARIANTS MotionHasStanding EstopHolds RecordsFollowMode
