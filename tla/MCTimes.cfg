SPECIFICATION TimesSpec
CONSTANTS
  MaxTime = 7
  MaxDuration = 31
  MaxAttempts = 7
INVARIANTS
  PhantomsAreSeenThrough
  WatchedEpisodesCount
  WaitWithinBounds
  ReturnsDoubled
CHECK_DEADLOCK FALSE
