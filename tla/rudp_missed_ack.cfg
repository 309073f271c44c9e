SPECIFICATION Spec
CONSTANTS
  StatsLen = 3
  Timed = FALSE
  Killable = FALSE
INVARIANT AckNotMissed
CHECK_DEADLOCK FALSE
