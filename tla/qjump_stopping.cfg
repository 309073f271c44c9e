SPECIFICATION Spec
CONSTANTS
  ClientCount = 2
  ThreadCount = 1
  Transport = "udp_qj"
  Faults = {}
  Timed = TRUE
  StatsLen = 6
  VoteMod = 3
  HostId <- PortHostId2
  Killable = {}
  Interruptible = FALSE
INVARIANT CommitValid
CHECK_DEADLOCK FALSE
