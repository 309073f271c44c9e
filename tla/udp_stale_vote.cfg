SPECIFICATION Spec
CONSTANTS
  ClientCount = 1
  ThreadCount = 1
  Transport = "udp_ln"
  Faults = {"duplication","reordering"}
  Timed = FALSE
  StatsLen = 4
  VoteMod = 2
  HostId <- PortHostId1
  Killable = {}
  Interruptible = FALSE
INVARIANT NoIsHeeded
CHECK_DEADLOCK FALSE
