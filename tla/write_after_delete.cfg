SPECIFICATION Spec
CONSTANTS
  ClientCount = 2
  ThreadCount = 2
  Transport = "tcp_ln"
  Faults = {}
  Timed = FALSE
  StatsLen = 4
  VoteMod = 3
  HostId <- SwappedHostId
  Killable = {}
  Interruptible = FALSE
INVARIANT DoneWithConnections
CHECK_DEADLOCK FALSE
