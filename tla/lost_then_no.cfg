SPECIFICATION Spec
CONSTANTS
  ClientCount = 2
  ThreadCount = 1
  Transport = "udp_ln"
  Faults = {"loss"}
  Timed = TRUE
  StatsLen = 6
  VoteMod = 2
  HostId <- PortHostId2
  Killable = {}
  Interruptible = FALSE
INVARIANT LostFailsCluster
CHECK_DEADLOCK FALSE
