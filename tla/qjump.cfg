SPECIFICATION Spec
CONSTANTS
  ClientCount = 2
  ThreadCount = 2
  Transport = "udp_qj"
  Faults = {}
  Timed = TRUE
  StatsLen = 8
  VoteMod = 3
  HostId <- PortHostId2
  Killable = {0}
  Interruptible = FALSE
INVARIANTS CommitValidUnlessStopping CancelValid ReportTrue IInv
CHECK_DEADLOCK FALSE
