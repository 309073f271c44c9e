SPECIFICATION FairSpec
CONSTANTS
  ClientCount = 2
  ThreadCount = 1
  Transport = "udp_ln"
  Faults = {"loss"}
  Timed = TRUE
  StatsLen = 8
  VoteMod = 3
  HostId <- PortHostId2
  Killable = {0}
  Interruptible = FALSE
INVARIANTS CommitValid CancelValid ReportTrue IInv
PROPERTIES ImplementsAtomicCommit DecisionAwaited
CHECK_DEADLOCK FALSE
