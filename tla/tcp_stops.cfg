SPECIFICATION FairSpec
CONSTANTS
  ClientCount = 2
  ThreadCount = 1
  Transport = "tcp_ln"
  Faults = {}
  Timed = TRUE
  StatsLen = 7
  VoteMod = 3
  HostId <- SwappedHostId
  Killable = {0}
  Interruptible = TRUE
INVARIANTS TypeOK CommitValid CancelValid ReportTrue StatsInBounds
PROPERTIES StopEnds ClientsFollow
CHECK_DEADLOCK FALSE
