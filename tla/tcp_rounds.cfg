SPECIFICATION FairSpec
CONSTANTS
  ClientCount = 3
  ThreadCount = 2
  Transport = "tcp_ln"
  Faults = {}
  Timed = FALSE
  StatsLen = 24
  VoteMod = 4
  HostId <- PortHostId3
  Killable = {}
  Interruptible = FALSE
INVARIANTS CountedIsRecorded CountsStartAtZero OneInFlight CountsAreExact ResponsesAreComing TurnsInv
PROPERTIES RoundsEnd ImplementsAtomicCommit
CHECK_DEADLOCK FALSE
