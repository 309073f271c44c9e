SPECIFICATION FairSpec
CONSTANTS
  StatsLen = 4
  Timed = TRUE
  Killable = TRUE
INVARIANTS RudpTypeOK ServerAckTrue ScanSeesThisRound
PROPERTIES ImplementsExchange ClientAckTrueUntilGaveUp RequestsEnd
CHECK_DEADLOCK FALSE
