SPECIFICATION FairSpec
CONSTANTS
  Clients <- MCClients
  ClientCount = 3
  ThreadCount = 2
  CommandLines <- MCCommandLines
  BindTries = 2
  NOBODY = NOBODY
INVARIANTS StartupTypeOK Seated EachServedOnce
PROPERTIES StartsUp
CHECK_DEADLOCK FALSE
