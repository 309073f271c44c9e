SPECIFICATION FairSpec
CONSTANTS
  MsgSize = 3
  ReadSize = 7
  Messages = 5
  Window = 4
INVARIANTS StreamTypeOK NoCase2 WholeMessages
PROPERTIES AllDelivered ImplementsQueue
CHECK_DEADLOCK FALSE
