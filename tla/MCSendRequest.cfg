CONSTANTS
  Req <- MCReq
  maxTryTimes = 2
  NoStatus = NoStatus
SPECIFICATION FairSpec
INVARIANTS GivenUpAfterAll HistoryHonest
PROPERTIES NoCopyAfterEnd EverySendEnds ImplementsAtLeastOnce
CHECK_DEADLOCK FALSE
