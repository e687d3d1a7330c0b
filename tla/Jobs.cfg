SPECIFICATION FairSpec
CONSTANTS
  jobA = jobA
  jobB = jobB
  req = req
  Jobs <- TwoJobs
  Direct <- OneRequest
  OpenAi <- OneJob
  MaxQueue = 2
  Worlds <- MCWorlds
CHECK_DEADLOCK FALSE
INVARIANT RowsAreExecuted
INVARIANT RowsAgree
PROPERTY StopLeavesNothing
PROPERTY EveryWaitEnds
PROPERTY Implements
