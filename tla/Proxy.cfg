SPECIFICATION FairSpec
CONSTANTS
  reqA = reqA
  reqB = reqB
  Requests <- TwoRequests
  N = 2
CHECK_DEADLOCK FALSE
INVARIANT SucceededIsWhole
INVARIANT TimerWhileWaiting
PROPERTY CancelledMeansLeft
PROPERTY NothingSentInVain
PROPERTY EveryRequestCompletes
