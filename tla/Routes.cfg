SPECIFICATION FairSpec
CONSTANTS
  r1 = r1
  r2 = r2
  r3 = r3
  qwen = qwen
  remote = remote
  lora = lora
  Requests = {r1, r2, r3}
  Managed = {qwen}
  Audio = {qwen}
  Pooled = {remote}
  Local = {lora}
  Asks <- MCAsks
  MaxQueue = 1
  ListLimit = 3
CHECK_DEADLOCK FALSE
INVARIANT AnswersAreTrue
PROPERTY StopEndsRequests
PROPERTY EveryRequestAnswered
