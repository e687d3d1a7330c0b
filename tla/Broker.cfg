SPECIFICATION FairSpec
CONSTANTS
  Servers = {s1}
  Callers = {c1, c2}
  s1 = s1
  c1 = c1
  c2 = c2
  Worlds <- MCWorlds
  MaxVersion = 2
  MaxSearches = 1
  None = None
CHECK_DEADLOCK FALSE
INVARIANT RecordIsTended
INVARIANT ListedAgree
INVARIANT NoStrayClient
INVARIANT CallsAnswered
PROPERTY EveryRequestEnds
