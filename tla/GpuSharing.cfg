SPECIFICATION FairSpec
CONSTANTS
  q1 = q1
  q2 = q2
  q3 = q3
  q4 = q4
  m1 = m1
  x1 = x1
  NoItem = NoItem
  Items = {q1, q2, m1}
  N = 2
  Model <- SharedModel
  Priority <- SharedPriority
  MaxConcurrency <- SharedCap
  Timed = {q1}
  Events = {"cancel", "loadfail"}
CHECK_DEADLOCK FALSE
INVARIANT NoOrphanedWork
INVARIANT OneModelAtATime
INVARIANT ActiveAccounting
INVARIANT ActiveWorkUninterrupted
INVARIANT IdleIsTimed
PROPERTY OutcomeIsFinal
PROPERTY EveryCallAnswered
