SPECIFICATION Spec
CONSTANTS
  q1 = q1
  q2 = q2
  q3 = q3
  q4 = q4
  m1 = m1
  x1 = x1
  NoItem = NoItem
  Items = {q1, q2, m1}
  N = 2
  Model <- SharedModel
  Priority <- SharedPriority
  MaxConcurrency <- SingleCap
  Timed = {q2}
  Events = {"late", "refresh", "external", "idle", "loadfail"}
CHECK_DEADLOCK FALSE
PROPERTY NoOvertaking
INVARIANT NoLostWakeup
