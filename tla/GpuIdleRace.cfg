SPECIFICATION Spec
CONSTANTS
  q1 = q1
  q2 = q2
  q3 = q3
  q4 = q4
  m1 = m1
  x1 = x1
  NoItem = NoItem
  Items = {q1, q2}
  N = 2
  Model <- SharedModel
  Priority <- FlatPriority
  MaxConcurrency <- SingleCap
  Timed = {}
  Events = {"idle"}
INVARIANTS ActiveWorkUninterrupted
CHECK_DEADLOCK FALSE
