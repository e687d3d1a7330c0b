SPECIFICATION Spec
CONSTANTS
  q1 = q1
  q2 = q2
  q3 = q3
  q4 = q4
  m1 = m1
  x1 = x1
  NoItem = NoItem
  Items = {q1, q2, q3, q4, x1}
  N = 1
  Model <- SharedModel
  Priority <- SharedPriority
  MaxConcurrency <- SingleCap
  Timed = {q2}
  Events = {"late", "loadfail"}
CHECK_DEADLOCK FALSE
SYMMETRY Alike
INVARIANT WithinMaxConcurrency
