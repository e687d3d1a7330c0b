SPECIFICATION Spec
CONSTANTS
  p1 = p1
  t1 = t1
  s1 = s1
  Proxied = {p1}
  Texts = {t1}
  Shots = {s1}
  MaxConcurrency = 1
  MaxKept = 1
  Fresh = 1
  MaxClock = 1
  MaxChunks = 1
CHECK_DEADLOCK FALSE
INVARIANT HistoryIsTrue
INVARIANT TelemetryIsAccounted
INVARIANT PrefillIsOwn
PROPERTY OutcomeStands
