SPECIFICATION Spec
CONSTANTS
  m1 = m1
  m2 = m2
  Model = {m1, m2}
  Request = {r1}
  Proc = {p1, p2}
  Unloader = unloader
  Watcher = watcher
  Closer = closer
  None = none
  Structured = {}
  Window <- NeverIdle
  MaxAge = 1
  MaxPin = 0
  SignalRace = FALSE
PROPERTIES EnsureMeansAlive
