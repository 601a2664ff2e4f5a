SPECIFICATION FairSpec
CONSTANTS
  m1 = m1
  m2 = m2
  Model = {m1, m2}
  Request = {r1, r2}
  Proc = {p1}
  Unloader = unloader
  Watcher = watcher
  Closer = closer
  None = none
  Structured = {}
  Window <- OneTickOrNever
  MaxAge = 1
  MaxPin = 1
  SignalRace = TRUE
PROPERTIES EveryCallerIsAnswered IdleModelIsUnloaded ShutdownEnds
