SPECIFICATION Spec
CONSTANTS
  m1 = m1
  m2 = m2
  Model = {m1, m2}
  Request = {r1, r2}
  Proc = {p1, p2}
  Unloader = unloader
  Watcher = watcher
  Closer = closer
  None = none
  Structured = {m1, m2}
  Window <- OneTickBoth
  MaxAge = 1
  MaxPin = 0
  SignalRace = FALSE
SYMMETRY Symmetry
INVARIANTS TypeOK OneServer NoStrayProcess FilesMatch ManagerInv
PROPERTIES EnsureDelivers EventsInOrder ImplementsSlot
