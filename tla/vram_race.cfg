SPECIFICATION Spec
CONSTANTS
  r1 = r1
  r2 = r2
  Request = {r1, r2}
  Relauncher = relauncher
  Call <- OneTenant
  Settings <- NoIdle
  BusyCall <- TwoAny
  BusySettings <- NoIdle
  Watcher = watcher
  None = none
INVARIANTS DiffusionNeverShares
