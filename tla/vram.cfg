SPECIFICATION FairSpec
CONSTANTS
  r1 = r1
  r2 = r2
  Request = {r1, r2}
  Relauncher = relauncher
  Call <- OneTenant
  Settings <- Configurations
  BusyCall <- TwoEvicting
  BusySettings <- ChatIdle
  Watcher = watcher
  None = none
INVARIANTS TypeOK TenantsExcluded BigExcludesAudio
PROPERTIES EveryCallEnds
