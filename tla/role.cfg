SPECIFICATION Spec
CONSTANTS
  plain = plain
  rendered = rendered
  Model = {plain, rendered}
  Request = {r1, r2, r3}
  Proc = {s1, s2}
  Unloader = unloader
  Watcher = watcher
  Closer = closer
  None = None
  Structured = {rendered}
  Window = 1
  MaxAge = 1
  MaxPin = 1
SYMMETRY Symmetry
INVARIANTS TypeOK OneRoleServer RoleFilesMatch
PROPERTIES ImplementsSlot
