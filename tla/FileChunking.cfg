SPECIFICATION Spec
CONSTANTS
  NP = 4
  Triple = {}
  Zone = {1, 2, 3, 4, 5, 6}
  CutSize <- MCCutSize
  PerBlock = 1
  Task = {t}
  Busy = {1, 3, 4}
  Versions <- MCVersions
INVARIANTS
  SwitchedRight
  CachedRight
  ForeignKept
  ZonesOwned
  BufferFits
CHECK_DEADLOCK FALSE
