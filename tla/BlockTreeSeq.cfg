\* The writer alone, with a read that may fail.
CONSTANTS
  Reader = {}
  Zone = {z1, z2, z3, z4, z5}
  NoZone = NoZone
  Junk = Junk
  DIRECT = 1
  IndirCount = 2
  MaxBlocks = 9
  MaxWrite = 2
  WriteAt = {2, 3, 7}
  NewSizes = {4, 8}
  MaxErrors = 1
SPECIFICATION Spec
SYMMETRY ZoneSymmetry
INVARIANTS TreeSound NoLeak NoEmptyIndirect
PROPERTIES TruncateComplete
CHECK_DEADLOCK FALSE
