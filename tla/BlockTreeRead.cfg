\* A reader beside the writer.
CONSTANTS
  Reader = {r1}
  Zone = {z1, z2, z3, z4}
  NoZone = NoZone
  Junk = Junk
  DIRECT = 1
  IndirCount = 2
  MaxBlocks = 5
  MaxWrite = 2
  WriteAt = {2, 3}
  NewSizes = {2}
  MaxErrors = 0
SPECIFICATION Spec
SYMMETRY ZoneSymmetry
INVARIANTS BlocksReported
PROPERTIES KeepsFront ReaderRightUnlessChunked
CHECK_DEADLOCK FALSE
