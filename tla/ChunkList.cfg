\* Up to five chunks in blocks of two entries, two blocks; files up to nine bytes.
CONSTANTS
  MaxFile = 9
  MinSize = 2
  NormalSize = 3
  MaxSize = 4
  PerBlock = 2
  Block = {1, 2}
  Counts = {1, 3}
  NewSizes = {1, 10}
SPECIFICATION Spec
INVARIANTS Tiled ReadRight BugOnlyBehind
PROPERTIES ReaderEnds
CHECK_DEADLOCK FALSE
