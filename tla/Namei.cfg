SPECIFICATION Spec
CONSTANTS
  Ino = {1, 2, 3}
  Name = {a, b}
  PageSlots = 3
  MaxSlots = 4
  MaxLinks = 4
  LinkWrap = 8
  MaxFaults = 1
SYMMETRY Symmetry
INVARIANTS
  TypeOK
  NamesUnique
  TreeShape
  RenameKeeps
  LinksExact
CHECK_DEADLOCK FALSE
