SPECIFICATION Spec
CONSTANTS
  Name = {a, b, c}
  PageSlots = 2
  MaxSlots = 5
  MaxFail = 2
INVARIANTS
  ListedOnce
  ListedAll
PROPERTY
  ListEnds
