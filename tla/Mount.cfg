SPECIFICATION Spec
CONSTANTS
  Zone = {5, 6}
  Half = 4
  HeapBase = 10
  MaxBrk = 15
  Size = {1, 2}
INVARIANTS
  TypeOK
  ChunksKept
  BootKept
  EsbSound
PROPERTY
  EsbOnce
