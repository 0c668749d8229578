\* Bits 1 to 5 of the zone map are zones of the mount, the first two in use;
\* bit 6 is cut off and bit 7 stands for nothing.
CONSTANTS
  Task = {t1, t2}
  BitsPerBlock = 4
  ZmapBlocks = 2
  ImapBlocks = 2
  FirstDataZone = 3
  NZones = 8
  DiskZones = 9
  NInodes = 4
SPECIFICATION Spec
SYMMETRY TaskSymmetry
INVARIANTS ZoneMapExact FreeCountBounds
PROPERTIES EnospcHonest InodeKept
