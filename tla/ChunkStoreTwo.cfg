\* Two fair chunkers of two files that share their chunks, one mount.
CONSTANTS
  Chunker = {p1, p2}
  File <- TwoFile
  Chunk <- MCChunk
  FileChunks <- TwoFileChunks
  HashOf <- MCHashOf
  SizeOf <- MCSizeOf
  NBuckets = 2
  HeadSize = 2
  BlockSize = 4
  HeapBase = 8
  MaxBrk = 25
  MaxMounts = 1
SPECIFICATION FairSpec
INVARIANTS HeapSound TableSound ReadBackUnlessUnfinished
PROPERTIES ChunkingEnds
CHECK_DEADLOCK FALSE
