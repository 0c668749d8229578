\* One chunker at a time, several mounts.
CONSTANTS
  Chunker = {p1}
  File <- OneFile
  Chunk <- MCChunk
  FileChunks <- OneFileChunks
  HashOf <- MCHashOf
  SizeOf <- MCSizeOf
  NBuckets = 2
  HeadSize = 2
  BlockSize = 4
  HeapBase = 8
  MaxBrk = 24
  MaxMounts = 3
SPECIFICATION Spec
INVARIANTS TypeOK
PROPERTIES ChunksImmutable ImplementsDedup
CHECK_DEADLOCK FALSE
