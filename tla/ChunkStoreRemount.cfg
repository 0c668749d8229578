\* Two chunkers, then a second mount from the break on the disk.
CONSTANTS
  Chunker = {p1, p2}
  File <- RemountFile
  Chunk <- MCChunk
  FileChunks <- RemountFileChunks
  HashOf <- MCHashOf
  SizeOf <- MCSizeOf
  NBuckets = 2
  HeadSize = 2
  BlockSize = 4
  HeapBase = 8
  MaxBrk = 26
  MaxMounts = 2
SPECIFICATION FairSpec
PROPERTIES ChunksImmutable
CHECK_DEADLOCK FALSE
