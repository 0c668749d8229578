--------------------------- MODULE ChunkStoreDedup ---------------------------
(***************************************************************************)
(* The chunk area implements DedupStore.  A content is stored when its     *)
(* last byte has been copied into the heap; a file reads as it is until    *)
(* its inode is switched, and from then on as the bytes of the heap that   *)
(* the entries of its list lead to.                                        *)
(***************************************************************************)
EXTENDS ChunkStore

\* What is read through one entry: a chunk, or bytes that are none.
EntryReads(e) ==
  IF \E c \in Chunk : ReadsChunk(e, c)
  THEN CHOOSE c \in Chunk : ReadsChunk(e, c)
  ELSE "no chunk"

FileReads(f) ==
  IF f \in chunked
  THEN [i \in DOMAIN fileList[f] |-> EntryReads(fileList[f][i])]
  ELSE FileChunks[f]

Dedup == INSTANCE DedupStore WITH
  copies <- [c \in Chunk |-> Cardinality({a \in complete : a.c = c})],
  switched <- chunked,
  reads <- [f \in File |-> FileReads(f)]

\* With one chunker at a time, every step of chunk_and_replace, of the search,
\* the allocation and the copying stores one new content, switches one file
\* whose contents are all stored, or is invisible: nothing is stored twice, and
\* a file reads the same before and after it is chunked and after a remount.
ImplementsDedup == Dedup!Spec

=============================================================================
