---------------------------- MODULE MCChunkStore ----------------------------
(***************************************************************************)
(* Instances of ChunkStore for TLC.  Two chunks share a bucket and one of  *)
(* them crosses a block boundary, so that headers are aligned, chains have *)
(* two links and data is copied in two pieces.                             *)
(***************************************************************************)
EXTENDS ChunkStoreDedup, TLC

MCChunk == {"x", "y", "z"}
MCHashOf == [c \in MCChunk |-> CASE c = "x" -> 1 [] c = "y" -> 3 [] c = "z" -> 2]
MCSizeOf == [c \in MCChunk |-> CASE c = "x" -> 1 [] c = "y" -> 3 [] c = "z" -> 2]

\* Files of one chunker: an empty file, repeated chunks, and shared ones.
OneFile == {"e", "f", "g", "h"}
OneFileChunks ==
  [f \in OneFile |-> CASE f = "e" -> <<>>
                       [] f = "f" -> <<"x", "y">>
                       [] f = "g" -> <<"y", "z", "x">>
                       [] f = "h" -> <<"z", "z">>]

\* Files of two chunkers.
TwoFile == {"f", "g"}
TwoFileChunks == [f \in TwoFile |-> IF f = "f" THEN <<"x", "y">> ELSE <<"y", "x">>]

\* Three files for two chunkers with a mount between them.
RemountFile == {"f", "g", "h"}
RemountFileChunks ==
  [f \in RemountFile |-> CASE f = "f" -> <<"x">>
                           [] f = "g" -> <<"y">>
                           [] f = "h" -> <<"z">>]

=============================================================================
