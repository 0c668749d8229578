----------------------------- MODULE DedupStore -----------------------------
(***************************************************************************)
(* What deduplication promises, without a heap, a table or a list: every   *)
(* content is stored at most once, a file is switched over only when all   *)
(* of its chunks are stored, and no reader can tell that it was.           *)
(***************************************************************************)
EXTENDS Naturals, Sequences

CONSTANTS
  File,       \* regular files
  Chunk,      \* chunk contents
  FileChunks  \* the contents each file is cut into, in order

VARIABLES
  copies,     \* how often each content is in storage
  switched,   \* files that are read through storage
  reads       \* what a read of the whole file returns, chunk by chunk

vars == <<copies, switched, reads>>

Init ==
  /\ copies = [c \in Chunk |-> 0]
  /\ switched = {}
  /\ reads = FileChunks

\* A content that is not in storage is put there.
Store(c) ==
  /\ copies[c] = 0
  /\ copies' = [copies EXCEPT ![c] = 1]
  /\ UNCHANGED <<switched, reads>>

\* A file gives up its own blocks for the stored contents.
Switch(f) ==
  /\ f \notin switched
  /\ \A i \in DOMAIN FileChunks[f] : copies[FileChunks[f][i]] > 0
  /\ switched' = switched \cup {f}
  /\ UNCHANGED <<copies, reads>>

Next ==
  \/ \E c \in Chunk : Store(c)
  \/ \E f \in File : Switch(f)

Spec == Init /\ [][Next]_vars

=============================================================================
