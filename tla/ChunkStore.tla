----------------------------- MODULE ChunkStore -----------------------------
(***************************************************************************)
(* The chunk area of a mounted cominix file system: the heap of chunks     *)
(* with its break, the hash table that finds a chunk by its hash, and the  *)
(* chunkers that fill both (chunk_handler.c, driven by chunk_and_replace   *)
(* of file.c).                                                             *)
(*                                                                         *)
(* A chunker is a task writing a path to /proc/fs/cominix/chunker.  It     *)
(* holds the inode lock of its file, but two chunkers of two files share   *)
(* the heap and the table, and only the increase of the break is under a   *)
(* lock.  Every shared word is therefore read and written in a step of its *)
(* own.  Memory is the buffer cache of the chunk area, one cell per byte   *)
(* that the model tells apart.                                             *)
(***************************************************************************)
EXTENDS Integers, Sequences, FiniteSets

CONSTANTS
  Chunker,     \* tasks inside cminix_proc_write
  File,        \* regular files
  Chunk,       \* chunk contents that content-defined chunking cuts out
  FileChunks,  \* the chunks of each file, in order
  HashOf,      \* the 64 bits of the MD5 digest that are kept
  SizeOf,      \* length of a chunk
  NBuckets,    \* hashtable_size / sizeof(blockoff_t)
  HeadSize,    \* sizeof(struct chunk_head)
  BlockSize,   \* sb->s_blocksize
  HeapBase,    \* hashtable + hashtable_size, the first break
  MaxBrk,      \* max_brk, the end of the disk
  MaxMounts    \* bound on the number of mounts

ASSUME ChunkStoreAssumption ==
  /\ Chunker # {} /\ File # {}
  /\ FileChunks \in [File -> Seq(Chunk)]
  /\ HashOf \in [Chunk -> Nat \ {0}]
  /\ \A c, d \in Chunk : HashOf[c] = HashOf[d] => c = d
  /\ SizeOf \in [Chunk -> Nat \ {0}]
  /\ NBuckets \in Nat \ {0}
  /\ HeadSize \in Nat /\ HeadSize >= 2
  /\ BlockSize \in Nat /\ BlockSize >= HeadSize
  /\ HeapBase \in Nat \ {0}
  /\ MaxBrk \in Nat /\ MaxBrk > HeapBase
  /\ MaxMounts \in Nat \ {0}

VARIABLES
  brk,       \* cominix_sb_info.heap_brk, in memory
  esbBrk,    \* heap_brk of the extra super block
  brkLock,   \* holder of brk_lock, {} when free
  table,     \* the hash table: location of the first chunk of each bucket
  mem,       \* the cells of the heap
  pc,        \* where each chunker is
  file,      \* the file it is chunking
  k,         \* index of the chunk it is working on
  at,        \* chunk_location of the search, then the location of the chunk
  nxt,       \* metadata.next
  snap,      \* the value of *brk passed to update_brk_on_disk
  done,      \* bytes of the chunk already copied into storage
  list,      \* the chunk_entry list built so far
  chunked,   \* files whose inode has been switched to chunked
  fileList,  \* the chunk_entry list a chunked inode points to
  mounts,    \* number of mounts so far
  \* Ghosts: what was handed out and what has been completely written.
  allocs,    \* [loc, c]: chunk_alloc returned loc for content c
  complete   \* those whose header and data are in storage

heapVars == <<brk, esbBrk, brkLock, mounts>>
chunkerVars == <<file, k, nxt, snap, done, list>>
fileVars == <<chunked, fileList>>
ghosts == <<allocs, complete>>
vars == <<brk, esbBrk, brkLock, table, mem, pc, file, k, at, nxt, snap, done,
          list, chunked, fileList, mounts, allocs, complete>>

-----------------------------------------------------------------------------
(* Addresses, cells and extents.                                           *)

Addr == HeapBase .. (MaxBrk - 1)
Bucket == 0 .. (NBuckets - 1)

\* A cell holds a header word or one byte of a chunk's content.
Word(n) == <<"word", n>>
Byte(c, i) == <<"byte", c, i>>
Cell == ({"word"} \X Nat) \cup ({"byte"} \X Chunk \X Nat)

block_no(off) == off \div BlockSize
hashtable_hash(h) == h % NBuckets

\* struct chunk_head: the hash (with length, refcount and flags, which are
\* never read back) fills all cells but the last, which holds next.
HashCells(loc) == loc .. (loc + HeadSize - 2)
NextCell(loc) == loc + HeadSize - 1

DataCell(loc, i) == loc + HeadSize + i

Alloc == [loc : Nat, c : Chunk]
Entry == [location : Nat, size : Nat]

End(a) == a.loc + HeadSize + SizeOf[a.c]
Extent(a) == a.loc .. (End(a) - 1)

\* The chunk that chunker p is working on and the bucket it hashes to.
Cur(p) == FileChunks[file[p]][k[p]]
BucketOf(c) == hashtable_hash(HashOf[c])

\* Start of the next chunk: a header never straddles a block boundary.
AlignHead(b) ==
  IF block_no(b) # block_no(b + HeadSize - 1)
  THEN (block_no(b) + 1) * BlockSize
  ELSE b

-----------------------------------------------------------------------------
(* After the first mount: cminix_alloc_extra_super has written the extra   *)
(* super block and cleared the hash table.  The image was made from        *)
(* /dev/zero (target diskimage of the Makefile), so the heap is zero.      *)

Init ==
  /\ brk = HeapBase
  /\ esbBrk = HeapBase
  /\ brkLock = {}
  /\ table = [b \in Bucket |-> 0]
  /\ mem = [x \in Addr |-> Word(0)]
  /\ pc = [p \in Chunker |-> "idle"]
  /\ file = [p \in Chunker |-> CHOOSE f \in File : TRUE]
  /\ k = [p \in Chunker |-> 1]
  /\ at = [p \in Chunker |-> 0]
  /\ nxt = [p \in Chunker |-> 0]
  /\ snap = [p \in Chunker |-> 0]
  /\ done = [p \in Chunker |-> 0]
  /\ list = [p \in Chunker |-> <<>>]
  /\ chunked = {}
  /\ fileList = [f \in File |-> <<>>]
  /\ mounts = 1
  /\ allocs = {}
  /\ complete = {}

-----------------------------------------------------------------------------
(* chunk_and_replace.                                                      *)

\* A write to the proc entry opens f, takes its inode lock and finds it not
\* chunked yet; the list head is allocated and f_pos reset.
Begin(p, f) ==
  /\ pc[p] = "idle"
  /\ f \notin chunked
  /\ \A q \in Chunker : pc[q] # "idle" => file[q] # f
  /\ pc' = [pc EXCEPT ![p] = "loop"]
  /\ file' = [file EXCEPT ![p] = f]
  /\ k' = [k EXCEPT ![p] = 1]
  /\ list' = [list EXCEPT ![p] = <<>>]
  /\ UNCHANGED <<heapVars, table, mem, at, nxt, snap, done, fileVars, ghosts>>

\* cominix_new_block_sb found no free zone for a list block, or the list block
\* cannot be read: BUG_ON in ll_alloc_new_block or a NULL pointer kills the
\* task, which keeps the inode lock.
NoListBlock(p) ==
  /\ pc[p] = "append" \/ (pc[p] = "loop" /\ k[p] = 1)
  /\ pc' = [pc EXCEPT ![p] = "dead"]
  /\ UNCHANGED <<heapVars, table, mem, chunkerVars, at, fileVars, ghosts>>

\* kernel_read returned an error: return -1, the file stays as it was and the
\* inode lock is dropped.
ReadError(p) ==
  /\ pc[p] = "loop"
  /\ k[p] <= Len(FileChunks[file[p]])
  /\ pc' = [pc EXCEPT ![p] = "idle"]
  /\ UNCHANGED <<heapVars, table, mem, chunkerVars, at, fileVars, ghosts>>

\* Mutant: the size of the entry is counted from the header on.
AppendMinusHead(p) ==
  /\ pc[p] = "append"
  /\ list' = [list EXCEPT ![p] =
        Append(@, [location |-> at[p], size |-> SizeOf[Cur(p)] - HeadSize])]
  /\ k' = [k EXCEPT ![p] = @ + 1]
  /\ pc' = [pc EXCEPT ![p] = "loop"]
  /\ UNCHANGED <<heapVars, table, mem, file, at, nxt, snap, done, fileVars,
                 ghosts>>

\* ll_append of the pair (location, size).
Append_(p) ==
  /\ pc[p] = "append"
  /\ list' = [list EXCEPT ![p] =
                Append(@, [location |-> at[p], size |-> SizeOf[Cur(p)]])]
  /\ k' = [k EXCEPT ![p] = @ + 1]
  /\ pc' = [pc EXCEPT ![p] = "loop"]
  /\ UNCHANGED <<heapVars, table, mem, file, at, nxt, snap, done, fileVars,
                 ghosts>>

\* End of file: the zones are released, the inode becomes chunked and points
\* to the list, and is written; the inode lock is dropped.
Finish(p) ==
  /\ pc[p] = "loop"
  /\ k[p] > Len(FileChunks[file[p]])
  /\ chunked' = chunked \cup {file[p]}
  /\ fileList' = [fileList EXCEPT ![file[p]] = list[p]]
  /\ pc' = [pc EXCEPT ![p] = "idle"]
  /\ UNCHANGED <<heapVars, table, mem, chunkerVars, at, ghosts>>

-----------------------------------------------------------------------------
(* chunk_search_hashtable.  It takes no lock.                              *)

\* The chunk is cut, read and hashed; then the bucket is loaded.
SearchTable(p) ==
  /\ pc[p] = "loop"
  /\ k[p] <= Len(FileChunks[file[p]])
  /\ LET first == table[BucketOf(Cur(p))] IN
       /\ at' = [at EXCEPT ![p] = first]
       /\ pc' = [pc EXCEPT ![p] = IF first = 0 THEN "alloc" ELSE "walk"]
  /\ UNCHANGED <<heapVars, table, mem, chunkerVars, fileVars, ghosts>>

\* chunk->hash == chunk_hash?
SearchHash(p) ==
  /\ pc[p] = "walk"
  /\ pc' = [pc EXCEPT ![p] = IF mem[at[p]] = Word(HashOf[Cur(p)])
                             THEN "append" ELSE "next"]
  /\ UNCHANGED <<heapVars, table, mem, chunkerVars, at, fileVars, ghosts>>

\* What the cell at x is when it is used as a location.  Bytes of a chunk, or
\* of a block outside the heap, lead to any place of the heap.
AsLocation(x) ==
  IF x \in Addr /\ mem[x][1] = "word" THEN {mem[x][2]}
  ELSE {0} \cup (HeapBase .. (MaxBrk - HeadSize))

\* chunk_location = chunk->next.
SearchNext(p) ==
  /\ pc[p] = "next"
  /\ \E n \in AsLocation(NextCell(at[p])) :
       /\ at' = [at EXCEPT ![p] = n]
       /\ pc' = [pc EXCEPT ![p] = IF n = 0 THEN "alloc" ELSE "walk"]
  /\ UNCHANGED <<heapVars, table, mem, chunkerVars, fileVars, ghosts>>

-----------------------------------------------------------------------------
(* chunk_alloc and update_brk_on_disk.                                     *)

\* Mutant: the break is aligned before the lock is waited for.
AllocLockNoWait(p) ==
  /\ pc[p] = "alloc"
  /\ brkLock' = {p}
  /\ brk' = AlignHead(brk)
  /\ pc' = [pc EXCEPT ![p] = "bump"]
  /\ UNCHANGED <<esbBrk, mounts, table, mem, chunkerVars, at, fileVars, ghosts>>

\* mutex_lock(&brk_lock), and the break is moved to where a header fits.
AllocLock(p) ==
  /\ pc[p] = "alloc"
  /\ brkLock = {}
  /\ brkLock' = {p}
  /\ brk' = AlignHead(brk)
  /\ pc' = [pc EXCEPT ![p] = "bump"]
  /\ UNCHANGED <<esbBrk, mounts, table, mem, chunkerVars, at, fileVars, ghosts>>

\* The break is raised over the chunk; the lock is released only when the
\* new break is below max_brk.
AllocBump(p) ==
  /\ pc[p] = "bump"
  /\ brk' = brk + HeadSize + SizeOf[Cur(p)]
  /\ brk' < MaxBrk
  /\ at' = [at EXCEPT ![p] = brk]
  /\ allocs' = allocs \cup {[loc |-> brk, c |-> Cur(p)]}
  /\ brkLock' = {}
  /\ pc' = [pc EXCEPT ![p] = "snap"]
  /\ UNCHANGED <<esbBrk, mounts, table, mem, chunkerVars, fileVars, complete>>

\* "Heap ran out of space. Giving up.": BUG() with brk_lock held and the
\* break already raised.
AllocBug(p) ==
  /\ pc[p] = "bump"
  /\ brk' = brk + HeadSize + SizeOf[Cur(p)]
  /\ brk' >= MaxBrk
  /\ pc' = [pc EXCEPT ![p] = "bug"]
  /\ UNCHANGED <<esbBrk, brkLock, mounts, table, mem, chunkerVars, at, fileVars,
                 ghosts>>

\* Mutant: the location is worked out from the break after the unlock.
ReadBrkLate(p) ==
  /\ pc[p] = "snap"
  /\ snap' = [snap EXCEPT ![p] = brk]
  /\ at' = [at EXCEPT ![p] = brk - HeadSize - SizeOf[Cur(p)]]
  /\ pc' = [pc EXCEPT ![p] = "esb"]
  /\ UNCHANGED <<heapVars, table, mem, file, k, nxt, done, list, fileVars,
                 ghosts>>

\* The argument *brk of update_brk_on_disk, read after the unlock.
ReadBrk(p) ==
  /\ pc[p] = "snap"
  /\ snap' = [snap EXCEPT ![p] = brk]
  /\ pc' = [pc EXCEPT ![p] = "esb"]
  /\ UNCHANGED <<heapVars, table, mem, file, k, at, nxt, done, list, fileVars,
                 ghosts>>

\* esb->heap_brk = new_brk.
UpdateBrkOnDisk(p) ==
  /\ pc[p] = "esb"
  /\ esbBrk' = snap[p]
  /\ pc' = [pc EXCEPT ![p] = "entry"]
  /\ UNCHANGED <<brk, brkLock, mounts, table, mem, chunkerVars, at, fileVars,
                 ghosts>>

-----------------------------------------------------------------------------
(* chunk_fill_hashtable and copy_chunk_into_storage.                       *)

\* Mutant: metadata->next keeps the 0 it was initialised with.
FillReadEntryForgotten(p) ==
  /\ pc[p] = "entry"
  /\ nxt' = [nxt EXCEPT ![p] = 0]
  /\ pc' = [pc EXCEPT ![p] = "publish"]
  /\ UNCHANGED <<heapVars, table, mem, file, k, at, snap, done, list, fileVars,
                 ghosts>>

\* Mutant: the entry is read after it was set to the new chunk.
FillReadEntryAfter(p) ==
  /\ pc[p] = "entry"
  /\ nxt' = [nxt EXCEPT ![p] = at[p]]
  /\ pc' = [pc EXCEPT ![p] = "publish"]
  /\ UNCHANGED <<heapVars, table, mem, file, k, at, snap, done, list, fileVars,
                 ghosts>>

\* metadata->next = *hash_table_entry.
FillReadEntry(p) ==
  /\ pc[p] = "entry"
  /\ nxt' = [nxt EXCEPT ![p] = table[BucketOf(Cur(p))]]
  /\ pc' = [pc EXCEPT ![p] = "publish"]
  /\ UNCHANGED <<heapVars, table, mem, file, k, at, snap, done, list, fileVars,
                 ghosts>>

\* *hash_table_entry = fresh_chunk: the chunk can be found from here on.
FillPublish(p) ==
  /\ pc[p] = "publish"
  /\ table' = [table EXCEPT ![BucketOf(Cur(p))] = at[p]]
  /\ pc' = [pc EXCEPT ![p] = "head"]
  /\ UNCHANGED <<heapVars, mem, chunkerVars, at, fileVars, ghosts>>

\* write_data_storage of the header: one memcpy, whose words a search that
\* runs at the same time may see in either order.
WriteHash(p) ==
  /\ pc[p] \in {"head", "linked"}
  /\ mem' = [x \in Addr |-> IF x \in HashCells(at[p])
                            THEN Word(HashOf[Cur(p)]) ELSE mem[x]]
  /\ pc' = [pc EXCEPT ![p] = IF @ = "head" THEN "hashed" ELSE "data"]
  /\ done' = [done EXCEPT ![p] = 0]
  /\ UNCHANGED <<heapVars, table, file, k, at, nxt, snap, list, fileVars, ghosts>>

\* Mutant: the chunk that was first in the bucket is linked to the new one.
WriteNextBackwards(p) ==
  /\ pc[p] \in {"head", "hashed"}
  /\ mem' = [mem EXCEPT ![NextCell(nxt[p])] = Word(at[p])]
  /\ pc' = [pc EXCEPT ![p] = IF @ = "head" THEN "linked" ELSE "data"]
  /\ done' = [done EXCEPT ![p] = 0]
  /\ UNCHANGED <<heapVars, table, file, k, at, nxt, snap, list, fileVars, ghosts>>

WriteNext(p) ==
  /\ pc[p] \in {"head", "hashed"}
  /\ mem' = [mem EXCEPT ![NextCell(at[p])] = Word(nxt[p])]
  /\ pc' = [pc EXCEPT ![p] = IF @ = "head" THEN "linked" ELSE "data"]
  /\ done' = [done EXCEPT ![p] = 0]
  /\ UNCHANGED <<heapVars, table, file, k, at, nxt, snap, list, fileVars, ghosts>>

\* write_data_storage of the data copies up to the end of a block at a time.
ToWrite(p) ==
  LET remaining == SizeOf[Cur(p)] - done[p]
      bytesLeft == BlockSize - (DataCell(at[p], done[p]) % BlockSize)
  IN IF remaining < bytesLeft THEN remaining ELSE bytesLeft

\* Mutant: cursor is not moved on to the next piece.
WriteDataStuckCursor(p) ==
  /\ pc[p] = "data"
  /\ LET from == DataCell(at[p], done[p])
         n == ToWrite(p)
     IN /\ mem' = [x \in Addr |-> IF x \in from .. (from + n - 1)
                                  THEN Byte(Cur(p), x - from)
                                  ELSE mem[x]]
        /\ done' = [done EXCEPT ![p] = @ + n]
        /\ IF done[p] + n = SizeOf[Cur(p)]
           THEN /\ pc' = [pc EXCEPT ![p] = "append"]
                /\ complete' = complete \cup {[loc |-> at[p], c |-> Cur(p)]}
           ELSE UNCHANGED <<pc, complete>>
  /\ UNCHANGED <<heapVars, table, file, k, at, nxt, snap, list, fileVars, allocs>>

WriteData(p) ==
  /\ pc[p] = "data"
  /\ LET from == DataCell(at[p], done[p])
         n == ToWrite(p)
     IN /\ mem' = [x \in Addr |-> IF x \in from .. (from + n - 1)
                                  THEN Byte(Cur(p), done[p] + x - from)
                                  ELSE mem[x]]
        /\ done' = [done EXCEPT ![p] = @ + n]
        /\ IF done[p] + n = SizeOf[Cur(p)]
           THEN /\ pc' = [pc EXCEPT ![p] = "append"]
                /\ complete' = complete \cup {[loc |-> at[p], c |-> Cur(p)]}
           ELSE UNCHANGED <<pc, complete>>
  /\ UNCHANGED <<heapVars, table, file, k, at, nxt, snap, list, fileVars, allocs>>

-----------------------------------------------------------------------------
\* sb_bread of a block of the chunk area, or load_block of the extra super
\* block, fails: BUG() of load_blockoff, BUG_ON of get_next_block or the NULL
\* pointer in update_brk_on_disk kills the task, which keeps the inode lock.
\* Killed after chunk_alloc it leaves its chunk as far as it has got, and from
\* "head" on that chunk is in the table for good.
NoBlock(p) ==
  /\ \/ /\ pc[p] = "walk" \/ (pc[p] = "loop" /\ k[p] <= Len(FileChunks[file[p]]))
        /\ pc' = [pc EXCEPT ![p] = "dead"]
     \/ /\ pc[p] \in {"esb", "entry", "head", "data"}
        /\ pc' = [pc EXCEPT ![p] = "torn"]
  /\ UNCHANGED <<heapVars, table, mem, chunkerVars, at, fileVars, ghosts>>

-----------------------------------------------------------------------------
\* umount and mount again: umount is refused while a task has a file open, and
\* a killed task never closes its file.  cminix_fill_extra_super reads the
\* break back from the extra super block.
Remount ==
  /\ mounts < MaxMounts
  /\ \A p \in Chunker : pc[p] = "idle"
  /\ mounts' = mounts + 1
  /\ brk' = esbBrk
  /\ UNCHANGED <<esbBrk, brkLock, table, mem, pc, chunkerVars, at, fileVars,
                 ghosts>>

Step(p) ==
  \/ NoListBlock(p) \/ NoBlock(p) \/ ReadError(p) \/ Append_(p) \/ Finish(p)
  \/ SearchTable(p) \/ SearchHash(p) \/ SearchNext(p)
  \/ AllocLock(p) \/ AllocBump(p) \/ AllocBug(p)
  \/ ReadBrk(p) \/ UpdateBrkOnDisk(p)
  \/ FillReadEntry(p) \/ FillPublish(p)
  \/ WriteHash(p) \/ WriteNext(p) \/ WriteData(p)

Next ==
  \/ \E p \in Chunker : Step(p) \/ \E f \in File : Begin(p, f)
  \/ Remount

Spec == Init /\ [][Next]_vars

\* The scheduler runs every runnable task, so a chunker that has begun keeps
\* going; nobody is obliged to begin.
FairSpec == Spec /\ \A p \in Chunker : WF_vars(Step(p))

-----------------------------------------------------------------------------
(* chunked_file_read: the bytes read through one chunk_entry.              *)
ReadsChunk(e, c) ==
  /\ e.size = SizeOf[c]
  /\ \A i \in 0 .. (e.size - 1) : mem[DataCell(e.location, i)] = Byte(c, i)

ReadsBack(f) ==
  /\ Len(fileList[f]) = Len(FileChunks[f])
  /\ \A i \in 1 .. Len(FileChunks[f]) :
       ReadsChunk(fileList[f][i], FileChunks[f][i])

-----------------------------------------------------------------------------
(* Properties.                                                             *)

PCs == {"idle", "loop", "walk", "next", "alloc", "bump", "bug", "snap", "esb",
        "entry", "publish", "head", "hashed", "linked", "data", "append",
        "dead", "torn"}

\* Chunkers that own a chunk they are still writing.
Filling == {"snap", "esb", "entry", "publish", "head", "hashed", "linked",
            "data"}

\* Those, and the chunkers that were killed while they did.
Unfinished == Filling \cup {"torn"}

\* Every variable stays in its type: the break, table and list words are
\* natural numbers, and the heap cells stay inside the chunk area.
TypeOK ==
  /\ brk \in Nat
  /\ esbBrk \in Nat
  /\ brkLock \in SUBSET Chunker
  /\ table \in [Bucket -> Nat]
  /\ mem \in [Addr -> Cell]
  /\ pc \in [Chunker -> PCs]
  /\ file \in [Chunker -> File]
  /\ k \in [Chunker -> Nat \ {0}]
  /\ at \in [Chunker -> Nat]
  /\ nxt \in [Chunker -> Nat]
  /\ snap \in [Chunker -> Nat]
  /\ done \in [Chunker -> Nat]
  /\ list \in [Chunker -> Seq(Entry)]
  /\ chunked \in SUBSET File
  /\ fileList \in [File -> Seq(Entry)]
  /\ mounts \in 1 .. MaxMounts
  /\ allocs \in SUBSET Alloc
  /\ complete \in SUBSET Alloc

\* chunk_alloc hands out room inside the chunk area, the room of two chunks
\* never overlaps, and no header straddles a block boundary, so a search can
\* read it through one buffer.
HeapSound ==
  /\ \A a \in allocs :
       /\ HeapBase <= a.loc
       /\ End(a) < MaxBrk
       /\ block_no(a.loc) = block_no(a.loc + HeadSize - 1)
  /\ \A a, b \in allocs : a # b => End(a) <= b.loc \/ End(b) <= a.loc

\* A chunk that has been written is never written again: no step changes a
\* cell of a completely written chunk.
ChunksImmutable ==
  [][\A a \in complete : \A x \in Extent(a) : mem'[x] = mem[x]]_vars

\* Every location that the table, the chain of a written chunk or a running
\* search names is a chunk of that bucket: no search leaves the heap.
InBucket(n, c) == \E a \in allocs : a.loc = n /\ BucketOf(a.c) = BucketOf(c)

TableSound ==
  /\ \A b \in Bucket :
       table[b] # 0 => \E a \in allocs : a.loc = table[b] /\ BucketOf(a.c) = b
  /\ \A a \in complete :
       LET n == mem[NextCell(a.loc)]
       IN n[1] = "word" /\ (n[2] # 0 => InBucket(n[2], a.c))
  /\ \A p \in Chunker :
       pc[p] \in {"walk", "next"} => InBucket(at[p], Cur(p))

\* A chunked file reads back as the bytes it had before it was chunked, unless
\* one of the chunks it shares was never finished: its chunker is still copying
\* it, or was killed while it did, and then the file stays wrong.
ReadBackUnlessUnfinished ==
  \A f \in chunked :
    \/ ReadsBack(f)
    \/ \E p \in Chunker, i \in DOMAIN fileList[f] :
         pc[p] \in Unfinished /\ at[p] = fileList[f][i].location

\* A chunker that has begun ends, is killed, or waits for brk_lock that a
\* killed chunker holds: no chain of the table is a cycle.
ChunkingEnds ==
  \A p \in Chunker :
    pc[p] # "idle" ~>
      \/ pc[p] \in {"idle", "dead", "torn", "bug"}
      \/ \E q \in Chunker : pc[q] = "bug"

=============================================================================
