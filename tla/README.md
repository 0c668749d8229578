# A TLA+ development for cominix-fs

cominix-fs is a Linux kernel module: a copy of minix-fs to which deduplication
was added. The front of the disk is an ordinary minix file system. The back,
from 40 MB on, is a *chunk area*: a 32 KB hash table and behind it a heap of
chunks. A path written to a proc entry makes the module cut that file into
chunks, store the new ones in the heap, put a list of (location, size) pairs
where the file's data was, and free the zones. From then on the file is
read-only and is read through the list.

This directory holds TLA+ modules of that program, TLC configurations that
check them on small instances, and TLAPS proofs of the results that matter
most. Source paths below are relative to the directory of the kernel module.

## 1. Inventory

| Component | Source | State | Operations | Module |
|---|---|---|---|---|
| Chunk heap and hash table | `chunk_handler.c`, `chunk_handler.h` | break in memory (`heap_brk`), break in the extra super block, buckets, chunk headers and data | search, allocate, publish, copy into storage, read | `ChunkStore` |
| Chunker | `file.c` (`cminix_proc_write`, `chunk_and_replace`) | position in the file, list head/end/length, inode fields | one chunk per turn, then free the zones and switch the inode | `FileChunking`; `ChunkStore`, `ChunkList`, `BlockTree` |
| Content-defined chunking | `cdc.h`, `gear_table.c` | none | size of the next chunk | `ChunkList` |
| Chunk list | `linked_list.h` | blocks of entries, linked | append, search | `ChunkList` |
| Read of a chunked file | `file.c`, `chunk_handler.c` | file position | `chunked_file_read`, `chunk_copy_into_buffer` | `ChunkList` (list), `ChunkStore` (bytes) |
| Bitmaps | `bitmap.c` | zone map, inode map, inode table | new/free block, new/free inode, count of free blocks | `Bitmap` |
| Block tree | `itree_common.c`, `itree_v2.c` | ten pointers of the inode, indirect blocks | `get_block`, `truncate`, `nblocks` | `BlockTree` |
| Inodes | `inode.c` | inode fields, inode operations | iget, write, evict, truncate, `set_inode`, `getattr` | `FileChunking`, `Namei`, `Bitmap`, `BlockTree` |
| Mount, super block | `inode.c`, `cominix_fs.h` | super block with its pads, extra super block, `heap_brk` | fill, put, remount | `Mount`; initial states of the others |
| Directories | `dir.c` | slots in pages, `ctx->pos` of a list | find, add, delete, set, make empty, is empty, list | `Directory`, `Readdir` |
| Names | `namei.c` | link counts, which inode a name has | lookup, mknod, create, symlink, tmpfile, link, mkdir, unlink, rmdir, rename | `Namei`, `NameiProofs` |
| MD5 wrapper | `md5_wrapper.h` | none | hash a buffer | not modelled |

How they interact. A chunker holds the inode lock of *its* file and nothing
else, so two chunkers share the heap and the table; the only lock there is
`brk_lock` around the increase of the break (`chunk_edge_write_lock` keeps
two copies into one buffer apart and orders nothing else). The list blocks,
the branches of the block tree and the extra super block all come from the
zone bitmap, under `bitmap_lock`. The page cache calls `get_block` without
the inode lock when it reads, and keeps pages mapped to zones. The VFS calls
`namei.c` with the directories locked, from dentries that an earlier lookup
filled. Most failures in the chunking code are `BUG()`:
the task is killed and keeps every lock it holds, and its open file keeps the
file system mounted (readme.md, "Remaining issues").

What is hard to test here:

* two chunkers in the chunk area, where every word is read and written without
  a lock: the bucket, the header, the break that goes to the disk;
* what a *second* mount finds after two chunkers of the first;
* `BUG()` with a lock held, or with a chunk in the table that nobody will finish;
* a reader that maps a block while `truncate` takes the tree apart;
* a failed read or a failed allocation in the middle of a tree operation;
* a file that is open, cached, dirty or under writeback while its zones are freed
  and its inode is switched, and a reader that is between its look at `i_size`
  and the disk at that moment;
* an operation on names of which one step fails, before or after its change,
  and the next operation from the dentries it left behind;
* a mount that fails or is killed half-way, or finds no zone for the extra super
  block;
* boundaries: a header at the end of a block, a full list block, an empty
  list, the first block of every subtree, the tail of the bitmap.

`PROJECT.json` lists each of these at its line, with the properties aimed at it.

## 2. Modules

### ChunkStore

The chunk area with any number of chunkers. The heap is an array `mem` of cells
from `HeapBase` to `MaxBrk`; a cell is a header word or one byte of a chunk's
content, so overlapping or half-written chunks are visible as such. A header is
`HeadSize` cells, of which the last is `next`; the length, reference count and
flags that share it are never read back by the code.

One action is one access to shared state:

| Action | Code |
|---|---|
| `Begin`, `Append_`, `Finish`, `ReadError`, `NoListBlock` | `cminix_proc_write`, the loop of `chunk_and_replace`, its early returns and its BUG |
| `SearchTable`, `SearchHash`, `SearchNext` | `chunk_search_hashtable`: the bucket, `chunk->hash`, `chunk->next` |
| `AllocLock`, `AllocBump`, `AllocBug` | `chunk_alloc` under `brk_lock`; the BUG keeps the lock |
| `ReadBrk`, `UpdateBrkOnDisk` | the argument `*brk` read after the unlock, and the store to the extra super block |
| `FillReadEntry`, `FillPublish` | `chunk_fill_hashtable`: `next = *entry`, `*entry = fresh` |
| `WriteHash`, `WriteNext`, `WriteData` | `copy_chunk_into_storage`; the two parts of the header become visible in either order, the data one block at a time |
| `NoBlock` | a failed `sb_bread` at any of these: the `BUG`s of `load_blockoff` and `get_next_block`, the NULL in `update_brk_on_disk` |
| `Remount` | `cminix_fill_extra_super`: the break comes from the disk |

A word that is not a location but is used as one (`AsLocation`) leads to any
place of the heap. `allocs` and `complete` are ghosts: what was handed out, and
what has been completely written.

`NoBlock` kills the chunker. Before `chunk_alloc` it is "dead" and leaves nothing
behind; after it, it is "torn": its chunk stays as far as it has got, and once it
is in the table, perhaps with its hash, other files are finished on it for ever
(`Unfinished`). A killed task keeps its file open, so there is no `Remount` after
one, and in `chunk_one` the only chunker takes no further step.

### ChunkList

One file, its cutting and its reading. The byte at offset `x` is `x`, the
location of a chunk is its offset plus one, so "the right bytes" is an equation.
`cdc_get_chunk_size(n)` is the *set* of sizes the two loops of `cdc.h` can
return when `n` bytes are left: where the fingerprint cuts is left open, so the
properties hold for every gear table and every mask. `Read` to `SearchNone`
follow `ll_search_left` entry by entry, with the tail call as `SearchBlock`.
`ReclaimHead` is the page reclaim that may drop the list head, which
`zero_out_block` clears and does not mark dirty, and `Stale` what the zone then
reads as. `SetSize` is `truncate(2)` of a chunked file, which only sets `i_size`.
`chain` is the list of the zones that were allocated for it, in order; the code
keeps only the first and the last of them.

### Bitmap

Both bitmaps as sets of bits in blocks. What runs under one hold of
`bitmap_lock` is one step: one block of the zone map for `cominix_new_block`
and `cominix_new_block_sb` (the same code twice), the whole search for
`cominix_new_inode`. `cominix_free_inode` is three steps: the checks, the
clearing of the inode table (`ClearInode`), the bit. Callers free only what they
own, which `BlockTree` checks for the block tree. `holders` and `inodes` are
ghosts: how many owners each zone has been given to, and which inodes are in use.

### BlockTree

The pointer tree of one regular file. `ptr` maps every cell (of the inode or of
a zone) to a zone, to nothing, or to `Junk`: the bytes of a block that is data
or belongs to another file. One task that holds the inode lock writes, fails,
truncates or chunks; readers run `get_branch` step by step without it; other
files take and give back zones. `alloc_branch` is one step per zone. `truncate`
is a stack of items in the order of its loops and of the recursion of
`free_branches`: clear a cell, descend, free a zone, each a step, because only
`find_shared` and `splice_branch` hold `pointers_lock`. Any `sb_bread` may fail,
those of the writer `MaxErrors` times. Sizes are whole blocks, so `block_truncate_page`, which
clears the rest of the last block, has nothing to do. `FIBMAP` lookups, which
run without the page lock, are left out.

### DedupStore and ChunkStoreDedup

`DedupStore` is what deduplication promises: a content is stored when there is
no copy of it, a file is switched when all its contents are stored, and what a
file reads as never changes. `ChunkStoreDedup` maps `ChunkStore` to it: `copies`
counts the completely written chunks of a content, `switched` are the chunked
inodes, and `reads` is what the bytes of the heap are when they are read through
the list of a chunked inode. Stuttering is everything else: searching, allocating,
publishing, a half-written chunk, a read error, a remount.

### FileChunking

One file while it is chunked, with what `ChunkStore` leaves out: tasks that have
the file open with the file operations of the time they opened it, its pages in
the page cache with the zone each is mapped to, their writeback, and other files
that take zones. The writer holds the inode lock, readers and writeback do not.
What takes time is in steps:

| Action | Code |
|---|---|
| `ReadBegin` | `filemap_read` has compared the offset with `i_size` and put a locked page into the cache |
| `ReadBehind` | `block_read_full_folio` finds the page behind the `i_size` of that moment and fills it with zeros |
| `ReadHole`, `ReadMap` | or it finds it in front of it, and calls `cominix_get_block` some time later |
| `ReadEnd` | the device has read the zone, whoever owns it by then |
| `WritebackPick`, `WritebackSend`, `WritebackEnd` | `mpage_writepages` clears the dirty bit, looks at `i_size` and sends the page, and the device writes it |
| `Read`, `AppendChunk` | the loop of `chunk_and_replace`: a `kernel_read`, which may come back short, and `ll_append` |
| `CutSizeToZero`, `Truncate`, `SizeBack`, `SwitchInode`, `SetZones`, `SetInode` | the switch, one line after the other |
| `Oops` | a task with old file operations meets `empty_aops` |
| `Evict` | the inode leaves memory and `cominix_iget` reads it again (`set_inode`), or it ends when it has no name |

`fill` is the lock of a page that is being read, with the zone it is read from,
and `wb` how far its writeback has come. A new writeback cannot begin with
`empty_aops`, but one that was begun before goes on with the pages behind, so
`WritebackPick` has no guard on the operations of the inode. The chunker's own
read of a page is one step, since it holds the inode lock and neither the size
nor the zones change while it reads. `truncate` is one step too; `BlockTree`
takes it apart. A page is one block, and `i_data` has a word for each page: words
1, 2 and 3 of the inode (pages 2, 3 and 4) get the head of the list, its length
and its end. Word 9 is -1 for the pages below the triple indirect block
(`Triple`), of which the file of the run has none; the proofs have any. Ghosts
say what the switch may spoil: `late`, the cached pages whose read met the
`i_size` of 0 or the disk after the zones were freed, and `spilled`, the pages
that were dirty or under writeback when they were freed.

### Directory, Readdir, Namei

`Directory` has no state: a directory is a sequence of slots, and the functions
of `dir.c` are operators on it. A page that cannot be read is passed over by
searches and stops an insertion, as in the code. A change fails in
`cominix_prepare_chunk`, and is not made, or in `cominix_handle_dirsync`, and is.

`Readdir` lists a directory in several calls, of which only `ctx->pos` connects
one with the next, while other tasks add and remove entries.

`Namei` has link counts, directories and dentries. One operation is one step,
since the VFS holds the locks; one of the calls it makes may fail (`Fault`), and
what the operation does after that is what its error path does. A dentry that
agrees with the directory makes no difference, so `dcache` keeps the others: a
lookup that passed over a page, or what a failed operation leaves. `torn` is a
ghost: the inodes of operations that changed an entry and then failed, or that a
dentry and the entry found (`About`) disagree on, for which nothing is claimed,
and the directories they are later moved or removed in. An operation that fails
before it changes an entry tears nothing: it must leave the counts as they were.
`lost` is another ghost: the inodes that a rename found under their old name and
left without any. The root inode stays in memory as long as the file system is
mounted, so `Evict` is for the others.

### Mount

The super block with the two pads, the extra super block, and the break in
memory; a chunk is an extent of the heap. `MountFails` is every error path of
`cominix_fill_super`, and the value it returns decides whether the VFS goes on
without a root; `Mount` is the good path with `cminix_alloc_extra_super`, also
when that finds no zone. `MountKilled` is a `BUG` on a block that cannot be read:
the extra super block of an earlier mount, the zone of a new one, or a block of
the hash table that is being cleared. The pads may then lead to a zone that was
never written; the zones of a new image hold zeros, so the next mount has a
break, a table and a number of zones of 0 (`Zeros`): no zone can be taken, and a
chunker dies of a division by 0. `StoreKilled` is that, or the full heap in
`chunk_alloc`; the killed chunker keeps its file open, and nothing but `Reboot`
ends the mount ("stuck"). Dirty blocks are taken to be on the disk by then, since
crashes are not modelled. Zones come and go, so
that the first mount may find the disk full and a later one not. Blocks are 1024
bytes, the size `mkfs.minix -3` gives them, so the buffer of the super block
stays the one that `sb_bread` returned when `sb_set_blocksize` is called again;
the disk is larger than 40 MB (`BUG_ON` in `cominix_fill_super`).

### How they fit together

`NoListBlock` of `ChunkStore` and `NoBlock` of `ChunkList` are the failure of
`Bitmap`'s search. `Finish` of `ChunkStore` is the `Chunk` ... `TruncateEnd` of
`BlockTree` and the `Switch` of `ChunkList`. `ChunkList` takes for granted that
a location leads to the bytes of its chunk, which is `ImplementsDedup`.
`BlockTree` and `ChunkList` take for granted that a zone is not given out twice,
which is `ZoneMapExact` of `Bitmap`, proved. `FileChunking` takes the chunks as
written and `truncate` as one step, which `ChunkStore` and `BlockTree` break down;
`Mount` takes a chunk as stored in one step and adds the mounts that fail or are
killed, of which `ChunkStore` has only the good ones. `Evict` of `Namei` frees the inode as
`FreeInode` ... `FreeInodeBit` of `Bitmap` do.

## 3. What the runs check

| Run | Bounds | Checks |
|---|---|---|
| `chunk_one` | 1 chunker, 4 files (one empty, repeated and shared chunks), 3 mounts, a heap that runs full, blocks that cannot be read | `TypeOK`, `ChunksImmutable`, `ImplementsDedup` |
| `chunk_two` | 2 fair chunkers, 2 files that share both chunks in opposite order, 1 mount, a heap that runs full, blocks that cannot be read | `HeapSound`, `TableSound`, `ReadBackUnlessUnfinished`, `ChunkingEnds` |
| `bitmap` | 2 tasks, maps of 2 blocks of 4 bits, one bit cut off by the mount, one behind the disk | `ZoneMapExact`, `FreeCountBounds`, `EnospcHonest`, `InodeKept` |
| `chunk_list` | files of 0 to 9 bytes, chunks of 2 to 4, two list blocks of two entries | `Tiled`, `ReadRight`, `BugOnlyBehind`, `ReaderEnds` |
| `tree_seq` | 1 direct pointer, indirect blocks of 2, 9 blocks, 5 zones, 1 failed read | `TreeSound`, `NoLeak`, `NoEmptyIndirect`, `TruncateComplete` |
| `tree_read` | 1 reader whose reads may fail, 5 blocks, 4 zones, no failed read of the writer | `BlocksReported`, `KeepsFront`, `ReaderRightUnlessChunked` |
| `namei` | 3 inodes, 2 names, directories of 4 slots in pages of 3, 1 failing step | `TypeOK`, `NamesUnique`, `TreeShape`, `RenameKeeps`, `LinksExact` |
| `readdir` | 3 names, 5 slots in pages of 2, 2 calls with an unreadable page, a fair lister | `ListedOnce`, `ListedAll`, `ListEnds` |
| `mount` | 2 zones in use or not, pads of 2 bits, a heap of 5 cells, any number of mounts, failed, killed or not | `TypeOK`, `ChunksKept`, `BootKept`, `EsbSound`, `EsbOnce` |
| `file_chunk` | 4 pages, 6 zones, chunks of 2 pages, list blocks of 1 entry, 1 other task that reads pages 1, 3 and 4 and writes page 4 once | `SwitchedRight`, `CachedRight`, `ForeignKept`, `ZonesOwned`, `BufferFits` |

In words:

* `HeapSound`: room handed out lies in the chunk area, is never handed out
  twice, and a header never straddles a block. `ChunksImmutable`: no cell of a
  complete chunk changes. `TableSound`: table, chains and searches name only
  chunks of their bucket. `ImplementsDedup`: with one chunker at a time, common
  content is in the heap once, a file is switched only when its chunks are
  there, and it reads the same before, afterwards and after a remount. With two
  chunkers in one mount `HeapSound` and `TableSound` hold, and a file can read
  back wrong in two cases only (`ReadBackUnlessUnfinished`): while one of its
  chunks is still being copied by the other chunker, and for good when that one
  was killed in the middle of the copy.
* `ChunkingEnds`: a chunking ends, is killed, or waits for a lock held by a dead
  task; no chain is a cycle.
* `ZoneMapExact`, `EnospcHonest`, `InodeKept`: the bitmap says who owns what,
  a failed search is right to fail, and an inode in use is never cleared on
  the disk although its number may be reused. `FreeCountBounds`: `statfs` counts
  every zone that can be given out, and besides them only bits that stand for no
  zone of the mount.
* `Tiled`, `ReadRight`, `BugOnlyBehind`, `ReaderEnds`: the entries of the list,
  read block by block, tile the file, any read at any offset returns the right bytes and at least one, the reader's
  BUG needs a raised size, and a reader gets to the end.
* `TreeSound`, `NoLeak`, `NoEmptyIndirect`, `TruncateComplete`, `KeepsFront`,
  `ReaderRightUnlessChunked`, `BlocksReported`: at every step the tree points
  only to zones the file owns and to each once; failures leak nothing but what a
  failed read hides; truncate frees exactly what is behind the size; and a
  reader gets a zone that its block had during the call.

* `LinksExact`, `TreeShape`, `NamesUnique`, `RenameKeeps`: whatever step of an
  operation fails, link counts are the numbers of entries and directories form a
  tree, except for what `torn` names; a name is there twice only after a lookup
  that passed over an unreadable page; and a rename that fails anywhere leaves the
  file with a name.
* `ListedOnce`, `ListedAll`, `ListEnds`: an entry that is there all the time is
  returned exactly once, whatever happens around it; with unreadable pages it may
  be returned again, since `ctx->pos` falls behind, but is not missed, and the
  list still ends.
* `EsbSound`, `EsbOnce`, `ChunksKept`, `BootKept`: the extra super block belongs
  to nobody else, is found again by every mount and holds the break; chunks of an
  earlier mount are never written over and block 0 never written, unless a mount
  went on without an extra super block.
* `SwitchedRight`, `CachedRight`, `ForeignKept`, `ZonesOwned`, `BufferFits`: after
  the switch the list holds the last contents, those of dirty pages included.
  Cached pages stay right for tasks that had the file open, but not all of them:
  a page whose read began earlier and meets `i_size = 0` becomes zeros, and one
  that is read from the disk after the zones were freed, or through the words of
  the list, is what another file has there. Writeback reaches a zone of another
  file only with a page that was dirty, or already under writeback, when the
  zones were freed; nothing waits for either. Zones have one owner, and only list
  blocks are lost. The buffer of a chunk is overrun only when a `kernel_read`
  comes back short.

Every property has a mutant in `PROJECT.json`: a definition changed the way a
slip in the code would change it, for which TLC finds the property violated.

### Disagreements with the documentation

Runs that end in a violation show where the code does not do what a comment or
a readme says.

| Run | Property | What happens |
|---|---|---|
| `chunk_remount` | `ChunksImmutable` | the lower break reaches the extra super block last; the next mount writes over a chunk |
| `mount_refuse` | `Refused` | the bitmaps cannot be read or are too small; `ret` is still 0 from `cminix_fill_extra_super`, so the mount "succeeds" without a root |

Others are visible in the bounds and statements of the passing runs:

* With two chunkers `ImplementsDedup` fails twice over: both search, find nothing
  and store the same content; and a file is finished on a chunk that is in the
  table and not yet in the heap. `ReadBackUnlessUnfinished` is what remains:
  when the chunker that copies it is killed by a failed read, that file, and every
  later one with this content, reads wrong from then on.
* `FreeCountBounds` is not an equation: `statfs` counts bits that stand for no zone
  of the mount, because `cominix_fill_super` cuts `s_nzones` and
  `cominix_count_free_blocks` counts whole blocks of the map.
* `KeepsFront` is checked without read errors of the writer: `find_shared` ignores
  the error of `get_branch`, and when an indirect block on the shared path cannot
  be read the whole subtree is cut off, blocks in front of the size included.
  `KeptUnlessError` (section 4) says that nothing else takes such a block away.
* No property says that a file has no blocks behind its size: `truncate(2)` of a
  regular file sets `i_size` and does not call `cominix_truncate`.
* `LinksExact` and `TreeShape` except torn inodes: `cominix_handle_dirsync` reports
  an error when the entry is already in the directory, and the callers then take
  the link back. `NamesUnique` excepts directories in which a lookup passed over a
  page.
* `ForeignKept` excepts pages that were dirty or under writeback when the zones
  were freed: nothing flushes them, drops them or waits for them before.
* `CachedRight` excepts pages whose read met the switch: the inode lock keeps no
  reader out, and `chunk_and_replace` sets `i_size` to 0 for a moment.

Two more exceptions are in the statements of the properties. `ReadRight` speaks
of offsets in front of the end the file had when it was chunked: the list of a
chunked *empty* file is a head that `zero_out_block` cleared and did not mark
dirty, so when `i_size` is raised later a read may go through whatever the zone
held before. `ReaderRightUnlessChunked` leaves out the truncation inside
`chunk_and_replace`: no page is dropped before it and `free_branches` takes no
`pointers_lock`, so a reader that has just verified its chain may take its next
pointer from an indirect block that another file owns by then.

### Why the bounds are enough

They are chosen so that each boundary occurs. In the heap, blocks of 4 cells
with headers of 2 and chunks of 1, 2 and 3 force the alignment of a header and
a copy in two pieces; two of three chunks share one of two buckets, so chains
have two links; `MaxBrk` is small enough for the BUG to happen. In the list,
5 chunks of 9 bytes do not fit the 4 slots, so the last block fills up and
`NoBlock` happens. In the tree, one direct pointer and indirect blocks of two
put block 1 below an indirect block, 3 below a double and 7 below a triple one,
and 5 zones run out in the middle of a branch. In the bitmap, both maps have
two blocks and the zone map a cut-off tail. Two tasks suffice for each race: in every one
a task sees another's half-done work.

In `namei`, pages of 3 slots put the fourth slot on a page of its own, which can
fail to be read; 3 inodes are a root, a directory and a file or a second
directory in it, enough to move, replace and remove each. One fault is enough
for every single failing step; what it leaves behind is met by any number of
later operations. In `mount`, zones 5 and 6 have both halves of their number not 0.
The heap of 5 cells has room for two chunks of each size, and the break can
pass its end. In `file_chunk`, 4 pages are what it takes for words 1, 2 and 3,
and page 1 for the -1 of word 0. The list has one block for each chunk, so its
head and its end differ, and of the two zones that are free at first the second is
taken by an `AppendChunk`, when no other file was faster; after the switch other
files take the four that were freed. Pages 1, 3 and 4 can be in each phase of a read at
each line of the switch, and page 4 also in each phase of a writeback; they meet
the -1, the length and a zone of the list. Page 2 is read by the chunker only: it
is like page 4 to a reader. A second page to be written would add nothing to one,
since pages meet only in the zones of the file, which differ; the proofs have any
number of both.
Which zones the file has makes no difference.

Deadlock is not checked where the system may stop: all files chunked, every task
killed by a BUG, or every inode in use by something nobody can reach.

### Fairness

Liveness is checked under weak fairness of the tasks that have begun
(`FairSpec` of `ChunkStore`, `Reader` of `ChunkList`, the lister of `Readdir`): the kernel schedules every
runnable task, and nobody is obliged to begin a chunking. Waiting for `brk_lock`
needs no strong fairness, since the lock is held for two steps or for ever.
A reader in `ChunkList` goes on reading until it gets 0, as `cat` does.

## 4. What is proved

For all values of the constants that the `ASSUME`s of the modules allow. Each
proof module `XProofs` EXTENDS the module `X` (`ChunkStoreProofs` extends
`ChunkStoreDedup`, which has `ChunkStore` and the refinement mapping); lemmas
come before the theorems that cite them. Every safety property of a passing run
is the statement of a theorem.

| Module | Theorem | States | Needs |
|---|---|---|---|
| `ChunkStoreProofs` | `TypeCorrect` | `Spec => []TypeOK` | |
| | `HeapCorrect` | `Spec => []HeapSound` | `Undisturbed` |
| | `ChunksStay` | `Spec => ChunksImmutable` | `Undisturbed` |
| | `TableCorrect` | `Spec => []TableSound` | `Undisturbed` |
| | `ReadBack` | `Spec => []ReadBackUnlessUnfinished` | `Undisturbed` |
| | `DedupCorrect` | `Spec => ImplementsDedup` | `Sole` |
| `FileChunkingProofs` | `SwitchCorrect` | `Spec => []SwitchedRight` | |
| | `CacheCorrect` | `Spec => []CachedRight` | |
| | `WritebackCorrect` | `Spec => []ForeignKept` | |
| | `ZonesCorrect` | `Spec => []ZonesOwned` | |
| | `BufferCorrect` | `Spec => []BufferFits` | |
| `ChunkListProofs` | `ListTiles` | `Spec => []Tiled` | |
| | `ReadCorrect` | `Spec => []ReadRight` | |
| | `BugCorrect` | `Spec => []BugOnlyBehind` | |
| `MountProofs` | `MountTypes` | `Spec => []TypeOK` | |
| | `EsbCorrect` | `Spec => []EsbSound` | |
| | `ChunksCorrect` | `Spec => []ChunksKept` | |
| | `BootCorrect` | `Spec => []BootKept` | |
| | `EsbStays` | `Spec => EsbOnce` | |
| `BlockTreeProofs` | `TreeIsSound` | `Spec => []TreeSound` | |
| | `NothingLeaks` | `Spec => []NoLeak` | |
| | `NothingIsEmpty` | `Spec => []NoEmptyIndirect` | |
| | `TruncateCompletes` | `Spec => TruncateComplete` | |
| | `FrontIsKept` | `Spec => KeepsFront` | `MaxErrors = 0` |
| | `KeptUnlessError` | `Spec => [][CutAfterError \/ Kept]_vars` | |
| | `BlocksAreReported` | `Spec => []BlocksReported` | |
| | `ReaderIsRight` | `Spec => ReaderRightUnlessChunked` | |
| `BitmapProofs` | `ZoneMapCorrect` | `Spec => []ZoneMapExact` | |
| | `InodesKept` | `Spec => InodeKept` | |
| | `EnospcCorrect` | `Spec => EnospcHonest` | |
| | `FreeCountCorrect` | `Spec => []FreeCountBounds` | |
| `ReaddirProofs` | `ListedOnceCorrect` | `Spec => []ListedOnce` | |
| | `ListedAllCorrect` | `Spec => []ListedAll` | |
| `NameiProofs` | `TypeCorrect` | `Spec => []TypeOK` | |
| | `NamesUniqueCorrect` | `Spec => []NamesUnique` | |
| | `RenameKeepsCorrect` | `Spec => []RenameKeeps` | |
| | `LinksExactCorrect` | `Spec => []LinksExact` | |
| | `TreeShapeCorrect` | `Spec => []TreeShape` | |

`Undisturbed` says that there is one mount or one chunker. It is necessary:
`chunk_remount` is the counterexample without it. `Sole` says that there is one
chunker; two that look for the same content at the same time both store it, so
`DedupStore` is not what two of them implement. `KeepsFront` is false with a
failed read, and `KeptUnlessError` is what remains: `CutAfterError` is the step of
`find_shared` that goes on after one.

`BlockTree` assumes of its constants that `i_data` is not a zone, that no errno
of `get_block` (`ErrnoAssumption`) is the value of a pointer, and that `s_maxbytes`
is not behind the last block a path can be computed for. `DEPTH` is 4 as in the
code; the pointers in a block and in the inode may be any number.

**The heap.** `HeapSound` is not inductive: that a new chunk does not overlap an
old one needs that every chunk ends at or below the break, and that the break a
remount reads back is not lower than that. `HeapInv` has four parts:
`Exclusive` (the chunker between lock and unlock holds `brk_lock`), `BelowBreak`
(all allocated room is below `brk`), `Aligned` (a chunker about to raise the
break has moved it to where a header fits) and `Saved` (what will be in the extra
super block when all chunkers are idle is not below any chunk; here
`Undisturbed` is used). `Owned` says that every chunker in the middle of a fill
has a chunk of its own which is not complete. From `HeapInv` and `Owned` follows
that the writes of a fill miss every complete chunk: `ChunksStay`.

**The table.** `TableInv` adds `ZeroAbove` (heap cells above the break are still
zero, so a header that is published and not yet written ends its chain),
`Leads` (the next word of every allocated chunk is 0 or leads to a chunk of the
same bucket), `NextSound` (so does `metadata.next`) and `CursorSound` (so does
the place of a running search). This is why the unlocked read and write of a
bucket can lose a chunk but never leads a search astray.

**Reading back.** `ReadInv` says what is in storage: `Stored` (the bytes of a
complete chunk, and the part that a fill has written), `Hashed` (a hash word is
still zero or the right one, so a search that matches has found the content),
`Pending` (a chunk that is not complete is being filled by some chunker, or was
left by one that was killed) and `Listed` (every entry of a list names a chunk of
the content it stands for). A file whose entries all name complete chunks reads
right, and the others are what `ReadBackUnlessUnfinished` excepts. A killed
chunker takes no further step, so its exception lasts; the invariant says that
nothing else makes a file read wrong.

**The refinement.** `DedupCorrect` shows that every step of `ChunkStore` is a step
of `DedupStore` or leaves its variables alone. The last write of a fill is
`Store`, and it must be shown that the content is not there yet: that is
`OneCopy`, which needs that a search that failed has seen all of its bucket.
`ChainInv` is the reason: with one chunker the chain of a bucket descends in the
heap and leaves out no complete chunk, also over remounts, and `SearchSound` says
that whatever the search looks for is below the place it has come to. `Finish`
is the switch of a file, for which `FilesStored` gives that its contents are
stored.

**The switch of a file.** For a file of any number of pages and list blocks of any
number of entries. Which zones belong to the file depends on how far
`chunk_and_replace` has come, so `FileInv` is stated by phase: `PlainInv` before
the zones are freed (they are the file's own, differ, and hold what is neither
dirty nor under writeback), `AfterInv` afterwards (`i_data` holds exactly the words
written so far, and every page that is still dirty or under writeback was so when
the zones went). `PageInv` is about the steps of a page: one that is being read is
not in the cache yet, and one that is dirty or under writeback is, and is not
`late`.
`ListInv` and `ListedInv` are about the list blocks and what was read into chunks,
`GoneInv` about a removed file and `LoopInv` about the buffer. `CachedRight`,
`ForeignKept` and `ZonesOwned` are inductive beside it. A read that began before
the switch may end at any line of it; that it ends in `late` or with the right
bytes is what `FilledStep` shows.

**The list.** `Tiled` counts entries from 0, and entry `k` is in block
`k \div PerBlock` at index `k % PerBlock`; lemmas about `\div` and `%` show that
`ll_append` changes no other entry (`AppendHere`, `AppendNew`). `Linked` says that
the list has as many blocks as its entries need and that the next pointers lead
through them; `Searching` says that a search for a position of the file is in
front of an entry and has counted the bytes in front of it. Nothing is said of
what the last block holds behind the last entry: the proof shows that a search
for a position of the file never comes there, so the head that
`zero_out_block` does not mark dirty does no harm to it.

**The mount.** `MountInv` adds `NoEsb` (without an extra super block a mounted file
system runs with location 0), `BreakSound` (the break of the extra super block is
in the heap, or 0 when that block was never written, and then there are no
chunks) and `ChunksBelow` (all chunks end at or below that break, and there are
none before there is one), from which a new mount starts above every chunk.

**The block tree.** Three invariants are proved one on top of the other, each of
which TLC checked first. `IInv` is about the tree as a set of cells and the zones
they hold, never about paths, so that it needs no induction over the depth. It
says that there are a function `h` from zones to heights and a set `K` of zones
that truncate leaves, such that a pointer leads exactly one level down, to a zone
of the file that no other pointer leads to (`EdgesOK`); every zone of the file
has such a pointer, or is cut off and on the stack of truncate, in the branch that
`alloc_branch` is building or in what a failed read has hidden (`ClaimedOK`);
every indirect block that stays has a pointer that stays (`FilledOK`); the branch
being built is a path that nothing leads to yet (`NewOK`); a cell on the stack
is in a block that stays or is freed after it, and a zone on the stack is there
once (`CellsOK`, `TreesOK`); and what stays hangs together from the inode on
(`KeptOK`). `h` and `K` are needed because `find_shared` clears one pointer and
leaves the rest to later steps: between them there are zones without a pointer,
and blocks that will be freed still have pointers. `TreeSound`, `NoLeak` and
`NoEmptyIndirect` follow when the stack and the branch are empty or their zones
are counted.

`Limits` says what the stack stands for: every block mapped behind `i_size` has a
cell of its way on the stack (`BehindOK`), and no cell on the way to a block in front
of `i_size` is there (`FrontOK`). It rests on the order of paths (`PathOrder`: a later
block has a greater path) and on where `find_shared` cuts. From it follow
`TruncateCompletes`, `FrontIsKept` and `KeptUnlessError`.

`ReadersOK` says of each reader that the part of its chain that it has read was
the way to its block at some moment of the call, and that a chain it has verified
is still right when it takes the next pointer. `free_branches` does not take
`pointers_lock`, so what keeps a verified chain right is `FrontOK`: the cells of
a block in front of `i_size` are not on the stack, and the blocks of a chain that
is on it have lost their pointer under the lock, which the verification sees.

`BlocksAreReported` numbers the blocks and indirect blocks of each height from 0:
`PathTo` gives the path to a number, different numbers have different paths
(`PathToDiffers`), and number `u` of a height is in the file when the first block
below it is (`CountIs`), which is what rounding up counts.

**The bitmaps.** `ZoneMapExact` is inductive together with the types. `InodeKept`
needs that an inode which a task is releasing has its bit set and is in nobody
else's hands until the bit is cleared, which is why the order of the two halves
of `cominix_free_inode` matters. `FreeCountBounds` holds of every zone map: the
blocks that `count_free` looks at hold the bits of all zones (`CountedBits`), the
bits and the zones are as many (`FreeZones`), and the rest are bits of the map
that stand for no zone.

**The list of a directory.** `ScanAll` shows that the pages and `last_byte` come by
every slot exactly once, `PosMoves` that a call moves `ctx->pos` to the place where
it stops when every page is read, and never beyond it. The invariant is that what
is behind `ctx->pos` has not been returned yet (`NotYet`).

**Names.** `NameiInv` is inductive: `Types`; `Slotted` (the first two slots of a
directory are `.` and `..`, those behind them have other names, and no directory
names itself); `Single` (a directory that is not in `blind` has no name twice) and
`Dentry` (a negative dentry that is wrong is in a directory of `blind`). A name is
added under a negative dentry, so in a directory that is not in `blind` the search
of the whole directory finds none of that name (`Added`). For a rename, `Renamed`
is taken apart by the step it has come to: the old entry is deleted only when the
new entry names the inode, in another slot, and if it is deleted that one stays
(`RenameFound`, `RenameSound`). Nothing about the number of faults is used: any
number of steps may fail, also several in the history of one directory.

**Links.** `LinksExact` and `TreeShape` hold only together, and only with
`NameiInv`: a rmdir or a rename of a directory takes away the right number of
links because the tree says where its name and its `..` are. A directory is seen
as places (`at`): place `<<d, j>>` leads to the inode in slot `j` of `d` when
`d` is in the tree, and to 0 otherwise. `LinkInv` says that for each inode that
is not torn the places that lead to it are as many as its links (`Linked`), that
a directory other than the root hangs at one place and its `..` leads back
(`Hung`), that at most the `..` of a directory leads to one that was removed,
that a free inode has no links and only directories are in `dead` (`Ends`), and
that a dentry for an inode that is not torn agrees with an entry (`DentryTrue`).
The last is what ties the inode whose count an operation changes, which is that
of the dentry, to the entry it deletes, which it searches for. For each
operation a lemma states the places it changes, step by step of the calls that
may fail (`AddStep`, `RemovedAt`, `RenameAt`); an inode at none of them is
`Calm`. When the operation fails after a change, the others are torn:
`RenameTears` names them. When it succeeds, the changed places balance the
counts (`RenameFileSound`, `RenameNewSound`, `RenameOverSound` for a file, a
directory with a new name and one that replaces another). Wrapping is where
`MaxLinks` is needed: without the guards of `Link`, `Mkdir` and `Rename` a count
would pass `LinkWrap`.

### Only model-checked

* Liveness (`ChunkingEnds`, `ReaderEnds`, `ListEnds`): the proof system installed has no
  support for fairness and `ENABLED`.

## 5. What is not modelled

* MD5: the 64 bits kept of the digest tell chunks apart (`ChunkStoreAssumption`).
  The code compares nothing else, so a collision would make one file read as
  another; this is a property of the hash, not of the program's steps.
* The gear table and the masks: see `cdc_get_chunk_size`.
* Registering and leaving the module. (`init_cominix_fs` leaves the proc entry
  behind when `register_filesystem` fails; there is no state of a mount in it.)
* Names as strings: `namecompare` and the length of a name.
* Memory mapping: the file operations have no `mmap`.
* Crashes: the file system has no journal and orders no writes, so nothing is
  promised after one. A clean remount is modelled.
* The V1 inode format, other byte orders, statistics and messages.

## 6. Plan

The parts of the program that keep state are modelled, and every safety property
that the runs check is proved. What could be added:

1. A refinement for `BlockTree`: a partial map from blocks to zones, which `get_block`
   extends and truncate restricts. `KeepsFront`, `TruncateComplete` and
   `ReaderRightUnlessChunked` are what it would promise.
2. `DedupStore` for two chunkers, with a weaker promise: a content is stored at
   most once per chunker that looked for it before it was there.
3. The liveness properties, when the proof system has rules for fairness.
