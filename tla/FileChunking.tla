---------------------------- MODULE FileChunking ----------------------------
(***************************************************************************)
(* How one file becomes a chunked file while it is in use (file.c and the  *)
(* inode operations of inode.c).                                           *)
(*                                                                         *)
(* The chunker holds the inode lock, which keeps writers out, but not      *)
(* readers, not the writeback of dirty pages and not other files, which    *)
(* take the zones that it frees.  The pages of the file stay in the page   *)
(* cache with the zones they were mapped to, and a task that had the file  *)
(* open keeps the file operations of that time.  A read of a page and its  *)
(* writeback take several steps, between which the chunker may go on.      *)
(*                                                                         *)
(* A page, a block and a zone have one size.  The first seven pages are    *)
(* found by the words 0 to 6 of the inode's i_data, the others through the *)
(* indirect blocks of the words 7 to 9, which BlockTree is about; here     *)
(* i_data leads from every page to its zone.  What is in the chunks is     *)
(* ChunkStore.                                                             *)
(***************************************************************************)
EXTENDS Integers, Sequences, FiniteSetsExt

CONSTANTS
  NP,        \* pages of the file
  Triple,    \* those found through the triple indirect block, i_data[9]
  Zone,      \* zone numbers
  CutSize,   \* length of the next chunk when the rest has that length
  PerBlock,  \* entries_per_block of the chunk list
  Task,      \* tasks that open the file
  Busy,      \* pages that the tasks read
  Versions   \* a page is written at most so often, the first time included

ASSUME FileChunkingAssumption ==
  /\ NP \in Nat \ {0} /\ PerBlock \in Nat \ {0}
  /\ Versions \in [1 .. NP -> Nat \ {0}] /\ Busy \subseteq 1 .. NP
  /\ Triple \subseteq 10 .. NP
  /\ IsFiniteSet(Zone) /\ Zone \subseteq Nat \ {0} /\ 1 .. NP \subseteq Zone
  /\ CutSize \in [1 .. NP -> 1 .. NP] /\ \A n \in 1 .. NP : CutSize[n] <= n

VARIABLES
  \* The inode in memory
  i_data,   \* zone of each page; -1 or the words of the list when chunked
  i_size,   \* in pages
  i_fop,    \* "plain" (with cominix_aops) or "chunked" (with empty_aops)
  list,     \* blocks of the chunk list
  head, end, ll_size,  \* its first and last block and its entries
  listed,   \* the pages that were read into chunks
  nlink,    \* 1, or 0 when the file has been removed
  \* Pages, zones, tasks
  cache,    \* page cache: value, zone and dirty bit, or NoPage
  fill,     \* the zone a page is being read from, Unmapped or 0
  wb,       \* the writeback of a page: "no", "picked" or "sent"
  disk,     \* contents of the zones
  used,     \* zones marked in the bitmap
  other,    \* those of them that belong to other files
  handle,   \* file operations of each task that has the file open
  \* The chunker
  pc,       \* the next line of chunk_and_replace
  f_pos, size, pos,   \* the file position, chunk_size and pos of the loop
  \* Ghosts
  data,     \* what the tasks have written: the contents of the file
  short,    \* some kernel_read returned less than it was asked for
  late,     \* pages read when i_size was 0 or the zones were freed
  spilled,  \* pages dirty or under writeback when the zones were freed
  dropped   \* a chunker gave up, or a chunked file was removed

chain == <<list, head, end, ll_size>>
inode == <<i_data, i_size, i_fop, chain, listed>>
pages == <<cache, fill, wb>>
loop == <<f_pos, size, pos>>
ghosts == <<data, short, late, spilled, dropped>>
vars == <<i_data, i_size, i_fop, list, head, end, ll_size, listed, nlink, cache,
          fill, wb, disk, used, other, handle, pc, f_pos, size, pos, data,
          short, late, spilled, dropped>>

Page == 1 .. NP
NoPage == [val |-> <<"none">>, zone |-> 0, dirty |-> FALSE]
Cached(p) == cache[p] # NoPage

\* Contents of a page or a zone.
Bytes(p, v) == <<"data", p, v>>
Zeros == <<"zeros">>
ListBlock == <<"list">>
Foreign == <<"other">>

Minus1 == -1      \* (u32)-1: no such block
ListWord == -2    \* ll_size, taken for a block number
Unmapped == -1    \* the page is locked, and get_block has not been called

FileZones == {i_data[p] : p \in Page} \cap Zone

\* The file is on the disk and not cached.  Which zones it has makes no
\* difference: page p is in zone p.
Init ==
  /\ i_data = [p \in Page |-> p] /\ used = Page
  /\ disk = [z \in Zone |-> IF z \in Page THEN Bytes(z, 1) ELSE Zeros]
  /\ i_size = NP /\ i_fop = "plain" /\ nlink = 1
  /\ list = {} /\ head = 0 /\ end = 0 /\ ll_size = 0
  /\ listed = <<>> /\ other = {}
  /\ cache = [p \in Page |-> NoPage]
  /\ fill = [p \in Page |-> 0] /\ wb = [p \in Page |-> "no"]
  /\ handle = [t \in Task |-> "none"]
  /\ pc = "idle" /\ f_pos = 0 /\ size = 0 /\ pos = 0
  /\ data = [p \in Page |-> Bytes(p, 1)]
  /\ short = FALSE /\ late = {} /\ spilled = {} /\ dropped = FALSE

-----------------------------------------------------------------------------
(* Reading and writing through the page cache.                             *)

Open(t) ==
  /\ handle[t] = "none" /\ nlink = 1
  /\ handle' = [handle EXCEPT ![t] = i_fop]
  /\ UNCHANGED <<inode, nlink, pages, disk, used, other, pc, loop, ghosts>>

Close(t) ==
  /\ handle[t] # "none"
  /\ handle' = [handle EXCEPT ![t] = "none"]
  /\ UNCHANGED <<inode, nlink, pages, disk, used, other, pc, loop, ghosts>>

\* generic_file_read_iter of a page that is not cached, which takes no lock of
\* the inode: filemap_read has compared the offset with i_size, and a page that
\* is to be read is put into the page cache locked.
ReadBegin(t, p) ==
  /\ p \in Busy /\ handle[t] = "plain" /\ i_fop = "plain"
  /\ ~Cached(p) /\ fill[p] = 0 /\ p <= i_size
  /\ fill' = [fill EXCEPT ![p] = Unmapped]
  /\ UNCHANGED <<inode, nlink, cache, wb, disk, used, other, handle, pc, loop,
                 ghosts>>

ZonesFreed == pc \in {"size", "flag", "zones", "ops"} \/ i_fop = "chunked"

\* The page is up to date and unlocked.
Filled(p, v, z, isLate) ==
  /\ cache' = [cache EXCEPT ![p] = [val |-> v, zone |-> z, dirty |-> FALSE]]
  /\ fill' = [fill EXCEPT ![p] = 0]
  /\ late' = IF isLate THEN late \cup {p} ELSE late
  /\ UNCHANGED <<inode, nlink, wb, disk, used, other, handle, pc, loop, data,
                 short, spilled, dropped>>

\* block_read_full_folio of a page that is now behind i_size: zeros.
ReadBehind(p) ==
  /\ fill[p] = Unmapped /\ p > i_size
  /\ Filled(p, Zeros, 0, TRUE)

\* block_read_full_folio after it has seen the size: cominix_get_block.  There is
\* no guard on i_size, for it may be less than it was then.  A page without a
\* zone is zeros, the word of ll_size is the number of a block of somebody, and
\* block -1 is an error, after which the page is not kept.
ReadHole(p) ==
  /\ fill[p] = Unmapped /\ i_data[p] \in {0, ListWord}
  /\ Filled(p, IF i_data[p] = 0 THEN Zeros ELSE Foreign, 0, ZonesFreed)

ReadMap(p) ==
  /\ fill[p] = Unmapped /\ i_data[p] \in Zone \cup {Minus1}
  /\ fill' = [fill EXCEPT ![p] = IF i_data[p] = Minus1 THEN 0 ELSE i_data[p]]
  /\ UNCHANGED <<inode, nlink, cache, wb, disk, used, other, handle, pc, loop,
                 ghosts>>

\* The device has read the zone.
ReadEnd(p) ==
  /\ fill[p] \in Zone
  /\ Filled(p, disk[fill[p]], fill[p], ZonesFreed)

\* The folio lock, which a write and the chunker's reads wait for.
Unlocked(p) == fill[p] = 0 /\ wb[p] # "picked"

Written(p) ==
  /\ data[p][3] < Versions[p]
  /\ data' = [data EXCEPT ![p] = Bytes(p, @[3] + 1)]
  /\ cache' = [cache EXCEPT ![p] =
                 [val   |-> data'[p],
                  zone  |-> IF Cached(p) THEN cache[p].zone ELSE i_data[p],
                  dirty |-> TRUE]]
  /\ UNCHANGED <<inode, nlink, fill, wb, disk, used, other, handle, pc, loop,
                 short, late, spilled, dropped>>

\* Mutant: the chunker does not hold the lock during the switch.
WritePageUnlocked(t, p) ==
  /\ handle[t] = "plain" /\ pc \in {"idle", "flag"} /\ i_fop = "plain"
  /\ Unlocked(p) /\ Written(p)

\* generic_file_write_iter, under the inode lock.
WritePage(t, p) ==
  /\ handle[t] = "plain" /\ pc = "idle" /\ i_fop = "plain"
  /\ Unlocked(p) /\ Written(p)

\* A task that opened the file before needs an address space operation that
\* empty_aops does not have, and dies.
Oops(t) ==
  /\ handle[t] = "plain" /\ i_fop = "chunked" /\ pc = "idle"
  /\ \E p \in Page : /\ Unlocked(p)
                     /\ ~Cached(p) \/ data[p][3] < Versions[p]
  /\ handle' = [handle EXCEPT ![t] = "none"]
  /\ UNCHANGED <<inode, nlink, pages, disk, used, other, pc, loop, ghosts>>

\* cominix_writepages: the dirty bit is cleared under the folio lock.  A
\* writeback that was begun before SetInode goes on with the next pages behind
\* it, so there is no guard on i_fop; one that begins with empty_aops finds no
\* writepages and takes no step.
WritebackPick(p) ==
  /\ cache[p].dirty /\ wb[p] = "no"
  /\ cache' = [cache EXCEPT ![p].dirty = FALSE]
  /\ wb' = [wb EXCEPT ![p] = "picked"]
  /\ UNCHANGED <<inode, nlink, fill, disk, used, other, handle, pc, loop, ghosts>>

\* Mutant: the last page is taken for one behind i_size.
in_file_last(p) == p < i_size

in_file(p) == p <= i_size

\* A page behind i_size is not written; any other is sent to the device.
WritebackSend(p) ==
  /\ wb[p] = "picked"
  /\ wb' = [wb EXCEPT ![p] = IF in_file(p) THEN "sent" ELSE "no"]
  /\ UNCHANGED <<inode, nlink, cache, fill, disk, used, other, handle, pc, loop,
                 ghosts>>

\* The device writes the page to the zone that it was mapped to.
WritebackEnd(p) ==
  /\ wb[p] = "sent"
  /\ disk' = [disk EXCEPT ![cache[p].zone] = cache[p].val]
  /\ wb' = [wb EXCEPT ![p] = "no"]
  /\ UNCHANGED <<inode, nlink, cache, fill, used, other, handle, pc, loop, ghosts>>

\* The kernel drops a clean page.
Reclaim(p) ==
  /\ Cached(p) /\ ~cache[p].dirty /\ wb[p] = "no"
  /\ cache' = [cache EXCEPT ![p] = NoPage]
  /\ late' = late \ {p}
  /\ UNCHANGED <<inode, nlink, fill, wb, disk, used, other, handle, pc, loop,
                 data, short, spilled, dropped>>

\* Another file takes a zone and writes it.
OtherTakes(z) ==
  /\ z \notin used
  /\ used' = used \cup {z} /\ other' = other \cup {z}
  /\ disk' = [disk EXCEPT ![z] = Foreign]
  /\ UNCHANGED <<inode, nlink, pages, handle, pc, loop, ghosts>>

-----------------------------------------------------------------------------
(* chunk_and_replace: the loop.                                            *)

\* ll_alloc_new_block and what clears the block; the caller has a free zone.
NewListBlock ==
  /\ end' = Min(Zone \ used)
  /\ list' = list \cup {end'} /\ used' = used \cup {end'}
  /\ disk' = [disk EXCEPT ![end'] = ListBlock]

\* cminix_proc_write takes the inode lock of a file that is not chunked.  The
\* first list block comes first; without a free zone BUG_ON ends the task, which
\* keeps the lock.
Begin ==
  /\ pc = "idle" /\ i_fop = "plain" /\ nlink = 1
  /\ f_pos' = 0 /\ pos' = 0 /\ size' = CutSize[i_size]
  /\ listed' = <<>> /\ ll_size' = 0
  /\ \/ used = Zone /\ pc' = "nozone" /\ UNCHANGED <<list, head, end, used, disk>>
     \/ used # Zone /\ pc' = "read" /\ NewListBlock /\ head' = end'
  /\ UNCHANGED <<i_data, i_size, i_fop, nlink, pages, other, handle, ghosts>>

\* kernel_read returns r pages, through the page cache.  Nothing can change the
\* size or the zones while the chunker reads, so its own read of a page is one
\* step; a page that another task is reading is waited for.
PagesRead(r) == (f_pos + 1) .. (f_pos + r)
FolioOf(p) ==
  IF Cached(p) THEN cache[p]
  ELSE [val |-> disk[i_data[p]], zone |-> i_data[p], dirty |-> FALSE]

\* Mutant: the page cache is bypassed.
kernel_read_disk(p) == disk[i_data[p]]

kernel_read(p) == FolioOf(p).val

\* One kernel_read of the loop.  It asks for chunk_size bytes also when a
\* part of the chunk has been read; when it returns more than the rest the
\* buffer is overrun, and the BUG_ON behind the loop ends the task.
Read(r) ==
  /\ pc = "read" /\ r <= size /\ f_pos + r <= i_size
  /\ \A p \in PagesRead(r) : fill[p] = 0
  /\ cache' = [p \in Page |-> IF p \in PagesRead(r) THEN FolioOf(p) ELSE cache[p]]
  /\ listed' = listed \o [j \in 1 .. r |-> kernel_read(f_pos + j)]
  /\ f_pos' = f_pos + r
  /\ short' = (short \/ (r < size /\ f_pos + r < i_size))
  /\ pos' = pos + r
  /\ pc' = IF pos' > size THEN "bug" ELSE IF pos' = size THEN "append" ELSE "read"
  /\ UNCHANGED <<i_data, i_size, i_fop, chain, nlink, fill, wb, disk, used,
                 other, handle, size, data, late, spilled, dropped>>

\* Mutant: pos is not set back for the next chunk.
next_pos_kept == pos

next_pos == 0

\* ll_append of the chunk, which allocates a block when the last one is full;
\* then the next turn of the loop, or its end.
AppendChunk ==
  /\ pc = "append"
  /\ IF ll_size # 0 /\ ll_size % PerBlock = 0
     THEN \/ used = Zone /\ pc' = "nozone" /\ UNCHANGED <<list, end, used, disk>>
          \/ used # Zone /\ NewListBlock
             /\ pc' = IF f_pos < i_size THEN "read" ELSE "cut"
     ELSE /\ pc' = IF f_pos < i_size THEN "read" ELSE "cut"
          /\ UNCHANGED <<list, end, used, disk>>
  /\ ll_size' = ll_size + 1
  /\ pos' = next_pos
  /\ size' = IF f_pos < i_size THEN CutSize[i_size - f_pos] ELSE size
  /\ UNCHANGED <<i_data, i_size, i_fop, head, listed, nlink, pages, other, handle,
                 f_pos, ghosts>>

\* kernel_read or cdc_get_chunk_size failed: return -1.  Nobody frees the
\* list.
ReadError ==
  /\ pc = "read"
  /\ pc' = "idle" /\ list' = {} /\ dropped' = TRUE
  /\ UNCHANGED <<i_data, i_size, i_fop, head, end, ll_size, listed, nlink, pages,
                 disk, used, other, handle, loop, data, short, late, spilled>>

-----------------------------------------------------------------------------
(* chunk_and_replace: the switch, one line after the other.                *)

\* i_data[0] and i_data[9] are -1.  They get that value together, and no other
\* word of the inode decides, so one of them does here.
inode_is_chunked == i_data[1] = Minus1

set_inode == IF inode_is_chunked THEN "chunked" ELSE "plain"

\* i_size = 0.
CutSizeToZero ==
  /\ pc = "cut" /\ pc' = "trunc" /\ i_size' = 0
  /\ UNCHANGED <<i_data, i_fop, chain, listed, nlink, pages, disk, used, other,
                 handle, loop, ghosts>>

\* Mutant: the list blocks are freed with the zones.
truncate_all == used \ (FileZones \cup list)

\* cominix_truncate: the bitmap without the zones of the file.
truncate == used \ FileZones

\* The zones are freed; the page cache stays as it is, and nothing waits for
\* pages that are being written.
Truncate ==
  /\ pc = "trunc" /\ pc' = "size"
  /\ used' = truncate
  /\ i_data' = [p \in Page |-> 0]
  /\ spilled' = {p \in Page : cache[p].dirty \/ wb[p] # "no"}
  /\ UNCHANGED <<i_size, i_fop, chain, listed, nlink, pages, disk, other, handle,
                 loop, data, short, late, dropped>>

\* i_size = fsize.
SizeBack ==
  /\ pc = "size" /\ pc' = "flag" /\ i_size' = f_pos
  /\ UNCHANGED <<i_data, i_fop, chain, listed, nlink, pages, disk, used, other,
                 handle, loop, ghosts>>

\* switch_inode_to_chunked: the words 0 and 9 are -1.
SwitchInode ==
  /\ pc = "flag" /\ pc' = "zones"
  /\ i_data' = [p \in Page |-> IF p \in {1} \cup Triple THEN Minus1 ELSE i_data[p]]
  /\ UNCHANGED <<i_size, i_fop, chain, listed, nlink, pages, disk, used, other,
                 handle, loop, ghosts>>

\* zones[1] = head, zones[2] = ll_size, zones[3] = end, and the inode is written;
\* if its block cannot be read BUG_ON ends the task here, with the lock held.
SetZones ==
  /\ pc = "zones" /\ pc' = "ops"
  /\ i_data' = [p \in Page |-> CASE p = 2 -> head
                                 [] p = 3 -> ListWord
                                 [] p = 4 -> end
                                 [] OTHER -> i_data[p]]
  /\ UNCHANGED <<i_size, i_fop, chain, listed, nlink, pages, disk, used, other,
                 handle, loop, ghosts>>

\* cominix_set_inode; the inode lock is dropped.
SetInode ==
  /\ pc = "ops" /\ pc' = "idle" /\ i_fop' = set_inode
  /\ UNCHANGED <<i_data, i_size, chain, listed, nlink, pages, disk, used, other,
                 handle, loop, ghosts>>

-----------------------------------------------------------------------------
(* The end of the inode.                                                   *)

Unlink ==
  /\ nlink = 1 /\ nlink' = 0
  /\ UNCHANGED <<inode, pages, disk, used, other, handle, pc, loop, ghosts>>

\* cominix_evict_inode: the pages go, when nobody reads or writes them.  A
\* removed file gives back its zones, a removed chunked file gives back nothing;
\* a file with a name is read anew by cominix_iget when it is opened again.
Evict ==
  /\ pc = "idle" /\ \A t \in Task : handle[t] = "none"
  /\ \A p \in Page : fill[p] = 0 /\ wb[p] = "no"
  /\ nlink = 1 /\ i_fop = "plain" => \A p \in Page : ~cache[p].dirty
  /\ cache' = [p \in Page |-> NoPage] /\ late' = {}
  /\ IF nlink = 1
     THEN i_fop' = set_inode /\ UNCHANGED <<i_data, list, used, pc, dropped>>
     ELSE /\ used' = IF inode_is_chunked THEN used ELSE truncate
          /\ dropped' = (dropped \/ inode_is_chunked)
          /\ i_data' = [p \in Page |-> 0] /\ list' = {} /\ pc' = "gone"
          /\ i_fop' = i_fop
  /\ UNCHANGED <<i_size, head, end, ll_size, listed, nlink, fill, wb, disk, other,
                 handle, loop, data, short, spilled>>

Chunker ==
  \/ Begin \/ ReadError \/ (\E r \in Page : Read(r)) \/ AppendChunk
  \/ CutSizeToZero \/ Truncate \/ SizeBack \/ SwitchInode \/ SetZones \/ SetInode

Next ==
  \/ Chunker
  \/ \E t \in Task : \/ Open(t) \/ Close(t) \/ Oops(t)
                      \/ \E p \in Page : ReadBegin(t, p) \/ WritePage(t, p)
  \/ \E p \in Page : \/ ReadBehind(p) \/ ReadHole(p) \/ ReadMap(p) \/ ReadEnd(p)
                     \/ WritebackPick(p) \/ WritebackSend(p) \/ WritebackEnd(p)
                     \/ Reclaim(p)
  \/ \E z \in Zone : OtherTakes(z)
  \/ Unlink \/ Evict

Spec == Init /\ [][Next]_vars

-----------------------------------------------------------------------------
\* A task that opens the file after the switch reads what was written: the
\* chunk list holds the last contents of every page, also of those that were
\* still dirty, and its blocks are its own.
SwitchedRight ==
  i_fop = "chunked" /\ pc = "idle" =>
    /\ listed = data
    /\ i_size = NP
    /\ {head, end} \subseteq list /\ list \subseteq used \ other
    /\ \A z \in list : disk[z] = ListBlock

\* A cached page is what was written to it last, before, during and after the
\* switch, so a task that had the file open reads the right bytes; except from
\* a page whose read met the i_size of 0 or the disk after the zones had been
\* freed.
CachedRight ==
  \A p \in Page : Cached(p) /\ p \notin late => cache[p].val = data[p]

\* No writeback of the file reaches a zone of another file, unless a page was
\* dirty or being written when the chunker freed the zones.
ForeignKept == spilled = {} => \A z \in other : disk[z] = Foreign

\* A zone belongs to one file, and every zone of the bitmap to some file; only
\* the list blocks of a chunker that gave up or of a removed chunked file are
\* lost.
ZonesOwned ==
  /\ other \cap (FileZones \cup list) = {}
  /\ dropped \/ used = other \cup FileZones \cup list

\* The buffer for a chunk is filled exactly, unless a kernel_read returns less
\* than the rest of the file has.
BufferFits == pc = "bug" => short

=============================================================================
