-------------------------------- MODULE Mount -------------------------------
(***************************************************************************)
(* Mounting, unmounting and remounting (inode.c).  What the chunk area     *)
(* needs from one mount to the next is the break of the heap.  It is kept  *)
(* in the extra super block, a zone that the first mount takes from the    *)
(* zone bitmap and whose number it leaves in two pads of the super block.  *)
(*                                                                         *)
(* A chunk is its extent in the heap; storing one is chunk_alloc with      *)
(* update_brk_on_disk, whose interleavings are the subject of ChunkStore.  *)
(* Files take and free zones through the same bitmap.                      *)
(***************************************************************************)
EXTENDS Integers, FiniteSetsExt

CONSTANTS
  Zone,      \* data zones below the hash table
  Half,      \* values of a pad: 2^16
  HeapBase,  \* hashtable + hashtable_size
  MaxBrk,    \* end of the disk
  Size       \* sizes of a chunk with its header

ASSUME MountAssumption ==
  /\ Zone # {} /\ IsFiniteSet(Zone)
  /\ Half \in Nat \ {0} /\ Zone \subseteq 1 .. (Half * Half - 1)
  /\ HeapBase \in Nat \ {0} /\ MaxBrk \in Nat /\ HeapBase < MaxBrk
  /\ Size \subseteq Nat \ {0}

VARIABLES
  \* On the disk
  pad0, pad1,  \* s_pad0 and s_pad1 of the super block
  esb,         \* heap_brk in each zone, 0 when it is no extra super block
  boot,        \* heap_brk has been written into block 0
  used,        \* zones marked in the zone bitmap
  files,       \* those of them that belong to files
  stored,      \* chunks that files refer to
  found,       \* those of them that the hash table leads to
  \* In memory
  mode,        \* "out" (not mounted), "ro", "rw"; until the next boot: "stuck" (a
               \* killed chunker keeps its file open), "killed" (the task that
               \* mounted was), "bug" (mounted without a root)
  extra_sb_location,
  brk,         \* heap_brk
  \* Ghosts
  lost,        \* stored chunks that were written over
  without      \* some mount went on without an extra super block

memory == <<mode, extra_sb_location, brk>>
vars == <<pad0, pad1, esb, boot, used, files, stored, found, mode,
          extra_sb_location, brk, lost, without>>

Chunk == [at : HeapBase .. (MaxBrk - 1), size : Size]
Extent(c) == c.at .. (c.at + c.size - 1)

Init ==
  /\ pad0 = 0 /\ pad1 = 0 /\ boot = FALSE
  /\ esb = [z \in Zone |-> 0]
  /\ used \in SUBSET Zone /\ files = used
  /\ stored = {} /\ found = {} /\ lost = {} /\ without = FALSE
  /\ mode = "out" /\ extra_sb_location = 0 /\ brk = 0

-----------------------------------------------------------------------------
(* The two pads.                                                           *)

pad_high(z) == z \div Half

\* Mutant: the low half is not cut out.
pad_low_whole(z) == z

pad_low(z) == z % Half
esb_loc == pad1 * Half + pad0

-----------------------------------------------------------------------------
(* cominix_fill_super.                                                     *)

\* What goes wrong: there is no memory for s_fs_info; the block size cannot be
\* set, the super block cannot be read, has another magic, another zone size or
\* no bitmaps; there is no memory for the map; a bitmap cannot be read, or is
\* too small; the root inode cannot be read; no memory for its dentry.
Early == {"blocksize", "sb", "magic", "zonesize", "illegal"}
Bitmaps == {"bitmap", "imap", "zmap"}
NoMemory == {"sbi", "map", "dentry"}
Trouble == Early \cup NoMemory \cup Bitmaps \cup {"root"}

EINVAL == -22
ENOMEM == -12
EIO == -5

\* ret: -EINVAL until cminix_fill_extra_super has returned 0 into it.
fill_super_ret(t) ==
  CASE t \in Early    -> EINVAL
    [] t \in NoMemory -> ENOMEM
    [] t \in Bitmaps  -> 0
    [] t = "root"     -> EIO

\* Every error path releases what it holds and leaves the disk alone.  With 0
\* but without a root the VFS stops in BUG.
MountFails(t) ==
  /\ mode = "out"
  /\ mode' = IF fill_super_ret(t) = 0 THEN "bug" ELSE "out"
  /\ UNCHANGED <<pad0, pad1, esb, boot, used, files, stored, found,
                 extra_sb_location, brk, lost, without>>

\* Mutant: the break starts at the end of the hash table in every mount.
fill_extra_super_base(loc) == HeapBase

\* cminix_fill_extra_super: the break.
fill_extra_super(loc) == IF loc = 0 THEN HeapBase ELSE esb[loc]

\* Mutant: a new extra super block in every mount.
alloc_new_esb_always(loc) == TRUE

alloc_new_esb(loc) == loc = 0

\* A mount that goes well; cminix_alloc_extra_super is part of it, on a
\* read-only mount too, and its failure is not looked at.
Mount(m) ==
  /\ mode = "out" /\ mode' = m
  /\ IF alloc_new_esb(esb_loc) /\ used # Zone
     THEN LET z == Min(Zone \ used)
          IN /\ used' = used \cup {z}
             /\ extra_sb_location' = z
             /\ esb' = [esb EXCEPT ![z] = fill_extra_super(esb_loc)]
             /\ pad0' = pad_low(z) /\ pad1' = pad_high(z)
             /\ brk' = fill_extra_super(esb_loc)
             /\ found' = {}                       \* chunk_reset_hashtable
             /\ without' = without
     ELSE /\ extra_sb_location' = esb_loc
          /\ brk' = fill_extra_super(esb_loc)
          /\ without' = (without \/ esb_loc = 0)
          /\ UNCHANGED <<used, esb, pad0, pad1, found>>
  /\ UNCHANGED <<boot, files, stored, lost>>

\* A block cannot be read and BUG kills the task that mounts: the extra super
\* block; or its zone, taken from the bitmap already; or a block of the hash
\* table, when the pads lead to a zone whose buffer is never marked dirty.  What
\* is dirty reaches the disk.
MountKilled ==
  /\ mode = "out" /\ mode' = "killed"
  /\ \/ /\ ~ alloc_new_esb(esb_loc)
        /\ UNCHANGED <<used, pad0, pad1, found>>
     \/ /\ alloc_new_esb(esb_loc) /\ used # Zone
        /\ LET z == Min(Zone \ used)
           IN /\ used' = used \cup {z}
              /\ \/ UNCHANGED <<pad0, pad1, found>>
                 \/ /\ pad0' = pad_low(z) /\ pad1' = pad_high(z)
                    /\ found' \in SUBSET found
  /\ UNCHANGED <<esb, boot, files, stored, extra_sb_location, brk, lost,
                 without>>

\* cominix_sb_info is gone.
Forget == mode' = "out" /\ extra_sb_location' = 0 /\ brk' = 0

\* cominix_put_super: nothing of a version 3 super block changes.
Umount ==
  /\ mode \in {"ro", "rw"} /\ Forget
  /\ UNCHANGED <<pad0, pad1, esb, boot, used, files, stored, found, lost, without>>

\* cominix_remount: likewise.
Remount(m) ==
  /\ mode \in {"ro", "rw"} /\ mode' = m
  /\ UNCHANGED <<pad0, pad1, esb, boot, used, files, stored, found,
                 extra_sb_location, brk, lost, without>>

Reboot ==
  /\ mode \in {"bug", "killed", "stuck"} /\ Forget
  /\ UNCHANGED <<pad0, pad1, esb, boot, used, files, stored, found, lost, without>>

-----------------------------------------------------------------------------
(* What happens while the file system is mounted.                          *)

Writable == mode \in {"rw", "stuck"}

\* The zone of the extra super block was never written and holds zeros, as all
\* of a new image: hashtable, hashtable_size, heap_brk and s_nzones are 0.
Zeros == brk = 0

\* cominix_new_block sets the bit, and then finds the zone to be none.
Take(z) ==
  /\ Writable /\ z \notin used
  /\ used' = used \cup {z}
  /\ files' = IF Zeros THEN files ELSE files \cup {z}
  /\ UNCHANGED <<pad0, pad1, esb, boot, stored, found, memory, lost, without>>

\* cominix_free_block: "Trying to free block not in datazone".
Free(z) ==
  /\ Writable /\ z \in files
  /\ used' = IF Zeros THEN used ELSE used \ {z}
  /\ files' = files \ {z}
  /\ UNCHANGED <<pad0, pad1, esb, boot, stored, found, memory, lost, without>>

\* Mutant: the last byte of the chunk stays behind the break.
chunk_alloc_short(n) == brk + n - 1

\* The break behind a chunk of n bytes.
chunk_alloc(n) == brk + n

\* Mutant: the location of the extra super block is not looked up.
update_brk_on_disk_boot(new_brk) == boot' = TRUE /\ esb' = esb

\* Without an extra super block the location is 0, and so is the block.
update_brk_on_disk(new_brk) ==
  IF extra_sb_location = 0 THEN boot' = TRUE /\ esb' = esb
  ELSE esb' = [esb EXCEPT ![extra_sb_location] = new_brk] /\ boot' = boot

\* A file is chunked and one chunk of it is new.  A read-only mount refuses
\* to open the file for writing.
Store(n) ==
  /\ mode = "rw" /\ ~ Zeros /\ chunk_alloc(n) < MaxBrk
  /\ brk' = chunk_alloc(n)
  /\ update_brk_on_disk(chunk_alloc(n))
  /\ LET c == [at |-> brk, size |-> n]
         over == {d \in stored : Extent(d) \cap Extent(c) # {}}
     IN /\ stored' = (stored \ over) \cup {c}
        /\ found' = found \cup {c}
        /\ lost' = lost \cup over
  /\ UNCHANGED <<pad0, pad1, used, files, mode, extra_sb_location, without>>

\* Nothing is stored and the chunker is killed: chunk_alloc has raised the
\* break too far and keeps brk_lock, or hashtable_hash divides by 0.  The file
\* stays open, so umount and a remount as read-only are refused.
StoreKilled(n) ==
  /\ mode = "rw" /\ mode' = "stuck"
  /\ \/ Zeros /\ brk' = brk
     \/ ~ Zeros /\ brk' = chunk_alloc(n) /\ brk' >= MaxBrk
  /\ UNCHANGED <<pad0, pad1, esb, boot, used, files, stored, found,
                 extra_sb_location, lost, without>>

Next ==
  \/ \E m \in {"ro", "rw"} : Mount(m) \/ Remount(m)
  \/ \E t \in Trouble : MountFails(t)
  \/ MountKilled \/ Umount \/ Reboot
  \/ \E z \in Zone : Take(z) \/ Free(z)
  \/ \E n \in Size : Store(n) \/ StoreKilled(n)

Spec == Init /\ [][Next]_vars

-----------------------------------------------------------------------------
\* Type invariant of the super blocks.
TypeOK ==
  /\ pad0 \in 0 .. (Half - 1) /\ pad1 \in 0 .. (Half - 1)
  /\ esb \in [Zone -> 0 .. (MaxBrk - 1)] /\ boot \in BOOLEAN
  /\ used \subseteq Zone /\ files \subseteq used
  /\ stored \subseteq Chunk /\ found \subseteq Chunk /\ lost \subseteq Chunk
  /\ mode \in {"out", "ro", "rw", "stuck", "killed", "bug"}
  /\ extra_sb_location \in Zone \cup {0} /\ brk \in Nat
  /\ without \in BOOLEAN

\* No mount makes the heap grow over chunks that files refer to, and none that
\* the hash table leads to is gone, through any sequence of mounts, killed
\* mounts and chunkers, remounts and chunked files; unless a mount found no
\* zone for the extra super block.
ChunksKept == without \/ (lost = {} /\ found \subseteq stored)

\* The extra super block belongs to no file, the pads lead to it, and while
\* the file system is mounted it holds the break of the heap.
EsbSound ==
  esb_loc # 0 =>
    /\ esb_loc \in used \ files
    /\ mode \in {"ro", "rw"} => extra_sb_location = esb_loc /\ esb[esb_loc] = brk

\* Once there is an extra super block every mount finds it again: the file
\* system never makes a second one.
EsbOnce == [][esb_loc # 0 => esb_loc' = esb_loc]_vars

\* Block 0, the boot block, is written only when a mount went on without an
\* extra super block.
BootKept == boot => without

\* A mount that could not be completed is refused: cominix_fill_super does
\* not return 0 without a root.  inode.c says "Refusing to mount" in two of
\* these places.
Refused == mode # "bug"

=============================================================================
