------------------------------- MODULE Bitmap -------------------------------
(***************************************************************************)
(* The zone and inode bitmaps (bitmap.c).                                  *)
(*                                                                         *)
(* A bitmap is kept in blocks of BitsPerBlock bits, and what is done under *)
(* bitmap_lock is one step.  cominix_new_block and cominix_new_block_sb    *)
(* take the lock anew for every block of the map, so other tasks get in    *)
(* between two blocks; cominix_new_inode holds it over the whole search.   *)
(* cominix_free_inode clears the inode on the disk before it takes the     *)
(* lock and clears the bit.                                                *)
(***************************************************************************)
EXTENDS Integers, FiniteSets

CONSTANTS
  Task,           \* tasks that allocate and free
  BitsPerBlock,   \* 8 * s_blocksize
  ZmapBlocks,     \* s_zmap_blocks
  ImapBlocks,     \* s_imap_blocks
  FirstDataZone,  \* s_firstdatazone
  NZones,         \* s_nzones, cut at the hash table by cominix_fill_super
  DiskZones,      \* s_zones of the super block on the disk
  NInodes         \* s_ninodes

ASSUME BitmapAssumption ==
  /\ BitsPerBlock \in Nat /\ BitsPerBlock >= 2
  /\ ZmapBlocks \in Nat \ {0} /\ ImapBlocks \in Nat \ {0}
  /\ FirstDataZone \in Nat \ {0}
  /\ NZones \in Nat /\ FirstDataZone + 1 < NZones
  /\ DiskZones \in Nat /\ NZones <= DiskZones
  /\ NInodes \in Nat \ {0}
  \* cominix_fill_super refuses maps that are too small.
  /\ NZones - FirstDataZone + 1 <= ZmapBlocks * BitsPerBlock
  /\ NInodes <= ImapBlocks * BitsPerBlock

VARIABLES
  zmap,     \* bits that are set in the zone map
  imap,     \* bits that are set in the inode map
  pc,       \* where each task is
  blk,      \* the block of the zone map cominix_new_block looks at
  ino,      \* the inode that cominix_free_inode releases
  raw,      \* inodes whose copy on the disk is not cleared
  \* Ghosts
  holders,  \* how many owners each zone has been given to
  inodes    \* inodes in use: created and not yet given to evict_inode

vars == <<zmap, imap, pc, blk, ino, raw, holders, inodes>>

-----------------------------------------------------------------------------
Bits(blocks) == 0 .. (blocks * BitsPerBlock - 1)
Zone == FirstDataZone .. (NZones - 1)
Ino == 1 .. NInodes

\* MINIX_ROOT_INO, and the zones in use on a fresh file system: the block of the
\* root directory and the extra super block that the first mount allocates.
Root == 1
Reserved == {FirstDataZone, FirstDataZone + 1}

\* Bits of block b of a map.
BlockBits(b) == (b * BitsPerBlock) .. (b * BitsPerBlock + BitsPerBlock - 1)

\* The zone of a bit and the bit of a zone: bit 0 stands for no zone.
ZoneOf(bit) == bit + FirstDataZone - 1
BitOf(zone) == zone - FirstDataZone + 1

\* Mutant: any free bit of the block will do.
IsSomeZero(bit, map, b) == bit \in BlockBits(b) \ map

\* find_first_zero_bit in a block of a map.
IsFirstZero(bit, map, b) ==
  /\ bit \in BlockBits(b) \ map
  /\ \A c \in BlockBits(b) \ map : bit <= c

Full(map, b) == BlockBits(b) \subseteq map

\* A fresh file system after its first mount.  mkfs sets bit 0 and every bit
\* that stands for nothing on the whole disk; the mount sets bit 0 again.
Init ==
  /\ zmap = {b \in Bits(ZmapBlocks) :
               b = 0 \/ ZoneOf(b) \in Reserved \/ ZoneOf(b) >= DiskZones}
  /\ imap = {b \in Bits(ImapBlocks) : b \in {0, Root} \/ b > NInodes}
  /\ pc = [t \in Task |-> "idle"]
  /\ blk = [t \in Task |-> 0]
  /\ ino = [t \in Task |-> 1]
  /\ raw = {Root}
  /\ holders = [z \in Zone |-> IF z \in Reserved THEN 1 ELSE 0]
  /\ inodes = {Root}

-----------------------------------------------------------------------------
(* Zones.                                                                  *)

NewBlock(t) ==
  /\ pc[t] = "idle"
  /\ pc' = [pc EXCEPT ![t] = "scan"]
  /\ blk' = [blk EXCEPT ![t] = 0]
  /\ UNCHANGED <<zmap, imap, ino, raw, holders, inodes>>

\* The first free bit of the block is set; it stands for a zone of this mount.
NewBlockFound(t) ==
  /\ pc[t] = "scan"
  /\ blk[t] < ZmapBlocks
  /\ \E bit \in BlockBits(blk[t]) :
       /\ IsFirstZero(bit, zmap, blk[t])
       /\ ZoneOf(bit) >= FirstDataZone /\ ZoneOf(bit) < NZones
       /\ zmap' = zmap \cup {bit}
       /\ holders' = [holders EXCEPT ![ZoneOf(bit)] = @ + 1]
  /\ pc' = [pc EXCEPT ![t] = "idle"]
  /\ UNCHANGED <<imap, blk, ino, raw, inodes>>

\* The first free bit stands for no zone of this mount: return 0, and the bit
\* stays set.
NewBlockOutOfRange(t) ==
  /\ pc[t] = "scan"
  /\ blk[t] < ZmapBlocks
  /\ \E bit \in BlockBits(blk[t]) :
       /\ IsFirstZero(bit, zmap, blk[t])
       /\ ZoneOf(bit) < FirstDataZone \/ ZoneOf(bit) >= NZones
       /\ zmap' = zmap \cup {bit}
  /\ pc' = [pc EXCEPT ![t] = "idle"]
  /\ UNCHANGED <<imap, blk, ino, raw, holders, inodes>>

\* The block is full: the lock is released and the next block looked at.
NewBlockFull(t) ==
  /\ pc[t] = "scan"
  /\ blk[t] < ZmapBlocks
  /\ Full(zmap, blk[t])
  /\ blk' = [blk EXCEPT ![t] = @ + 1]
  /\ UNCHANGED <<zmap, imap, pc, ino, raw, holders, inodes>>

\* No block had a free bit: return 0.
NewBlockNone(t) ==
  /\ pc[t] = "scan"
  /\ blk[t] = ZmapBlocks
  /\ pc' = [pc EXCEPT ![t] = "idle"]
  /\ UNCHANGED <<zmap, imap, blk, ino, raw, holders, inodes>>

\* Mutant: the zones are taken to begin with bit 0.
FreeBlockZeroBased(t, z) ==
  /\ pc[t] = "idle"
  /\ holders[z] > 0
  /\ holders' = [holders EXCEPT ![z] = @ - 1]
  /\ zmap' = zmap \ {z - FirstDataZone}
  /\ UNCHANGED <<imap, pc, blk, ino, raw, inodes>>

\* An owner gives up a zone it was given: a range check, and the bit of the
\* zone is cleared.
FreeBlock(t, z) ==
  /\ pc[t] = "idle"
  /\ holders[z] > 0
  /\ holders' = [holders EXCEPT ![z] = @ - 1]
  /\ zmap' = IF /\ z >= FirstDataZone /\ z < NZones
                /\ BitOf(z) < ZmapBlocks * BitsPerBlock
             THEN zmap \ {BitOf(z)}
             ELSE zmap
  /\ UNCHANGED <<imap, pc, blk, ino, raw, inodes>>

-----------------------------------------------------------------------------
(* Inodes.                                                                 *)

\* The first free bit of the map is set; a bit that stands for no inode is
\* refused, but stays set.
NewInode(t) ==
  /\ pc[t] = "idle"
  /\ \E b \in 0 .. (ImapBlocks - 1) : \E bit \in BlockBits(b) :
       /\ \A c \in 0 .. (b - 1) : Full(imap, c)
       /\ IsFirstZero(bit, imap, b)
       /\ imap' = imap \cup {bit}
       /\ inodes' = IF bit = 0 \/ bit > NInodes THEN inodes
                    ELSE inodes \cup {bit}
  /\ UNCHANGED <<zmap, pc, blk, ino, raw, holders>>

\* Write-back of an inode in use.
WriteInode(n) ==
  /\ n \in inodes
  /\ raw' = raw \cup {n}
  /\ UNCHANGED <<zmap, imap, pc, blk, ino, holders, inodes>>

\* Mutant: the bit is cleared before the inode on the disk.
FreeInodeBitFirst(t, n) ==
  /\ pc[t] = "idle"
  /\ n \in inodes
  /\ inodes' = inodes \ {n}
  /\ imap' = imap \ {n}
  /\ ino' = [ino EXCEPT ![t] = n]
  /\ pc' = [pc EXCEPT ![t] = "clear"]
  /\ UNCHANGED <<zmap, blk, raw, holders>>

\* The last reference to an inode without links is dropped.
FreeInode(t, n) ==
  /\ pc[t] = "idle"
  /\ n \in inodes
  /\ inodes' = inodes \ {n}
  /\ ino' = [ino EXCEPT ![t] = n]
  /\ pc' = [pc EXCEPT ![t] =
               IF n < 1 \/ n > NInodes \/ n >= ImapBlocks * BitsPerBlock
               THEN "idle" ELSE "clear"]
  /\ UNCHANGED <<zmap, imap, blk, raw, holders>>

\* cominix_clear_inode: the copy on the disk loses its links and mode.
ClearInode(t) ==
  /\ pc[t] = "clear"
  /\ raw' = raw \ {ino[t]}
  /\ pc' = [pc EXCEPT ![t] = "bit"]
  /\ UNCHANGED <<zmap, imap, blk, ino, holders, inodes>>

\* test_and_clear_bit in the inode map.
FreeInodeBit(t) ==
  /\ pc[t] = "bit"
  /\ imap' = imap \ {ino[t]}
  /\ pc' = [pc EXCEPT ![t] = "idle"]
  /\ UNCHANGED <<zmap, blk, ino, raw, holders, inodes>>

-----------------------------------------------------------------------------
Next ==
  \/ \E t \in Task :
       \/ NewBlock(t) \/ NewBlockFound(t) \/ NewBlockOutOfRange(t)
       \/ NewBlockFull(t) \/ NewBlockNone(t)
       \/ \E z \in Zone \ Reserved : FreeBlock(t, z)
       \/ NewInode(t) \/ ClearInode(t) \/ FreeInodeBit(t)
       \/ \E n \in Ino \ {Root} : FreeInode(t, n)
  \/ \E n \in Ino : WriteInode(n)

Spec == Init /\ [][Next]_vars

-----------------------------------------------------------------------------
(* count_free counts the clear bits of the blocks that numbits bits need.  *)

\* Mutant: the last block of the map, not full, is forgotten.
BlocksNeededDown(numbits) == numbits \div BitsPerBlock

BlocksNeeded(numbits) == (numbits + BitsPerBlock - 1) \div BitsPerBlock

count_free(map, numbits) ==
  Cardinality(Bits(BlocksNeeded(numbits)) \ map)

count_free_blocks == count_free(zmap, NZones - FirstDataZone + 1)

-----------------------------------------------------------------------------
(* Properties.                                                             *)

\* The maps hold bits of their blocks, the search stays within the map, and
\* zones and inodes are numbers of this file system.
TypeOK ==
  /\ zmap \in SUBSET Bits(ZmapBlocks)
  /\ imap \in SUBSET Bits(ImapBlocks)
  /\ pc \in [Task -> {"idle", "scan", "clear", "bit"}]
  /\ blk \in [Task -> 0 .. ZmapBlocks]
  /\ ino \in [Task -> Ino]
  /\ raw \in SUBSET Ino
  /\ holders \in [Zone -> Nat]
  /\ inodes \in SUBSET Ino

\* The zone map says who owns what: a zone has one owner when its bit is set
\* and none when it is clear.  No zone is given to two files, none is lost.
ZoneMapExact ==
  \A z \in Zone : holders[z] = IF BitOf(z) \in zmap THEN 1 ELSE 0

\* cominix_new_block gives up only when every zone of the blocks it has still
\* to look at is in use.
EnospcHonest ==
  [][\A t \in Task :
       pc[t] = "scan" /\ pc'[t] = "idle" /\ holders' = holders =>
         \A z \in Zone : BitOf(z) >= blk[t] * BitsPerBlock => BitOf(z) \in zmap
    ]_vars

\* The copy on the disk of an inode in use is never cleared, although inode
\* numbers are reused while their former owner is still being released.
InodeKept == [][\A n \in inodes : n \in raw => n \in raw']_vars

\* statfs never reports fewer free blocks than cominix_new_block can still give
\* out, and more only by the clear bits that stand for no zone of the mount,
\* those the mount cut off and those at the end of the last block.
FreeCountBounds ==
  LET givable == Cardinality({z \in Zone : BitOf(z) \notin zmap})
      beyond == Cardinality(Bits(ZmapBlocks) \ {BitOf(z) : z \in Zone})
  IN count_free_blocks \in givable .. (givable + beyond)

=============================================================================
