---------------------------- MODULE BitmapProofs ----------------------------
(***************************************************************************)
(* Proofs about Bitmap, for any number of tasks and maps of any size.      *)
(***************************************************************************)
EXTENDS Bitmap, FiniteSetTheorems, TLAPS

LEMMA Sizes ==
  /\ BitsPerBlock \in Nat /\ BitsPerBlock >= 2
  /\ ZmapBlocks \in Nat \ {0} /\ ImapBlocks \in Nat \ {0}
  /\ FirstDataZone \in Nat \ {0}
  /\ NZones \in Nat /\ FirstDataZone + 1 < NZones
  /\ DiskZones \in Nat /\ NZones <= DiskZones
  /\ NInodes \in Nat \ {0}
  /\ NZones - FirstDataZone + 1 <= ZmapBlocks * BitsPerBlock
  /\ NInodes <= ImapBlocks * BitsPerBlock
  BY BitmapAssumption

\* A bit of a block of a map is a bit of the map.
LEMMA BlockInMap ==
  ASSUME NEW n \in Nat \ {0}, NEW b \in 0 .. (n - 1)
  PROVE  BlockBits(b) \subseteq Bits(n)
<1>1. b * BitsPerBlock \in Nat /\ n * BitsPerBlock \in Nat
  BY Sizes, Z3
<1>2. (b + 1) * BitsPerBlock <= n * BitsPerBlock
  BY Sizes, Z3
<1>3. (b + 1) * BitsPerBlock = b * BitsPerBlock + BitsPerBlock
  BY Sizes, Z3
<1> QED BY <1>1, <1>2, <1>3, Sizes DEF BlockBits, Bits

\* Zones and bits correspond.
LEMMA ZoneBits ==
  ASSUME NEW z \in Zone
  PROVE  /\ BitOf(z) \in Nat \ {0} /\ ZoneOf(BitOf(z)) = z
         /\ BitOf(z) < ZmapBlocks * BitsPerBlock
  BY Sizes DEF Zone, BitOf, ZoneOf

LEMMA BitZones ==
  ASSUME NEW bit \in Int
  PROVE  BitOf(ZoneOf(bit)) = bit
  BY Sizes DEF BitOf, ZoneOf

\* What the map says, and who is releasing an inode.
InodeInv ==
  /\ inodes \subseteq imap
  /\ \A t \in Task : pc[t] \in {"clear", "bit"} =>
       ino[t] \in imap /\ ino[t] \notin inodes
  /\ \A t, u \in Task :
       pc[t] \in {"clear", "bit"} /\ pc[u] \in {"clear", "bit"} /\ t # u =>
         ino[t] # ino[u]

BitmapInv == TypeOK /\ 0 \in zmap /\ ZoneMapExact /\ InodeInv

LEMMA BitmapInit == Init => BitmapInv
<1> SUFFICES ASSUME Init PROVE BitmapInv
  OBVIOUS
<1>0. 1 \in Bits(ImapBlocks)
  <2>1. ImapBlocks * BitsPerBlock >= 2 /\ ImapBlocks * BitsPerBlock \in Nat
    BY Sizes, Z3
  <2> QED BY <2>1 DEF Bits
<1>1. TypeOK
  BY Sizes DEF Init, TypeOK, Ino, Root
<1>2. ZoneMapExact
  <2>1. ASSUME NEW z \in Zone PROVE BitOf(z) \in zmap <=> z \in Reserved
    BY ZoneBits, Sizes DEF Init, Zone, Bits
  <2> QED BY <2>1 DEF Init, ZoneMapExact
<1>3. InodeInv
  BY <1>0 DEF Init, InodeInv, Root
<1>4. 0 \in zmap
  <2>1. 0 < ZmapBlocks * BitsPerBlock /\ ZmapBlocks * BitsPerBlock \in Nat
    BY Sizes, Z3
  <2> QED BY <2>1 DEF Init, Bits
<1> QED BY <1>1, <1>2, <1>3, <1>4 DEF BitmapInv

LEMMA BitmapStep == BitmapInv /\ [Next]_vars => BitmapInv'
<1> SUFFICES ASSUME BitmapInv, [Next]_vars PROVE BitmapInv'
  OBVIOUS
<1> USE DEF BitmapInv
<1>1. ASSUME NEW t \in Task, NewBlock(t) PROVE BitmapInv'
  BY <1>1, Sizes DEF NewBlock, TypeOK, ZoneMapExact, InodeInv
<1>2. ASSUME NEW t \in Task, NewBlockFound(t) PROVE BitmapInv'
  <2>1. PICK bit \in BlockBits(blk[t]) :
          /\ bit \notin zmap
          /\ ZoneOf(bit) >= FirstDataZone /\ ZoneOf(bit) < NZones
          /\ zmap' = zmap \cup {bit}
          /\ holders' = [holders EXCEPT ![ZoneOf(bit)] = @ + 1]
    BY <1>2 DEF NewBlockFound, IsFirstZero
  <2>2. blk[t] \in 0 .. (ZmapBlocks - 1)
    BY <1>2, Sizes DEF NewBlockFound, TypeOK
  <2>3. bit \in Bits(ZmapBlocks) /\ bit \in Int
    BY <2>2, BlockInMap, Sizes DEF Bits
  <2>4. ZoneOf(bit) \in Zone
    BY <2>1, <2>3, Sizes DEF Zone, ZoneOf
  <2>5. TypeOK'
    BY <1>2, <2>1, <2>3, <2>4 DEF NewBlockFound, TypeOK
  <2>6. ASSUME NEW z \in Zone
        PROVE  holders'[z] = IF BitOf(z) \in zmap' THEN 1 ELSE 0
    <3>1. BitOf(z) = bit <=> z = ZoneOf(bit)
      BY <2>3, ZoneBits, BitZones
    <3>2. holders[z] = IF BitOf(z) \in zmap THEN 1 ELSE 0
      BY DEF ZoneMapExact
    <3> QED BY <2>1, <2>4, <3>1, <3>2 DEF TypeOK
  <2>7. ZoneMapExact'
    BY <2>6 DEF ZoneMapExact
  <2>8. InodeInv'
    BY <1>2 DEF NewBlockFound, InodeInv, TypeOK
  <2> QED BY <2>1, <2>5, <2>7, <2>8
<1>3. ASSUME NEW t \in Task, NewBlockOutOfRange(t) PROVE BitmapInv'
  <2>1. PICK bit \in BlockBits(blk[t]) :
          /\ ZoneOf(bit) < FirstDataZone \/ ZoneOf(bit) >= NZones
          /\ zmap' = zmap \cup {bit}
    BY <1>3 DEF NewBlockOutOfRange
  <2>2. blk[t] \in 0 .. (ZmapBlocks - 1)
    BY <1>3, Sizes DEF NewBlockOutOfRange, TypeOK
  <2>3. bit \in Bits(ZmapBlocks) /\ bit \in Int
    BY <2>2, BlockInMap, Sizes DEF Bits
  <2>4. \A z \in Zone : BitOf(z) # bit
    BY <2>1, <2>3, ZoneBits, Sizes DEF Zone
  <2>5. TypeOK'
    BY <1>3, <2>1, <2>3 DEF NewBlockOutOfRange, TypeOK
  <2>6. ZoneMapExact'
    BY <1>3, <2>1, <2>4 DEF NewBlockOutOfRange, ZoneMapExact
  <2>7. InodeInv'
    BY <1>3 DEF NewBlockOutOfRange, InodeInv, TypeOK
  <2> QED BY <2>1, <2>5, <2>6, <2>7
<1>4. ASSUME NEW t \in Task, NewBlockFull(t) PROVE BitmapInv'
  BY <1>4, Sizes DEF NewBlockFull, TypeOK, ZoneMapExact, InodeInv
<1>5. ASSUME NEW t \in Task, NewBlockNone(t) PROVE BitmapInv'
  BY <1>5 DEF NewBlockNone, TypeOK, ZoneMapExact, InodeInv
<1>6. ASSUME NEW t \in Task, NEW z \in Zone, FreeBlock(t, z) PROVE BitmapInv'
  <2>1. /\ zmap' = zmap \ {BitOf(z)}
        /\ holders' = [holders EXCEPT ![z] = @ - 1]
        /\ holders[z] \in Nat /\ holders[z] > 0
    BY <1>6, ZoneBits, Sizes DEF FreeBlock, Zone, TypeOK
  <2>2. holders[z] = 1
    BY <2>1 DEF ZoneMapExact
  <2>3. TypeOK'
    BY <1>6, <2>1, <2>2 DEF FreeBlock, TypeOK
  <2>4. ASSUME NEW y \in Zone
        PROVE  holders'[y] = IF BitOf(y) \in zmap' THEN 1 ELSE 0
    <3>1. BitOf(y) = BitOf(z) <=> y = z
      BY ZoneBits
    <3>2. holders[y] = IF BitOf(y) \in zmap THEN 1 ELSE 0
      BY DEF ZoneMapExact
    <3> QED BY <2>1, <2>2, <3>1, <3>2 DEF TypeOK
  <2>5. ZoneMapExact'
    BY <2>4 DEF ZoneMapExact
  <2>6. InodeInv'
    BY <1>6 DEF FreeBlock, InodeInv
  <2>7. 0 \in zmap'
    BY <2>1, ZoneBits
  <2> QED BY <2>3, <2>5, <2>6, <2>7
<1>7. ASSUME NEW t \in Task, NewInode(t) PROVE BitmapInv'
  <2>1. PICK b \in 0 .. (ImapBlocks - 1) : \E bit \in BlockBits(b) :
          /\ bit \notin imap
          /\ imap' = imap \cup {bit}
          /\ inodes' = IF bit = 0 \/ bit > NInodes THEN inodes
                       ELSE inodes \cup {bit}
    BY <1>7 DEF NewInode, IsFirstZero
  <2>2. PICK bit \in BlockBits(b) :
          /\ bit \notin imap
          /\ imap' = imap \cup {bit}
          /\ inodes' = IF bit = 0 \/ bit > NInodes THEN inodes
                       ELSE inodes \cup {bit}
    BY <2>1
  <2>3. bit \in Bits(ImapBlocks) /\ bit \in Nat
    BY BlockInMap, Sizes DEF Bits
  <2>4. inodes' \subseteq Ino /\ inodes' \subseteq inodes \cup {bit}
    BY <2>2, <2>3, Sizes DEF TypeOK, Ino
  <2>5. TypeOK'
    BY <1>7, <2>2, <2>3, <2>4 DEF NewInode, TypeOK
  <2>6. ZoneMapExact'
    BY <1>7 DEF NewInode, ZoneMapExact
  <2>7. InodeInv'
    BY <1>7, <2>2, <2>4 DEF NewInode, InodeInv
  <2> QED BY <1>7, <2>5, <2>6, <2>7 DEF NewInode
<1>8. ASSUME NEW t \in Task, NEW n \in Ino, FreeInode(t, n) PROVE BitmapInv'
  BY <1>8 DEF FreeInode, TypeOK, ZoneMapExact, InodeInv
<1>9. ASSUME NEW t \in Task, ClearInode(t) PROVE BitmapInv'
  BY <1>9 DEF ClearInode, TypeOK, ZoneMapExact, InodeInv
<1>10. ASSUME NEW t \in Task, FreeInodeBit(t) PROVE BitmapInv'
  BY <1>10 DEF FreeInodeBit, TypeOK, ZoneMapExact, InodeInv
<1>11. ASSUME NEW n \in Ino, WriteInode(n) PROVE BitmapInv'
  BY <1>11 DEF WriteInode, TypeOK, ZoneMapExact, InodeInv
<1>12. CASE UNCHANGED vars
  BY <1>12 DEF vars, TypeOK, ZoneMapExact, InodeInv
<1> QED BY <1>1, <1>2, <1>3, <1>4, <1>5, <1>6, <1>7, <1>8, <1>9, <1>10, <1>11,
           <1>12 DEF Next

LEMMA BitmapAlways == Spec => []BitmapInv
  BY BitmapInit, BitmapStep, PTL DEF Spec

\* The zone map never says anything but who owns which zone: no zone is given
\* out twice and none is lost, whatever tasks run.
THEOREM ZoneMapCorrect == Spec => []ZoneMapExact
<1>1. BitmapInv => ZoneMapExact
  BY DEF BitmapInv
<1> QED BY <1>1, BitmapAlways, PTL

\* No step clears the copy on the disk of an inode in use.
THEOREM InodesKept == Spec => InodeKept
<1>1. BitmapInv /\ [Next]_vars => [\A n \in inodes : n \in raw => n \in raw']_vars
  BY DEF BitmapInv, InodeInv, TypeOK, Next, NewBlock, NewBlockFound,
         NewBlockOutOfRange, NewBlockFull, NewBlockNone, FreeBlock, NewInode,
         FreeInode, ClearInode, FreeInodeBit, WriteInode, vars
<1> QED BY <1>1, BitmapAlways, PTL DEF Spec, InodeKept

\* A search for a zone that returns 0 has seen, in the block where it stops
\* and in those behind it, no zone that is free.
THEOREM EnospcCorrect == Spec => EnospcHonest
<1> DEFINE Honest(t) ==
      pc[t] = "scan" /\ pc'[t] = "idle" /\ holders' = holders =>
        \A z \in Zone : BitOf(z) >= blk[t] * BitsPerBlock => BitOf(z) \in zmap
<1>1. ASSUME BitmapInv, [Next]_vars, NEW t \in Task PROVE Honest(t)
  <2> SUFFICES ASSUME pc[t] = "scan", pc'[t] = "idle", holders' = holders,
                      NEW z \in Zone, BitOf(z) >= blk[t] * BitsPerBlock
               PROVE  BitOf(z) \in zmap
    OBVIOUS
  <2>a. TypeOK /\ 0 \in zmap /\ BitOf(z) \in Nat
    BY <1>1, ZoneBits DEF BitmapInv
  <2>1. NewBlockFound(t) \/ NewBlockOutOfRange(t) \/ NewBlockNone(t)
    BY <1>1, <2>a DEF TypeOK, Next, NewBlock, NewBlockFound, NewBlockOutOfRange,
           NewBlockFull, NewBlockNone, FreeBlock, NewInode, FreeInode,
           ClearInode, FreeInodeBit, WriteInode, vars
  <2>2. CASE NewBlockFound(t)
    <3>1. PICK bit \in BlockBits(blk[t]) :
            /\ ZoneOf(bit) >= FirstDataZone /\ ZoneOf(bit) < NZones
            /\ holders' = [holders EXCEPT ![ZoneOf(bit)] = @ + 1]
      BY <2>2 DEF NewBlockFound
    <3>2. blk[t] \in 0 .. (ZmapBlocks - 1)
      BY <2>2, <2>a, Sizes DEF NewBlockFound, TypeOK
    <3>3. bit \in Bits(ZmapBlocks) /\ bit \in Int
      BY <3>2, BlockInMap, Sizes DEF Bits
    <3>4. ZoneOf(bit) \in Zone
      BY <3>1, <3>3, Sizes DEF Zone, ZoneOf
    <3>5. holders'[ZoneOf(bit)] # holders[ZoneOf(bit)]
      BY <2>a, <3>1, <3>4 DEF TypeOK
    <3> QED BY <3>5
  <2>3. CASE NewBlockOutOfRange(t)
    <3>1. PICK bit \in BlockBits(blk[t]) :
            /\ IsFirstZero(bit, zmap, blk[t])
            /\ ZoneOf(bit) < FirstDataZone \/ ZoneOf(bit) >= NZones
      BY <2>3 DEF NewBlockOutOfRange
    <3>2. blk[t] \in 0 .. (ZmapBlocks - 1)
      BY <2>3, <2>a, Sizes DEF NewBlockOutOfRange, TypeOK
    <3>3. bit \in Nat /\ bit # 0
      <4>1. bit \in Bits(ZmapBlocks) /\ bit \in Nat
        BY <3>2, BlockInMap, Sizes DEF Bits
      <4> QED BY <2>a, <3>1, <4>1 DEF IsFirstZero
    <3>4. BitOf(z) < bit
      BY <3>1, <3>3, Sizes DEF ZoneOf, BitOf, Zone
    <3>5. blk[t] * BitsPerBlock \in Nat
      BY <3>2, Sizes, Z3
    <3>6. BitOf(z) \in BlockBits(blk[t])
      BY <2>a, <3>3, <3>4, <3>5, Sizes DEF BlockBits
    <3> QED BY <2>a, <3>1, <3>3, <3>4, <3>6 DEF IsFirstZero
  <2>4. CASE NewBlockNone(t)
    <3>1. BitOf(z) >= ZmapBlocks * BitsPerBlock
      BY <2>4 DEF NewBlockNone
    <3>2. ZmapBlocks * BitsPerBlock \in Nat
      BY Sizes, Z3
    <3> QED BY <2>a, <3>1, <3>2, ZoneBits
  <2> QED BY <2>1, <2>2, <2>3, <2>4
<1>2. BitmapInv /\ [Next]_vars => [\A t \in Task : Honest(t)]_vars
  BY <1>1
<1> QED BY <1>2, BitmapAlways, PTL DEF Spec, EnospcHonest

-----------------------------------------------------------------------------
(* statfs.  The clear bits that count_free counts are those of the free    *)
(* zones and some of those that stand for no zone.                         *)

\* The bits that stand for a zone of the mount.
ZoneBitSet == {BitOf(z) : z \in Zone}

\* The blocks that count_free looks at hold the bit of every zone, and are
\* blocks of the map.
LEMMA CountedBits ==
  /\ BlocksNeeded(NZones - FirstDataZone + 1) \in Nat
  /\ BlocksNeeded(NZones - FirstDataZone + 1) <= ZmapBlocks
  /\ ZoneBitSet \subseteq Bits(BlocksNeeded(NZones - FirstDataZone + 1))
<1> DEFINE n == NZones - FirstDataZone + 1
           q == BlocksNeeded(n)
<1>0. n \in Nat /\ n <= ZmapBlocks * BitsPerBlock
  BY Sizes
<1>z. \A z \in Zone : BitOf(z) \in Nat /\ BitOf(z) <= n - 1
  BY Sizes DEF Zone, BitOf
<1> HIDE DEF n
<1>1. /\ q \in Int
      /\ q * BitsPerBlock <= n + BitsPerBlock - 1
      /\ n + BitsPerBlock - 1 < q * BitsPerBlock + BitsPerBlock
  BY <1>0, Sizes, Z3 DEF BlocksNeeded
<1> HIDE DEF q
<1>2. q \in Nat
  BY <1>0, <1>1, Sizes, Z3
<1>3. q <= ZmapBlocks
  BY <1>0, <1>1, <1>2, Sizes, Z3
<1>4. q * BitsPerBlock \in Nat /\ n <= q * BitsPerBlock
  BY <1>0, <1>1, <1>2, Sizes, Z3
<1>5. ZoneBitSet \subseteq Bits(q)
  BY <1>0, <1>z, <1>4 DEF ZoneBitSet, Bits
<1> QED BY <1>2, <1>3, <1>5 DEF q, n

\* Fewer blocks have fewer bits, and a map has finitely many.
LEMMA BitsFinite ==
  ASSUME NEW n \in Nat
  PROVE  IsFiniteSet(Bits(n))
<1>1. n * BitsPerBlock - 1 \in Int
  BY Sizes, Z3
<1> QED BY <1>1, FS_Interval DEF Bits

LEMMA BitsGrow ==
  ASSUME NEW n \in Nat, NEW m \in Nat, n <= m
  PROVE  Bits(n) \subseteq Bits(m)
<1>1. /\ n * BitsPerBlock \in Nat /\ m * BitsPerBlock \in Nat
      /\ n * BitsPerBlock <= m * BitsPerBlock
  BY Sizes, Z3
<1> QED BY <1>1 DEF Bits

\* As many zones are free as bits of zones are clear.
LEMMA FreeZones ==
  Cardinality({z \in Zone : BitOf(z) \notin zmap}) = Cardinality(ZoneBitSet \ zmap)
<1> DEFINE G == {z \in Zone : BitOf(z) \notin zmap}
           B == ZoneBitSet \ zmap
           f == [z \in G |-> BitOf(z)]
<1>1. IsFiniteSet(G)
  <2>1. IsFiniteSet(Zone)
    BY FS_Interval, Sizes DEF Zone
  <2> QED BY <2>1, FS_Subset
<1>2. f \in [G -> B]
  BY DEF ZoneBitSet
<1>3. \A b \in B : \E z \in G : f[z] = b
  BY DEF ZoneBitSet
<1>4. f \in Surjection(G, B)
  BY <1>2, <1>3 DEF Surjection
<1>5. \A y, z \in G : f[y] = f[z] => y = z
  BY ZoneBits
<1>6. f \in Injection(G, B)
  BY <1>2, <1>5 DEF Injection, IsInjective
<1> QED BY <1>1, <1>4, <1>6, FS_Surjection

\* Whatever bits are set, the count statfs reports lies between the number of
\* free zones and that number plus the number of bits that stand for no zone.
LEMMA CountBounds == FreeCountBounds
<1> DEFINE n == BlocksNeeded(NZones - FirstDataZone + 1)
           F == Bits(n) \ zmap
           B == ZoneBitSet \ zmap
           R == F \ ZoneBitSet
           E == Bits(ZmapBlocks) \ ZoneBitSet
<1>0. n \in Nat /\ n <= ZmapBlocks /\ ZoneBitSet \subseteq Bits(n)
  BY CountedBits
<1>1. IsFiniteSet(Bits(n)) /\ IsFiniteSet(Bits(ZmapBlocks)) /\ Bits(n) \subseteq Bits(ZmapBlocks)
  BY <1>0, BitsFinite, BitsGrow, Sizes
<1> HIDE DEF n
<1>2. F = B \cup R /\ B \cap R = {}
  BY <1>0
<1>3. IsFiniteSet(B) /\ IsFiniteSet(R) /\ IsFiniteSet(E)
  <2>1. B \in SUBSET Bits(n) /\ R \in SUBSET Bits(n) /\ E \in SUBSET Bits(ZmapBlocks)
    BY <1>0
  <2> QED BY <1>1, <2>1, FS_Subset
<1>4. R \in SUBSET E
  BY <1>1
<1>5. Cardinality(R) <= Cardinality(E)
  BY <1>3, <1>4, FS_Subset
<1>6. Cardinality(F) = Cardinality(B) + Cardinality(R) - Cardinality(B \cap R)
  BY <1>2, <1>3, FS_Union
<1>7. Cardinality(B \cap R) = 0
  BY <1>2, FS_EmptySet
<1>8. Cardinality(B) \in Nat /\ Cardinality(R) \in Nat /\ Cardinality(E) \in Nat
  BY <1>3, FS_CardinalityType
<1>9. count_free_blocks = Cardinality(F)
  BY DEF count_free_blocks, count_free, n
<1>10. FreeCountBounds = (count_free_blocks \in
          Cardinality(B) .. (Cardinality(B) + Cardinality(E)))
  BY FreeZones DEF FreeCountBounds, ZoneBitSet
<1> HIDE DEF F, B, R, E
<1>11. /\ count_free_blocks \in Int
       /\ Cardinality(B) <= count_free_blocks
       /\ count_free_blocks <= Cardinality(B) + Cardinality(E)
  BY <1>5, <1>6, <1>7, <1>8, <1>9
<1>12. count_free_blocks \in Cardinality(B) .. (Cardinality(B) + Cardinality(E))
  BY <1>8, <1>11
<1> QED BY <1>10, <1>12, Zenon

\* statfs never reports fewer free blocks than there are free zones, and more
\* only by bits that stand for no zone of the mount: for maps of every size,
\* when the last block that is counted is not full too.
THEOREM FreeCountCorrect == Spec => []FreeCountBounds
  BY CountBounds, PTL

=============================================================================
