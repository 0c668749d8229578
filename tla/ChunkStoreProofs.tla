-------------------------- MODULE ChunkStoreProofs --------------------------
(***************************************************************************)
(* Proofs about ChunkStore, for every number of chunkers, every set of     *)
(* files and chunks and every geometry of the disk: first where chunks     *)
(* lie and what the table leads to, then what is read through the chunk    *)
(* lists, and that one chunker at a time implements DedupStore.            *)
(***************************************************************************)
EXTENDS ChunkStoreDedup, FiniteSetTheorems, TLAPS

-----------------------------------------------------------------------------
(* Arithmetic of blocks.                                                   *)

\* The sizes that ChunkStoreAssumption fixes, without its quantifiers.
LEMMA Geometry ==
  /\ NBuckets \in Nat \ {0}
  /\ HeadSize \in Nat /\ HeadSize >= 2
  /\ BlockSize \in Nat \ {0} /\ BlockSize >= HeadSize
  /\ HeapBase \in Nat \ {0}
  /\ MaxBrk \in Nat /\ MaxBrk > HeapBase
  /\ MaxMounts \in Nat \ {0}
  BY ChunkStoreAssumption

\* Quotient and remainder, for any divisor.
LEMMA DivisionBounds ==
  ASSUME NEW a \in Nat, NEW B \in Nat \ {0}
  PROVE  /\ a \div B \in Nat
         /\ a < (a \div B) * B + B
         /\ a % B \in 0 .. (B - 1)
  BY Z3

LEMMA QuotientUnique ==
  ASSUME NEW B \in Nat \ {0}, NEW q \in Nat, NEW r \in Nat, r < B
  PROVE  (q * B + r) \div B = q
  BY Z3

\* The alignment done by chunk_alloc never lowers the break, and a header
\* written at the aligned break lies in one block.
LEMMA AlignHeadSound ==
  ASSUME NEW b \in Nat
  PROVE  /\ AlignHead(b) \in Nat
         /\ b <= AlignHead(b)
         /\ block_no(AlignHead(b)) = block_no(AlignHead(b) + HeadSize - 1)
<1>1. CASE block_no(b) = block_no(b + HeadSize - 1)
  BY <1>1 DEF AlignHead
<1>2. CASE block_no(b) # block_no(b + HeadSize - 1)
  <2>1. PICK q \in Nat : q = b \div BlockSize + 1
    BY DivisionBounds, Geometry
  <2>2. AlignHead(b) = q * BlockSize
    BY <1>2, <2>1 DEF AlignHead, block_no
  <2>3. /\ b < (b \div BlockSize) * BlockSize + BlockSize
        /\ b \div BlockSize \in Nat
    BY DivisionBounds, Geometry
  <2>4. /\ q * BlockSize = (b \div BlockSize) * BlockSize + BlockSize
        /\ q * BlockSize \in Nat
    BY <2>1, <2>3, Geometry, Z3
  <2>5. (q * BlockSize + 0) \div BlockSize = q
    BY QuotientUnique, Geometry
  <2>6. (q * BlockSize + (HeadSize - 1)) \div BlockSize = q
    BY QuotientUnique, Geometry
  <2>7. /\ q * BlockSize + 0 = q * BlockSize
        /\ q * BlockSize + (HeadSize - 1) = q * BlockSize + HeadSize - 1
    BY <2>4, Geometry
  <2> QED BY <2>2, <2>3, <2>4, <2>5, <2>6, <2>7 DEF block_no
<1> QED BY <1>1, <1>2

-----------------------------------------------------------------------------
(* Types.                                                                  *)

\* A chunker between the cut of a chunk and the entry in its list works on a
\* chunk of its file.
CurInv ==
  \A p \in Chunker :
    pc[p] \notin {"idle", "loop", "dead"} => k[p] <= Len(FileChunks[file[p]])

\* While data is copied some of it is left.
DoneInv == \A p \in Chunker : pc[p] = "data" => done[p] < SizeOf[Cur(p)]

TypeInv == TypeOK /\ CurInv /\ DoneInv

\* One piece of write_data_storage copies at least a byte and never more than
\* is left of the chunk.
LEMMA PieceBounds ==
  ASSUME NEW size \in Nat, NEW d \in Nat, d < size,
         NEW bs \in Nat, NEW m \in 0 .. (bs - 1),
         NEW n, n = IF size - d < bs - m THEN size - d ELSE bs - m
  PROVE  n \in Nat \ {0} /\ d + n <= size
OBVIOUS

\* The current chunk of a chunker is a chunk, and has a size and a hash.
LEMMA CurIsChunk ==
  ASSUME TypeOK, NEW p \in Chunker, k[p] <= Len(FileChunks[file[p]])
  PROVE  /\ Cur(p) \in Chunk
         /\ SizeOf[Cur(p)] \in Nat \ {0}
         /\ HashOf[Cur(p)] \in Nat \ {0}
         /\ BucketOf(Cur(p)) \in Bucket
<1>1. Cur(p) \in Chunk
  BY ChunkStoreAssumption, SMTT(30) DEF TypeOK, Cur
<1>2. HashOf[Cur(p)] \in Nat \ {0}
  BY <1>1, ChunkStoreAssumption
<1>3. HashOf[Cur(p)] % NBuckets \in 0 .. (NBuckets - 1)
  BY <1>2, DivisionBounds, Geometry
<1> QED BY <1>1, <1>2, <1>3, ChunkStoreAssumption
        DEF BucketOf, hashtable_hash, Bucket

\* A cell that is used as a location is a number.
LEMMA LocationIsNat ==
  ASSUME mem \in [Addr -> Cell], NEW x PROVE AsLocation(x) \subseteq Nat
  BY Geometry DEF AsLocation, Cell

LEMMA TypeInit == Init => TypeInv
  BY ChunkStoreAssumption
  DEF Init, TypeInv, TypeOK, CurInv, DoneInv, PCs, Cell, Word, Entry, Alloc

LEMMA TypeStep == TypeInv /\ [Next]_vars => TypeInv'
<1> SUFFICES ASSUME TypeInv, [Next]_vars PROVE TypeInv'
  OBVIOUS
<1> USE Geometry
<1> USE DEF TypeInv, TypeOK, PCs
<1>1. ASSUME NEW p \in Chunker, NEW f \in File, Begin(p, f) PROVE TypeInv'
  <2>1. TypeOK'
    <3>1. list' \in [Chunker -> Seq(Entry)]
      BY <1>1 DEF Begin
    <3> QED BY <1>1, <3>1, SMTT(30) DEF Begin, heapVars, fileVars, ghosts
  <2>2. CurInv'
    BY <1>1 DEF Begin, CurInv
  <2>3. DoneInv'
    BY <1>1 DEF Begin, DoneInv, Cur
  <2> QED BY <2>1, <2>2, <2>3
<1>2. ASSUME NEW p \in Chunker, NoListBlock(p) PROVE TypeInv'
  BY <1>2 DEF NoListBlock, heapVars, chunkerVars, fileVars, ghosts, CurInv,
              DoneInv, Cur
<1>3. ASSUME NEW p \in Chunker, ReadError(p) PROVE TypeInv'
  BY <1>3 DEF ReadError, heapVars, chunkerVars, fileVars, ghosts, CurInv,
              DoneInv, Cur
<1>4. ASSUME NEW p \in Chunker, Append_(p) PROVE TypeInv'
  <2>1. SizeOf[Cur(p)] \in Nat
    BY <1>4, CurIsChunk DEF Append_, CurInv
  <2>2. [location |-> at[p], size |-> SizeOf[Cur(p)]] \in Entry
    BY <2>1 DEF Entry
  <2>3. TypeOK'
    BY <1>4, <2>2, SMTT(30) DEF Append_, heapVars, fileVars, ghosts
  <2> QED BY <1>4, <2>3 DEF Append_, CurInv, DoneInv, Cur
<1>5. ASSUME NEW p \in Chunker, Finish(p) PROVE TypeInv'
  BY <1>5 DEF Finish, heapVars, chunkerVars, fileVars, ghosts, CurInv, DoneInv,
              Cur
<1>6. ASSUME NEW p \in Chunker, SearchTable(p) PROVE TypeInv'
  <2>1. table[BucketOf(Cur(p))] \in Nat
    BY <1>6, CurIsChunk DEF SearchTable
  <2> QED BY <1>6, <2>1 DEF SearchTable, heapVars, chunkerVars, fileVars, ghosts,
                            CurInv, DoneInv, Cur
<1>7. ASSUME NEW p \in Chunker, SearchHash(p) PROVE TypeInv'
  BY <1>7 DEF SearchHash, heapVars, chunkerVars, fileVars, ghosts, CurInv,
              DoneInv, Cur
<1>8. ASSUME NEW p \in Chunker, SearchNext(p) PROVE TypeInv'
  <2>1. AsLocation(NextCell(at[p])) \subseteq Nat
    BY LocationIsNat
  <2> QED BY <1>8, <2>1, SMTT(30)
          DEF SearchNext, heapVars, chunkerVars, fileVars, ghosts, CurInv,
              DoneInv, Cur
<1>9. ASSUME NEW p \in Chunker, AllocLock(p) PROVE TypeInv'
  BY <1>9, AlignHeadSound DEF AllocLock, chunkerVars, fileVars, ghosts, CurInv,
              DoneInv, Cur
<1>10. ASSUME NEW p \in Chunker, AllocBump(p) PROVE TypeInv'
  <2>1. /\ Cur(p) \in Chunk
        /\ SizeOf[Cur(p)] \in Nat
    BY <1>10, CurIsChunk DEF AllocBump, CurInv
  <2>2. [loc |-> brk, c |-> Cur(p)] \in Alloc
    BY <2>1 DEF Alloc
  <2>3. TypeOK'
    <3>1. brk' \in Nat
      BY <1>10, <2>1, Geometry, SMTT(30) DEF AllocBump
    <3>2. allocs' \in SUBSET Alloc /\ at' \in [Chunker -> Nat]
      BY <1>10, <2>2 DEF AllocBump
    <3> QED BY <1>10, <3>1, <3>2 DEF AllocBump, chunkerVars, fileVars
  <2>4. CurInv' /\ DoneInv'
    BY <1>10 DEF AllocBump, chunkerVars, CurInv, DoneInv, Cur
  <2> QED BY <2>3, <2>4
<1>11. ASSUME NEW p \in Chunker, AllocBug(p) PROVE TypeInv'
  <2>1. SizeOf[Cur(p)] \in Nat
    BY <1>11, CurIsChunk DEF AllocBug, CurInv
  <2>2. TypeOK'
    <3>1. brk' \in Nat
      BY <1>11, <2>1 DEF AllocBug
    <3> QED BY <1>11, <3>1 DEF AllocBug, chunkerVars, fileVars, ghosts
  <2>3. CurInv' /\ DoneInv'
    BY <1>11 DEF AllocBug, chunkerVars, CurInv, DoneInv, Cur
  <2> QED BY <2>2, <2>3
<1>12. ASSUME NEW p \in Chunker, ReadBrk(p) PROVE TypeInv'
  BY <1>12 DEF ReadBrk, heapVars, fileVars, ghosts, CurInv, DoneInv, Cur
<1>13. ASSUME NEW p \in Chunker, UpdateBrkOnDisk(p) PROVE TypeInv'
  BY <1>13 DEF UpdateBrkOnDisk, chunkerVars, fileVars, ghosts, CurInv, DoneInv,
               Cur
<1>14. ASSUME NEW p \in Chunker, FillReadEntry(p) PROVE TypeInv'
  <2>1. table[BucketOf(Cur(p))] \in Nat
    BY <1>14, CurIsChunk DEF FillReadEntry, CurInv
  <2> QED BY <1>14, <2>1 DEF FillReadEntry, heapVars, fileVars, ghosts, CurInv,
               DoneInv, Cur
<1>15. ASSUME NEW p \in Chunker, FillPublish(p) PROVE TypeInv'
  BY <1>15 DEF FillPublish, heapVars, chunkerVars, fileVars, ghosts, CurInv,
               DoneInv, Cur
<1>16. ASSUME NEW p \in Chunker, WriteHash(p) PROVE TypeInv'
  <2>1. /\ SizeOf[Cur(p)] \in Nat \ {0}
        /\ HashOf[Cur(p)] \in Nat
    BY <1>16, CurIsChunk DEF WriteHash, CurInv
  <2>2. mem' \in [Addr -> Cell]
    BY <1>16, <2>1 DEF WriteHash, Word, Cell
  <2>3. TypeOK'
    BY <1>16, <2>2 DEF WriteHash, heapVars, fileVars, ghosts
  <2>4. CurInv'
    BY <1>16 DEF WriteHash, CurInv
  <2>5. DoneInv'
    BY <1>16, <2>1, SMTT(30) DEF WriteHash, DoneInv, Cur
  <2> QED BY <2>3, <2>4, <2>5
<1>17. ASSUME NEW p \in Chunker, WriteNext(p) PROVE TypeInv'
  <2>1. SizeOf[Cur(p)] \in Nat \ {0}
    BY <1>17, CurIsChunk DEF WriteNext, CurInv
  <2>2. mem' \in [Addr -> Cell]
    BY <1>17 DEF WriteNext, Word, Cell
  <2>3. TypeOK'
    BY <1>17, <2>2 DEF WriteNext, heapVars, fileVars, ghosts
  <2>4. CurInv'
    BY <1>17 DEF WriteNext, CurInv
  <2>5. DoneInv'
    BY <1>17, <2>1, SMTT(30) DEF WriteNext, DoneInv, Cur
  <2> QED BY <2>3, <2>4, <2>5
<1>18. ASSUME NEW p \in Chunker, WriteData(p) PROVE TypeInv'
  <2>1. /\ Cur(p) \in Chunk
        /\ SizeOf[Cur(p)] \in Nat \ {0}
        /\ done[p] < SizeOf[Cur(p)]
    BY <1>18, CurIsChunk DEF WriteData, CurInv, DoneInv
  <2>2. /\ ToWrite(p) \in Nat \ {0}
        /\ done[p] + ToWrite(p) <= SizeOf[Cur(p)]
    <3>1. DataCell(at[p], done[p]) \in Nat
      BY DEF DataCell
    <3>2. DataCell(at[p], done[p]) % BlockSize \in 0 .. (BlockSize - 1)
      BY <3>1, DivisionBounds, Geometry
    <3> DEFINE m == DataCell(at[p], done[p]) % BlockSize
    <3>3. ToWrite(p) = IF SizeOf[Cur(p)] - done[p] < BlockSize - m
                       THEN SizeOf[Cur(p)] - done[p] ELSE BlockSize - m
      BY DEF ToWrite
    <3>4. done[p] \in Nat /\ BlockSize \in Nat
      BY Geometry
    <3> HIDE DEF m
    <3>5. m \in 0 .. (BlockSize - 1)
      BY <3>2 DEF m
    <3> QED BY <2>1, <3>3, <3>4, <3>5, PieceBounds
  <2>3. mem' \in [Addr -> Cell]
    <3> DEFINE from == DataCell(at[p], done[p])
    <3>1. from \in Nat
      BY DEF DataCell
    <3> HIDE DEF from
    <3>2. ASSUME NEW x \in Addr, x \in from .. (from + ToWrite(p) - 1)
          PROVE  Byte(Cur(p), done[p] + x - from) \in Cell
      <4>1. done[p] + x - from \in Nat
        BY <2>2, <3>1, <3>2, SMTT(30) DEF Addr
      <4> QED BY <2>1, <4>1 DEF Byte, Cell
    <3> USE DEF from
    <3> QED BY <1>18, <3>2 DEF WriteData
  <2>4. done' = [done EXCEPT ![p] = @ + ToWrite(p)]
    BY <1>18 DEF WriteData
  <2>5. [loc |-> at[p], c |-> Cur(p)] \in Alloc
    BY <2>1 DEF Alloc
  <2>6. TypeOK'
    <3>1. done' \in [Chunker -> Nat]
      BY <2>2, <2>4
    <3>2. pc' \in [Chunker -> PCs] /\ complete' \in SUBSET Alloc
      BY <1>18, <2>5 DEF WriteData
    <3> QED BY <1>18, <2>3, <3>1, <3>2 DEF WriteData, heapVars, fileVars
  <2>7. CurInv'
    BY <1>18 DEF WriteData, CurInv
  <2>8. DoneInv'
    <3>1. \A q \in Chunker : q # p => pc'[q] = pc[q] /\ done'[q] = done[q]
      BY <1>18, <2>4 DEF WriteData
    <3>2. pc'[p] = "data" => done'[p] < SizeOf[Cur(p)]
      <4>1. done'[p] = done[p] + ToWrite(p)
        BY <2>4
      <4>2. pc'[p] = "data" => done[p] + ToWrite(p) # SizeOf[Cur(p)]
        BY <1>18 DEF WriteData
      <4>3. done[p] + ToWrite(p) \in Nat
        BY <2>2
      <4> QED BY <2>1, <2>2, <4>1, <4>2, <4>3
    <3> QED BY <1>18, <3>1, <3>2 DEF WriteData, DoneInv, Cur
  <2> QED BY <2>6, <2>7, <2>8
<1>19. CASE Remount
  BY <1>19 DEF Remount, chunkerVars, fileVars, ghosts, CurInv, DoneInv, Cur
<1>20. CASE UNCHANGED vars
  BY <1>20 DEF vars, CurInv, DoneInv, Cur
<1>21. ASSUME NEW p \in Chunker, NoBlock(p) PROVE TypeInv'
  <2>1. TypeOK' /\ DoneInv'
    BY <1>21 DEF NoBlock, heapVars, chunkerVars, fileVars, ghosts, DoneInv, Cur
  <2>2. CurInv'
    BY <1>21 DEF NoBlock, chunkerVars, CurInv
  <2> QED BY <2>1, <2>2
<1> QED BY <1>1, <1>2, <1>3, <1>4, <1>5, <1>6, <1>7, <1>8, <1>9, <1>10, <1>11,
           <1>12, <1>13, <1>14, <1>15, <1>16, <1>17, <1>18, <1>19, <1>20, <1>21
        DEF Next, Step

\* Every variable of the chunk area keeps its type, for any number of
\* chunkers and mounts.
THEOREM TypeCorrect == Spec => []TypeOK
<1>1. Spec => []TypeInv
  BY TypeInit, TypeStep, PTL DEF Spec
<1> QED BY <1>1, PTL DEF TypeInv

-----------------------------------------------------------------------------
(* The heap.                                                               *)

\* What the break on the disk needs: either the file system is mounted once,
\* or only one chunker runs at a time.  With two chunkers and two mounts the
\* break that is read back may be one that was already passed.
Undisturbed == MaxMounts = 1 \/ \A p, q \in Chunker : p = q

\* brk_lock is held from the alignment of the break to its increase.
Exclusive ==
  \A p \in Chunker : pc[p] \in {"bump", "bug"} => brkLock = {p}

\* Where a chunk may be: inside the chunk area, its header in one block.
Placed(a) ==
  /\ HeapBase <= a.loc
  /\ End(a) < MaxBrk
  /\ block_no(a.loc) = block_no(a.loc + HeadSize - 1)

Apart(a, b) == a # b => End(a) <= b.loc \/ End(b) <= a.loc

\* All chunks lie below the break.
BelowBreak ==
  /\ HeapBase <= brk
  /\ \A a \in allocs : Placed(a) /\ End(a) <= brk
  /\ \A a, b \in allocs : Apart(a, b)

\* The holder of the lock has aligned the break.
Aligned ==
  \A p \in Chunker :
    pc[p] = "bump" => block_no(brk) = block_no(brk + HeadSize - 1)

\* Outside chunk_alloc the break on the disk is the one in memory.
Saved ==
  MaxMounts = 1 \/
  \A p \in Chunker :
    /\ pc[p] \notin {"bump", "bug", "snap", "esb", "torn"} => esbBrk = brk
    /\ pc[p] = "esb" => snap[p] = brk

HeapInv == Exclusive /\ BelowBreak /\ Aligned /\ Saved

LEMMA EndAbove ==
  ASSUME NEW a \in Alloc
  PROVE  End(a) \in Nat /\ a.loc \in Nat /\ a.loc + HeadSize < End(a)
  BY ChunkStoreAssumption DEF Alloc, End

LEMMA HeapInit == Init => HeapInv
  BY Geometry DEF Init, HeapInv, Exclusive, BelowBreak, Aligned, Saved

\* Steps that leave the break, its lock and the set of chunks alone.
LEMMA HeapSame ==
  ASSUME HeapInv, TypeOK, NEW p \in Chunker,
         UNCHANGED <<brk, esbBrk, brkLock, snap, allocs>>,
         NEW v \in PCs \ {"bump", "bug", "snap", "esb"},
         pc' = [pc EXCEPT ![p] = v],
         pc[p] \notin {"bump", "bug", "snap", "esb", "torn"}
  PROVE  HeapInv'
  BY DEF HeapInv, Exclusive, BelowBreak, Aligned, Saved, TypeOK, Placed, Apart,
         End

\* The break that is read back is the one that was there.
LEMMA RemountBreak == ASSUME TypeOK, HeapInv, Remount PROVE brk' = brk
<1>1. Chunker # {} /\ mounts \in 1 .. MaxMounts
  BY ChunkStoreAssumption DEF TypeOK
<1> QED BY <1>1, Geometry DEF Remount, HeapInv, Saved

LEMMA HeapStep ==
  ASSUME Undisturbed PROVE TypeInv /\ HeapInv /\ [Next]_vars => HeapInv'
<1> SUFFICES ASSUME TypeInv, HeapInv, [Next]_vars PROVE HeapInv'
  OBVIOUS
<1> USE Geometry
<1>a. TypeOK /\ CurInv
  BY DEF TypeInv
<1>1. ASSUME NEW p \in Chunker, AllocLock(p) PROVE HeapInv'
  <2>1. brk' \in Nat /\ brk <= brk' /\ brk \in Nat
        /\ block_no(brk') = block_no(brk' + HeadSize - 1)
    BY <1>a, <1>1, AlignHeadSound DEF AllocLock, TypeOK
  <2>2. Exclusive'
    BY <1>a, <1>1 DEF AllocLock, HeapInv, Exclusive, TypeOK
  <2>3. BelowBreak'
    <3>1. \A a \in allocs : End(a) \in Nat
      BY <1>a, EndAbove DEF TypeOK
    <3>2. allocs' = allocs /\ HeapBase <= brk'
      BY <1>1, <2>1 DEF AllocLock, ghosts, HeapInv, BelowBreak
    <3>3. \A a \in allocs : Placed(a) /\ End(a) <= brk'
      BY <2>1, <3>1 DEF HeapInv, BelowBreak
    <3>4. \A a, b \in allocs : Apart(a, b)
      BY DEF HeapInv, BelowBreak
    <3> QED BY <3>2, <3>3, <3>4 DEF BelowBreak
  <2>4. Aligned'
    BY <2>1 DEF Aligned
  <2>5. Saved'
    BY <1>a, <1>1 DEF AllocLock, HeapInv, Saved, Undisturbed, TypeOK
  <2> QED BY <2>2, <2>3, <2>4, <2>5 DEF HeapInv
<1>2. ASSUME NEW p \in Chunker, AllocBump(p) PROVE HeapInv'
  <2> DEFINE n == [loc |-> brk, c |-> Cur(p)]
  <2>1. /\ Cur(p) \in Chunk /\ SizeOf[Cur(p)] \in Nat
        /\ brk \in Nat
    BY <1>a, <1>2, CurIsChunk DEF AllocBump, CurInv, TypeOK
  <2>2. /\ brk' = brk + HeadSize + SizeOf[Cur(p)]
        /\ brk' < MaxBrk
        /\ allocs' = allocs \cup {n}
    BY <1>2 DEF AllocBump
  <2>3. n \in Alloc /\ n.loc = brk /\ End(n) = brk'
    BY <2>1, <2>2 DEF Alloc, End
  <2>4. Placed(n)
    BY <1>2, <2>2, <2>3 DEF Placed, HeapInv, BelowBreak, Aligned, AllocBump
  <2>5. Exclusive'
    BY <1>a, <1>2 DEF AllocBump, HeapInv, Exclusive, TypeOK
  <2>6. BelowBreak'
    <3> HIDE DEF n
    <3>1. brk' \in Nat /\ brk <= brk'
      BY <2>1, <2>2
    <3>2. HeapBase <= brk'
      BY <2>1, <3>1 DEF HeapInv, BelowBreak
    <3>3. \A a \in allocs : End(a) \in Nat /\ End(a) <= brk
      BY <1>a, EndAbove DEF TypeOK, HeapInv, BelowBreak
    <3>4. \A a \in allocs' : Placed(a) /\ End(a) <= brk'
      BY <2>1, <2>2, <2>3, <2>4, <3>1, <3>3 DEF HeapInv, BelowBreak
    <3>5. \A a, b \in allocs' : Apart(a, b)
      BY <2>2, <2>3, <3>3 DEF HeapInv, BelowBreak, Apart
    <3> QED BY <3>2, <3>4, <3>5 DEF BelowBreak
  <2>7. Aligned'
    BY <1>a, <1>2 DEF AllocBump, HeapInv, Exclusive, Aligned, TypeOK
  <2>8. Saved'
    BY <1>a, <1>2 DEF AllocBump, HeapInv, Saved, Undisturbed, TypeOK
  <2> QED BY <2>5, <2>6, <2>7, <2>8 DEF HeapInv
<1>3. ASSUME NEW p \in Chunker, AllocBug(p) PROVE HeapInv'
  <2>1. brk \in Nat /\ brk' \in Nat /\ brk <= brk'
    <3>1. SizeOf[Cur(p)] \in Nat /\ brk \in Nat
      BY <1>a, <1>3, CurIsChunk DEF AllocBug, CurInv, TypeOK
    <3> QED BY <1>3, <3>1 DEF AllocBug
  <2>2. Exclusive'
    BY <1>a, <1>3 DEF AllocBug, HeapInv, Exclusive, TypeOK
  <2>3. BelowBreak'
    <3>1. \A a \in allocs : End(a) \in Nat
      BY <1>a, EndAbove DEF TypeOK
    <3>2. allocs' = allocs /\ HeapBase <= brk'
      BY <1>3, <2>1 DEF AllocBug, ghosts, HeapInv, BelowBreak
    <3>3. \A a \in allocs : Placed(a) /\ End(a) <= brk'
      BY <2>1, <3>1 DEF HeapInv, BelowBreak
    <3>4. \A a, b \in allocs : Apart(a, b)
      BY DEF HeapInv, BelowBreak
    <3> QED BY <3>2, <3>3, <3>4 DEF BelowBreak
  <2>4. Aligned'
    BY <1>a, <1>3 DEF AllocBug, HeapInv, Exclusive, Aligned, TypeOK
  <2>5. Saved'
    BY <1>a, <1>3 DEF AllocBug, HeapInv, Saved, Undisturbed, TypeOK
  <2> QED BY <2>2, <2>3, <2>4, <2>5 DEF HeapInv
<1>4. ASSUME NEW p \in Chunker, ReadBrk(p) PROVE HeapInv'
  BY <1>a, <1>4 DEF ReadBrk, heapVars, ghosts, HeapInv, Exclusive, BelowBreak,
         Aligned, Saved, TypeOK, Undisturbed
<1>5. ASSUME NEW p \in Chunker, UpdateBrkOnDisk(p) PROVE HeapInv'
  BY <1>a, <1>5 DEF UpdateBrkOnDisk, chunkerVars, ghosts, HeapInv, Exclusive,
         BelowBreak, Aligned, Saved, TypeOK, Undisturbed
<1>6. CASE Remount
  <2>1. brk' = brk
    BY <1>a, <1>6, RemountBreak
  <2> QED BY <1>6, <2>1 DEF Remount, chunkerVars, ghosts, HeapInv, Exclusive,
         BelowBreak, Aligned, Saved
<1>7. CASE UNCHANGED vars
  BY <1>7 DEF vars, HeapInv, Exclusive, BelowBreak, Aligned, Saved
<1>8. ASSUME NEW p \in Chunker, NEW f \in File, Begin(p, f) PROVE HeapInv'
  BY <1>a, <1>8, HeapSame DEF Begin, heapVars, ghosts, PCs
<1>9. ASSUME NEW p \in Chunker,
             \/ NoListBlock(p) \/ ReadError(p) \/ Append_(p) \/ Finish(p)
             \/ SearchTable(p) \/ SearchHash(p) \/ SearchNext(p)
      PROVE  HeapInv'
  <2> USE DEF heapVars, chunkerVars, ghosts, PCs
  <2>1. CASE NoListBlock(p)
    BY <1>a, <2>1, HeapSame DEF NoListBlock
  <2>2. CASE ReadError(p)
    BY <1>a, <2>2, HeapSame DEF ReadError
  <2>3. CASE Append_(p)
    BY <1>a, <2>3, HeapSame DEF Append_
  <2>4. CASE Finish(p)
    BY <1>a, <2>4, HeapSame DEF Finish
  <2>5. CASE SearchTable(p)
    BY <1>a, <2>5, HeapSame DEF SearchTable
  <2>6. CASE SearchHash(p)
    BY <1>a, <2>6, HeapSame DEF SearchHash
  <2>7. CASE SearchNext(p)
    BY <1>a, <2>7, HeapSame DEF SearchNext
  <2> QED BY <1>9, <2>1, <2>2, <2>3, <2>4, <2>5, <2>6, <2>7
<1>10. ASSUME NEW p \in Chunker,
              \/ FillReadEntry(p) \/ FillPublish(p)
              \/ WriteHash(p) \/ WriteNext(p) \/ WriteData(p)
       PROVE  HeapInv'
  <2> USE DEF heapVars, chunkerVars, ghosts, PCs
  <2>1. CASE FillReadEntry(p)
    BY <1>a, <2>1, HeapSame DEF FillReadEntry
  <2>2. CASE FillPublish(p)
    BY <1>a, <2>2, HeapSame DEF FillPublish
  <2>3. CASE WriteHash(p)
    BY <1>a, <2>3, HeapSame DEF WriteHash
  <2>4. CASE WriteNext(p)
    BY <1>a, <2>4, HeapSame DEF WriteNext
  <2>5. CASE WriteData(p)
    <3>1. pc' = [pc EXCEPT ![p] = "append"] \/ pc' = [pc EXCEPT ![p] = "data"]
      BY <1>a, <2>5 DEF WriteData, TypeOK
    <3> QED BY <1>a, <2>5, <3>1, HeapSame DEF WriteData
  <2> QED BY <1>10, <2>1, <2>2, <2>3, <2>4, <2>5
<1>11. ASSUME NEW p \in Chunker, NoBlock(p) PROVE HeapInv'
  BY <1>a, <1>11 DEF NoBlock, heapVars, chunkerVars, ghosts, HeapInv, Exclusive,
         BelowBreak, Aligned, Saved, TypeOK, Undisturbed
<1> QED BY <1>1, <1>2, <1>3, <1>4, <1>5, <1>6, <1>7, <1>8, <1>9, <1>10, <1>11
        DEF Next, Step

LEMMA HeapAlways == ASSUME Undisturbed PROVE Spec => [](TypeInv /\ HeapInv)
  BY TypeInit, TypeStep, HeapInit, HeapStep, PTL DEF Spec

\* chunk_alloc never hands out room twice, outside the chunk area or with a
\* header across two blocks: for any number of chunkers in one mount, and for
\* any number of mounts when the chunkers take turns.
THEOREM HeapCorrect == ASSUME Undisturbed PROVE Spec => []HeapSound
<1>1. HeapInv => HeapSound
  BY DEF HeapInv, BelowBreak, HeapSound, Placed, Apart
<1> QED BY <1>1, HeapAlways, PTL

-----------------------------------------------------------------------------
(* Ownership: a chunk that is being written belongs to one chunker.        *)

Mine(p) == [loc |-> at[p], c |-> Cur(p)]

Owned ==
  /\ complete \subseteq allocs
  /\ \A p \in Chunker :
       pc[p] \in Filling => Mine(p) \in allocs /\ Mine(p) \notin complete
  /\ \A p, q \in Chunker :
       pc[p] \in Filling /\ pc[q] \in Filling /\ p # q => Mine(p) # Mine(q)

LEMMA OwnedInit == Init => Owned
  BY DEF Init, Owned, Filling

\* Steps that complete no chunk and whose chunker does not begin to own one.
LEMMA OwnedSame ==
  ASSUME Owned, TypeOK, NEW p \in Chunker,
         UNCHANGED <<allocs, complete>>,
         \A q \in Chunker : q # p => pc'[q] = pc[q] /\ Mine(q)' = Mine(q),
         pc'[p] \in Filling => pc[p] \in Filling /\ Mine(p)' = Mine(p)
  PROVE  Owned'
  BY DEF Owned

LEMMA OwnedStep == TypeInv /\ HeapInv /\ Owned /\ [Next]_vars => Owned'
<1> SUFFICES ASSUME TypeInv, HeapInv, Owned, [Next]_vars PROVE Owned'
  OBVIOUS
<1>a. TypeOK /\ CurInv
  BY DEF TypeInv
<1>1. ASSUME NEW p \in Chunker, AllocBump(p) PROVE Owned'
  <2> DEFINE n == [loc |-> brk, c |-> Cur(p)]
  <2>1. /\ Mine(p)' = n
        /\ allocs' = allocs \cup {n}
        /\ complete' = complete
        /\ \A q \in Chunker : q # p => pc'[q] = pc[q] /\ Mine(q)' = Mine(q)
        /\ n.loc = brk
    BY <1>a, <1>1 DEF AllocBump, chunkerVars, Mine, Cur, TypeOK
  <2>2. n \notin allocs
    <3> HIDE DEF n
    <3>1. \A a \in allocs : a.loc \in Nat /\ End(a) \in Nat
                            /\ a.loc < End(a) /\ End(a) <= brk
      BY <1>a, EndAbove, Geometry DEF HeapInv, BelowBreak, TypeOK
    <3>2. brk \in Nat
      BY <1>a DEF TypeOK
    <3> QED BY <2>1, <3>1, <3>2
  <2> HIDE DEF n
  <2>3. complete' \subseteq allocs'
    BY <2>1 DEF Owned
  <2>4. \A q \in Chunker : pc'[q] \in Filling =>
          Mine(q)' \in allocs' /\ Mine(q)' \notin complete'
    BY <2>1, <2>2 DEF Owned
  <2>5. \A q, r \in Chunker :
          pc'[q] \in Filling /\ pc'[r] \in Filling /\ q # r =>
            Mine(q)' # Mine(r)'
    BY <2>1, <2>2 DEF Owned
  <2> QED BY <2>3, <2>4, <2>5 DEF Owned
<1>2. ASSUME NEW p \in Chunker, WriteData(p) PROVE Owned'
  <2>1. /\ \A q \in Chunker : Mine(q)' = Mine(q)
        /\ \A q \in Chunker : q # p => pc'[q] = pc[q]
        /\ allocs' = allocs
        /\ pc[p] \in Filling
    BY <1>a, <1>2 DEF WriteData, Mine, Cur, TypeOK, Filling
  <2>2. CASE pc'[p] = "append" /\ complete' = complete \cup {Mine(p)}
    BY <2>1, <2>2 DEF Owned, Filling
  <2>3. CASE UNCHANGED <<pc, complete>>
    BY <1>a, <2>1, <2>3, OwnedSame
  <2> QED BY <1>a, <1>2, <2>2, <2>3 DEF WriteData, Mine, TypeOK
<1>3. CASE Remount
  BY <1>3 DEF Remount, chunkerVars, ghosts, Owned, Mine, Cur
<1>4. CASE UNCHANGED vars
  BY <1>4 DEF vars, Owned, Mine, Cur
<1> USE DEF Mine, Cur, Filling, TypeOK, ghosts, chunkerVars
<1>5. ASSUME NEW p \in Chunker, NEW f \in File, Begin(p, f) PROVE Owned'
  BY <1>a, <1>5, OwnedSame DEF Begin
<1>6. ASSUME NEW p \in Chunker,
             \/ NoListBlock(p) \/ NoBlock(p) \/ ReadError(p) \/ Append_(p) \/ Finish(p)
             \/ SearchTable(p) \/ SearchHash(p) \/ SearchNext(p)
             \/ AllocLock(p) \/ AllocBug(p)
      PROVE  Owned'
  <2>1. CASE NoListBlock(p)
    BY <1>a, <2>1, OwnedSame DEF NoListBlock
  <2>2. CASE ReadError(p)
    BY <1>a, <2>2, OwnedSame DEF ReadError
  <2>3. CASE Append_(p)
    BY <1>a, <2>3, OwnedSame DEF Append_
  <2>4. CASE Finish(p)
    BY <1>a, <2>4, OwnedSame DEF Finish
  <2>5. CASE SearchTable(p)
    BY <1>a, <2>5, OwnedSame DEF SearchTable
  <2>6. CASE SearchHash(p)
    BY <1>a, <2>6, OwnedSame DEF SearchHash
  <2>7. CASE SearchNext(p)
    BY <1>a, <2>7, OwnedSame DEF SearchNext
  <2>8. CASE AllocLock(p)
    BY <1>a, <2>8, OwnedSame DEF AllocLock
  <2>9. CASE AllocBug(p)
    BY <1>a, <2>9, OwnedSame DEF AllocBug
  <2>10. CASE NoBlock(p)
    BY <1>a, <2>10, OwnedSame DEF NoBlock
  <2> QED BY <1>6, <2>1, <2>2, <2>3, <2>4, <2>5, <2>6, <2>7, <2>8, <2>9, <2>10
<1>7. ASSUME NEW p \in Chunker,
             \/ ReadBrk(p) \/ UpdateBrkOnDisk(p) \/ FillReadEntry(p)
             \/ FillPublish(p) \/ WriteHash(p) \/ WriteNext(p)
      PROVE  Owned'
  <2>1. CASE ReadBrk(p)
    BY <1>a, <2>1, OwnedSame DEF ReadBrk
  <2>2. CASE UpdateBrkOnDisk(p)
    BY <1>a, <2>2, OwnedSame DEF UpdateBrkOnDisk
  <2>3. CASE FillReadEntry(p)
    BY <1>a, <2>3, OwnedSame DEF FillReadEntry
  <2>4. CASE FillPublish(p)
    BY <1>a, <2>4, OwnedSame DEF FillPublish
  <2>5. CASE WriteHash(p)
    BY <1>a, <2>5, OwnedSame DEF WriteHash
  <2>6. CASE WriteNext(p)
    BY <1>a, <2>6, OwnedSame DEF WriteNext
  <2> QED BY <1>7, <2>1, <2>2, <2>3, <2>4, <2>5, <2>6
<1> QED BY <1>1, <1>2, <1>3, <1>4, <1>5, <1>6, <1>7 DEF Next, Step

-----------------------------------------------------------------------------
(* Only the owner of a chunk writes into it.                               *)

\* A step changes no cell but those of the chunk its chunker owns.
WritesInto(p) ==
  pc[p] \in Filling /\ \A x \in Addr : mem'[x] # mem[x] => x \in Extent(Mine(p))

\* What is not the chunk of the writing chunker stays as it is.
LEMMA WriteFrame ==
  ASSUME TypeInv, HeapInv, Owned, NEW p \in Chunker, WritesInto(p),
         NEW a \in allocs, a # Mine(p)
  PROVE  \A x \in Extent(a) : x \in Addr /\ mem'[x] = mem[x]
<1>1. /\ Mine(p) \in allocs
      /\ Placed(a) /\ Apart(a, Mine(p))
  BY DEF Owned, HeapInv, BelowBreak, WritesInto
<1>2. /\ a.loc \in Nat /\ End(a) \in Nat
      /\ Mine(p).loc \in Nat /\ End(Mine(p)) \in Nat
  BY <1>1, EndAbove DEF TypeInv, TypeOK
<1>3. \A x \in Extent(a) : x \in Addr /\ x \notin Extent(Mine(p))
  BY <1>1, <1>2, Geometry DEF Extent, Addr, Placed, Apart
<1> QED BY <1>3 DEF WritesInto

LEMMA StepWrites ==
  ASSUME TypeInv, NEW p \in Chunker,
         WriteHash(p) \/ WriteNext(p) \/ WriteData(p)
  PROVE  WritesInto(p)
<1> USE Geometry
<1>1. /\ pc[p] \in Filling /\ at[p] \in Nat /\ mem \in [Addr -> Cell]
      /\ k[p] <= Len(FileChunks[file[p]])
      /\ pc[p] = "data" => done[p] < SizeOf[Cur(p)]
      /\ done[p] \in Nat
  BY DEF WriteHash, WriteNext, WriteData, Filling, TypeInv, TypeOK, CurInv,
         DoneInv
<1>2. SizeOf[Cur(p)] \in Nat \ {0}
  BY <1>1, CurIsChunk DEF TypeInv
<1>3. \A x \in Addr :
        at[p] <= x /\ x < at[p] + HeadSize + SizeOf[Cur(p)] =>
          x \in Extent(Mine(p))
  <2>1. Mine(p).loc = at[p] /\ End(Mine(p)) = at[p] + HeadSize + SizeOf[Cur(p)]
    BY DEF Mine, End
  <2> QED BY <1>1, <1>2, <2>1 DEF Extent, Addr
<1>4. CASE WriteHash(p)
  <2>1. \A x \in Addr : mem'[x] # mem[x] =>
                          at[p] <= x /\ x <= at[p] + HeadSize - 2
    BY <1>1, <1>4 DEF WriteHash, HashCells, Addr
  <2> QED BY <1>1, <1>2, <1>3, <2>1, SMTT(30) DEF WritesInto, Addr
<1>5. CASE WriteNext(p)
  <2>1. \A x \in Addr : mem'[x] # mem[x] => x = at[p] + HeadSize - 1
    BY <1>1, <1>5 DEF WriteNext, NextCell
  <2> QED BY <1>1, <1>2, <1>3, <2>1, SMTT(30) DEF WritesInto, Addr
<1>6. CASE WriteData(p)
  <2> DEFINE from == DataCell(at[p], done[p])
  <2>1. from = at[p] + HeadSize + done[p]
    BY DEF DataCell
  <2>2. ToWrite(p) \in Int /\ ToWrite(p) <= SizeOf[Cur(p)] - done[p]
    <3>1. from % BlockSize \in Int
      <4>1. from \in Nat
        BY <1>1, <2>1
      <4> QED BY <4>1, DivisionBounds
    <3> QED BY <1>1, <1>2, <3>1 DEF ToWrite
  <2>3. \A x \in Addr : mem'[x] # mem[x] => x \in from .. (from + ToWrite(p) - 1)
    BY <1>6 DEF WriteData
  <2> HIDE DEF from
  <2>4. \A x \in Addr : mem'[x] # mem[x] =>
                          from <= x /\ x <= from + ToWrite(p) - 1
    BY <1>1, <2>1, <2>2, <2>3 DEF Addr
  <2>5. ASSUME NEW x \in Addr, mem'[x] # mem[x]
        PROVE  at[p] <= x /\ x < at[p] + HeadSize + SizeOf[Cur(p)]
    <3>1. x \in Int /\ from <= x /\ x <= from + ToWrite(p) - 1
      BY <2>4, <2>5 DEF Addr
    <3> QED BY <1>1, <1>2, <2>1, <2>2, <3>1, SMTT(30)
  <2> QED BY <1>1, <1>3, <2>5 DEF WritesInto
<1> QED BY <1>4, <1>5, <1>6

\* A step changes no cell at all or is a write of the owner.
LEMMA StepKinds ==
  ASSUME TypeInv, [Next]_vars
  PROVE  mem' = mem \/ \E p \in Chunker : WritesInto(p)
<1>1. \/ mem' = mem
      \/ \E p \in Chunker : WriteHash(p) \/ WriteNext(p) \/ WriteData(p)
  BY DEF Next, Step, Begin, NoListBlock, NoBlock, ReadError, Append_, Finish, SearchTable,
         SearchHash, SearchNext, AllocLock, AllocBump, AllocBug, ReadBrk,
         UpdateBrkOnDisk, FillReadEntry, FillPublish, Remount, vars
<1> QED BY <1>1, StepWrites

LEMMA Immutable ==
  ASSUME TypeInv, HeapInv, Owned, [Next]_vars
  PROVE  \A a \in complete : \A x \in Extent(a) : mem'[x] = mem[x]
<1>1. CASE mem' = mem
  BY <1>1
<1>2. ASSUME NEW p \in Chunker, WritesInto(p)
      PROVE  \A a \in complete : \A x \in Extent(a) : mem'[x] = mem[x]
  <2>1. \A a \in complete : a \in allocs /\ a # Mine(p)
    BY <1>2 DEF Owned, WritesInto
  <2> QED BY <1>2, <2>1, WriteFrame
<1> QED BY <1>1, <1>2, StepKinds

LEMMA OwnedAlways ==
  ASSUME Undisturbed PROVE Spec => [](TypeInv /\ HeapInv /\ Owned)
  BY HeapAlways, OwnedInit, OwnedStep, PTL DEF Spec

\* A chunk that has been written is never written again, whatever the other
\* chunkers do: readme.md's ground for reading chunks without a lock.
THEOREM ChunksStay == ASSUME Undisturbed PROVE Spec => ChunksImmutable
<1>1. TypeInv /\ HeapInv /\ Owned /\ [Next]_vars =>
        [\A a \in complete : \A x \in Extent(a) : mem'[x] = mem[x]]_vars
  BY Immutable
<1> QED BY <1>1, OwnedAlways, PTL DEF Spec, ChunksImmutable

-----------------------------------------------------------------------------
(* The table and its chains.                                               *)

\* The heap above the break has never been written.
ZeroAbove == \A x \in Addr : brk <= x => mem[x] = Word(0)

\* A location that ends a chain or names a chunk of bucket b.
Leads(n, b) == n # 0 => \E a \in allocs : a.loc = n /\ BucketOf(a.c) = b

\* The word next of a chunk, written or not yet.
NextSound(a) ==
  LET n == mem[NextCell(a.loc)]
  IN n[1] = "word" /\ Leads(n[2], BucketOf(a.c))

\* The locations that a chunker holds.
CursorSound(p) ==
  /\ pc[p] \in {"walk", "next"} => at[p] # 0 /\ Leads(at[p], BucketOf(Cur(p)))
  /\ pc[p] \in {"publish", "head", "hashed", "linked"} =>
       Leads(nxt[p], BucketOf(Cur(p)))

TableInv ==
  /\ ZeroAbove
  /\ \A b \in Bucket : Leads(table[b], b)
  /\ \A a \in allocs : NextSound(a)
  /\ \A p \in Chunker : CursorSound(p)

LEMMA TableInit == Init => TableInv
  BY Geometry
  DEF Init, TableInv, ZeroAbove, Leads, NextSound, CursorSound

\* Steps that write no cell and no bucket: the other chunkers' cursors are
\* theirs, so what is left to show is the cursor of the one that moves.
LEMMA TableSame ==
  ASSUME TableInv, TypeOK, NEW p \in Chunker,
         mem' = mem, allocs' = allocs, brk' \in Nat, brk <= brk',
         table' = table,
         \A q \in Chunker : q # p =>
           /\ pc'[q] = pc[q] /\ at'[q] = at[q] /\ nxt'[q] = nxt[q]
           /\ Cur(q)' = Cur(q),
         CursorSound(p)'
  PROVE  TableInv'
<1>1. ZeroAbove'
  BY Geometry DEF TableInv, ZeroAbove, TypeOK, Addr
<1>2. \A b \in Bucket : Leads(table[b], b)'
  BY DEF TableInv, Leads
<1>3. \A a \in allocs' : NextSound(a)'
  BY DEF TableInv, NextSound, Leads
<1>4. \A q \in Chunker : CursorSound(q)'
  <2>1. ASSUME NEW q \in Chunker, q # p PROVE CursorSound(q)'
    BY <2>1 DEF TableInv, CursorSound, Leads
  <2> QED BY <2>1
<1> QED BY <1>1, <1>2, <1>3, <1>4 DEF TableInv

\* A write into the chunk of its owner, whose header afterwards is sound.
LEMMA TableWrite ==
  ASSUME TypeInv, HeapInv, Owned, TableInv, NEW p \in Chunker, WritesInto(p),
         UNCHANGED <<brk, table, at, nxt, file, k, allocs>>,
         mem' \in [Addr -> Cell],
         \A q \in Chunker : q # p => pc'[q] = pc[q],
         pc'[p] \in {"hashed", "linked"} => pc[p] = "head",
         pc'[p] \in {"hashed", "linked", "data", "append"},
         \A a \in allocs : a = Mine(p) => NextSound(a)'
  PROVE  TableInv'
<1>1. ZeroAbove'
  <2>1. Mine(p) \in allocs /\ End(Mine(p)) <= brk /\ End(Mine(p)) \in Nat
        /\ Mine(p).loc \in Nat /\ brk \in Nat
    BY EndAbove DEF Owned, WritesInto, HeapInv, BelowBreak, TypeInv, TypeOK
  <2>2. \A x \in Addr : brk <= x => x \notin Extent(Mine(p))
    BY <2>1, Geometry DEF Extent, Addr
  <2> QED BY <2>2 DEF WritesInto, ZeroAbove, TableInv
<1>2. \A b \in Bucket : Leads(table[b], b)'
  BY DEF TableInv, Leads
<1>3. ASSUME NEW a \in allocs PROVE NextSound(a)'
  <2>1. CASE a = Mine(p)
    BY <2>1
  <2>2. CASE a # Mine(p)
    <3>1. NextCell(a.loc) \in Extent(a)
      BY EndAbove, Geometry, SMTT(30) DEF NextCell, Extent, TypeInv, TypeOK
    <3>2. mem'[NextCell(a.loc)] = mem[NextCell(a.loc)]
      BY <2>2, <3>1, WriteFrame
    <3> QED BY <3>2 DEF TableInv, NextSound, Leads
  <2> QED BY <2>1, <2>2
<1>4. ASSUME NEW q \in Chunker PROVE CursorSound(q)'
  BY DEF TableInv, CursorSound, Leads, Cur
<1> QED BY <1>1, <1>2, <1>3, <1>4 DEF TableInv

LEMMA TableStep ==
  TypeInv /\ HeapInv /\ Owned /\ TableInv /\ [Next]_vars => TableInv'
<1> SUFFICES ASSUME TypeInv, HeapInv, Owned, TableInv, [Next]_vars
             PROVE  TableInv'
  OBVIOUS
<1>a. TypeOK /\ CurInv /\ brk \in Nat /\ brk <= brk
  BY DEF TypeInv, TypeOK
<1> USE DEF heapVars, chunkerVars, ghosts
<1>1. ASSUME NEW p \in Chunker, NEW f \in File, Begin(p, f) PROVE TableInv'
  <2>1. CursorSound(p)'
    BY <1>a, <1>1 DEF Begin, CursorSound, TypeOK
  <2> QED BY <1>a, <1>1, <2>1, TableSame DEF Begin, Cur, TypeOK
<1>2. ASSUME NEW p \in Chunker,
             NoListBlock(p) \/ NoBlock(p) \/ ReadError(p) \/ Finish(p)
      PROVE  TableInv'
  <2>1. CursorSound(p)'
    BY <1>a, <1>2 DEF NoListBlock, NoBlock, ReadError, Finish, CursorSound, TypeOK
  <2> QED BY <1>a, <1>2, <2>1, TableSame
          DEF NoListBlock, NoBlock, ReadError, Finish, Cur, TypeOK
<1>3. ASSUME NEW p \in Chunker, Append_(p) PROVE TableInv'
  <2>1. CursorSound(p)'
    BY <1>a, <1>3 DEF Append_, CursorSound, TypeOK
  <2> QED BY <1>a, <1>3, <2>1, TableSame DEF Append_, Cur, TypeOK
<1>4. ASSUME NEW p \in Chunker, SearchTable(p) PROVE TableInv'
  <2>1. BucketOf(Cur(p)) \in Bucket
    BY <1>a, <1>4, CurIsChunk DEF SearchTable
  <2>2. Leads(table[BucketOf(Cur(p))], BucketOf(Cur(p)))
    BY <2>1 DEF TableInv
  <2>3. Cur(p)' = Cur(p) /\ allocs' = allocs
    BY <1>4 DEF SearchTable, Cur
  <2>4. CursorSound(p)'
    BY <1>a, <1>4, <2>2, <2>3 DEF SearchTable, CursorSound, Leads, TypeOK
  <2> QED BY <1>a, <1>4, <2>4, TableSame DEF SearchTable, Cur, TypeOK
<1>5. ASSUME NEW p \in Chunker, SearchHash(p) PROVE TableInv'
  <2>1. Cur(p)' = Cur(p) /\ allocs' = allocs
    BY <1>5 DEF SearchHash, Cur
  <2>2. CursorSound(p)'
    BY <1>a, <1>5, <2>1 DEF SearchHash, CursorSound, Leads, TypeOK, TableInv
  <2> QED BY <1>a, <1>5, <2>2, TableSame DEF SearchHash, Cur, TypeOK
<1>6. ASSUME NEW p \in Chunker, SearchNext(p) PROVE TableInv'
  <2>1. Cur(p)' = Cur(p) /\ allocs' = allocs
    BY <1>6 DEF SearchNext, Cur
  <2>2. PICK a \in allocs : a.loc = at[p] /\ BucketOf(a.c) = BucketOf(Cur(p))
    BY <1>6 DEF SearchNext, TableInv, CursorSound, Leads
  <2>3. NextCell(at[p]) \in Addr
    BY <1>a, <2>2, EndAbove, Geometry, SMTT(30)
    DEF HeapInv, BelowBreak, Placed, NextCell, Addr, TypeOK
  <2>4. /\ AsLocation(NextCell(at[p])) = {mem[NextCell(at[p])][2]}
        /\ Leads(mem[NextCell(at[p])][2], BucketOf(Cur(p)))
    BY <2>2, <2>3 DEF TableInv, NextSound, AsLocation
  <2>5. CursorSound(p)'
    BY <1>a, <1>6, <2>1, <2>4 DEF SearchNext, CursorSound, Leads, TypeOK
  <2> QED BY <1>a, <1>6, <2>5, TableSame DEF SearchNext, Cur, TypeOK
<1>7. ASSUME NEW p \in Chunker, AllocLock(p) PROVE TableInv'
  <2>1. brk' \in Nat /\ brk <= brk'
    BY <1>a, <1>7, AlignHeadSound DEF AllocLock
  <2>2. CursorSound(p)'
    BY <1>a, <1>7 DEF AllocLock, CursorSound, TypeOK
  <2> QED BY <1>a, <1>7, <2>1, <2>2, TableSame DEF AllocLock, Cur, TypeOK
<1>8. ASSUME NEW p \in Chunker, AllocBug(p) PROVE TableInv'
  <2>1. SizeOf[Cur(p)] \in Nat
    BY <1>a, <1>8, CurIsChunk DEF AllocBug, CurInv
  <2>2. brk' \in Nat /\ brk <= brk'
    BY <1>a, <1>8, <2>1, Geometry DEF AllocBug
  <2>3. CursorSound(p)'
    BY <1>a, <1>8 DEF AllocBug, CursorSound, TypeOK
  <2> QED BY <1>a, <1>8, <2>2, <2>3, TableSame DEF AllocBug, Cur, TypeOK
<1>9. ASSUME NEW p \in Chunker, AllocBump(p) PROVE TableInv'
  <2> DEFINE n == [loc |-> brk, c |-> Cur(p)]
  <2>1. SizeOf[Cur(p)] \in Nat
    BY <1>a, <1>9, CurIsChunk DEF AllocBump, CurInv
  <2>2. /\ brk' = brk + HeadSize + SizeOf[Cur(p)] /\ brk' < MaxBrk
        /\ mem' = mem /\ table' = table
        /\ allocs' = allocs \cup {n} /\ n.loc = brk
        /\ HeapBase <= brk
    BY <1>9 DEF AllocBump, HeapInv, BelowBreak
  <2>3. mem[NextCell(n.loc)] = Word(0)
    <3>1. NextCell(brk) \in Addr /\ brk <= NextCell(brk)
      BY <1>a, <2>1, <2>2, Geometry DEF NextCell, Addr
    <3> QED BY <2>2, <3>1 DEF TableInv, ZeroAbove
  <2> HIDE DEF n
  <2>4. ZeroAbove'
    <3>1. \A x \in Addr : brk' <= x => brk <= x
      BY <1>a, <2>1, <2>2, Geometry DEF Addr
    <3> QED BY <2>2, <3>1 DEF TableInv, ZeroAbove
  <2>5. \A b \in Bucket : Leads(table[b], b)'
    BY <2>2 DEF TableInv, Leads
  <2>6. \A a \in allocs' : NextSound(a)'
    <3>1. \A a \in allocs : NextSound(a)'
      BY <2>2 DEF TableInv, NextSound, Leads
    <3>2. ASSUME NEW a \in allocs', a = n PROVE NextSound(a)'
      <4>1. mem'[NextCell(a.loc)] = <<"word", 0>>
        BY <2>2, <2>3, <3>2 DEF Word
      <4> QED BY <4>1 DEF NextSound, Leads
    <3> QED BY <2>2, <3>1, <3>2
  <2>7. ASSUME NEW q \in Chunker PROVE CursorSound(q)'
    <3>1. Cur(q)' = Cur(q) /\ nxt'[q] = nxt[q]
      BY <1>9 DEF AllocBump, Cur
    <3>2. CASE q = p
      BY <1>a, <1>9, <3>2 DEF AllocBump, CursorSound, TypeOK
    <3>3. CASE q # p
      <4>1. pc'[q] = pc[q] /\ at'[q] = at[q]
        BY <1>a, <1>9, <3>3 DEF AllocBump, TypeOK
      <4> QED BY <2>2, <3>1, <4>1 DEF TableInv, CursorSound, Leads
    <3> QED BY <3>2, <3>3
  <2> QED BY <2>4, <2>5, <2>6, <2>7 DEF TableInv
<1>10. ASSUME NEW p \in Chunker, ReadBrk(p) \/ UpdateBrkOnDisk(p)
       PROVE  TableInv'
  <2>1. CursorSound(p)'
    BY <1>a, <1>10 DEF ReadBrk, UpdateBrkOnDisk, CursorSound, TypeOK
  <2> QED BY <1>a, <1>10, <2>1, TableSame DEF ReadBrk, UpdateBrkOnDisk, Cur,
             TypeOK
<1>11. ASSUME NEW p \in Chunker, FillReadEntry(p) PROVE TableInv'
  <2>1. BucketOf(Cur(p)) \in Bucket
    BY <1>a, <1>11, CurIsChunk DEF FillReadEntry, CurInv
  <2>2. Leads(table[BucketOf(Cur(p))], BucketOf(Cur(p)))
    BY <2>1 DEF TableInv
  <2>3. Cur(p)' = Cur(p) /\ allocs' = allocs
    BY <1>11 DEF FillReadEntry, Cur
  <2>4. CursorSound(p)'
    BY <1>a, <1>11, <2>2, <2>3 DEF FillReadEntry, CursorSound, Leads, TypeOK
  <2> QED BY <1>a, <1>11, <2>4, TableSame DEF FillReadEntry, Cur, TypeOK
<1>12. ASSUME NEW p \in Chunker, FillPublish(p) PROVE TableInv'
  <2>1. BucketOf(Cur(p)) \in Bucket
    BY <1>a, <1>12, CurIsChunk DEF FillPublish, CurInv
  <2>2. Mine(p) \in allocs /\ Mine(p).loc = at[p] /\ Mine(p).c = Cur(p)
    BY <1>12 DEF Owned, Mine, FillPublish, Filling
  <2>3. /\ table' = [table EXCEPT ![BucketOf(Cur(p))] = at[p]]
        /\ mem' = mem /\ allocs' = allocs /\ brk' = brk
        /\ \A q \in Chunker : /\ Cur(q)' = Cur(q)
                              /\ at'[q] = at[q] /\ nxt'[q] = nxt[q]
        /\ \A q \in Chunker : q # p => pc'[q] = pc[q]
        /\ pc[p] = "publish" /\ pc'[p] = "head"
    BY <1>a, <1>12 DEF FillPublish, Cur, TypeOK
  <2>4. Leads(at[p], BucketOf(Cur(p)))
    BY <2>2 DEF Leads
  <2>5. ZeroAbove'
    BY <2>3 DEF TableInv, ZeroAbove
  <2>6. \A b \in Bucket : Leads(table[b], b)'
    <3>1. \A b \in Bucket : table'[b] = IF b = BucketOf(Cur(p)) THEN at[p]
                                        ELSE table[b]
      BY <1>a, <2>3 DEF TypeOK
    <3> QED BY <2>3, <2>4, <3>1 DEF TableInv, Leads
  <2>7. \A a \in allocs' : NextSound(a)'
    BY <2>3 DEF TableInv, NextSound, Leads
  <2>8. \A q \in Chunker : CursorSound(q)'
    BY <2>3 DEF TableInv, CursorSound, Leads
  <2> QED BY <2>5, <2>6, <2>7, <2>8 DEF TableInv
<1>13. ASSUME NEW p \in Chunker, WriteHash(p) \/ WriteNext(p) \/ WriteData(p)
       PROVE  TableInv'
  <2>1. WritesInto(p) /\ TypeOK'
    BY <1>13, StepWrites, TypeStep DEF TypeInv
  <2>2. /\ UNCHANGED <<brk, table, at, nxt, file, k, allocs>>
        /\ mem' \in [Addr -> Cell]
        /\ \A q \in Chunker : q # p => pc'[q] = pc[q]
        /\ pc'[p] \in {"hashed", "linked"} => pc[p] = "head"
        /\ pc'[p] \in {"hashed", "linked", "data", "append"}
    <3>1. mem' \in [Addr -> Cell]
      BY <2>1 DEF TypeOK
    <3>2. pc \in [Chunker -> PCs]
      BY <1>a DEF TypeOK
    <3>3. CASE WriteHash(p)
      BY <3>1, <3>2, <3>3 DEF WriteHash, heapVars, ghosts
    <3>4. CASE WriteNext(p)
      BY <3>1, <3>2, <3>4 DEF WriteNext, heapVars, ghosts
    <3>5. CASE WriteData(p)
      <4>1. /\ pc[p] = "data"
            /\ pc' = [pc EXCEPT ![p] = "append"] \/ pc' = pc
            /\ UNCHANGED <<brk, table, at, nxt, file, k, allocs>>
        BY <3>5 DEF WriteData, heapVars
      <4> QED BY <3>1, <3>2, <4>1
    <3> QED BY <1>13, <3>3, <3>4, <3>5
  <2>3. /\ Mine(p) \in allocs /\ Mine(p).loc = at[p] /\ Mine(p).c = Cur(p)
        /\ Mine(p)' = Mine(p)
    BY <2>1, <2>2 DEF Owned, WritesInto, Mine, Cur
  <2>4. NextSound(Mine(p))
    BY <2>3 DEF TableInv
  <2>5. NextCell(at[p]) \in Addr /\ at[p] \in Nat
    BY <1>a, <2>3, EndAbove, Geometry, SMTT(30)
    DEF HeapInv, BelowBreak, Placed, NextCell, Addr, TypeOK
  <2>8. \/ mem'[NextCell(at[p])] = mem[NextCell(at[p])]
        \/ mem'[NextCell(at[p])] = Word(nxt[p]) /\ WriteNext(p)
    <3>1. CASE WriteHash(p)
      BY <2>5, <3>1, Geometry DEF WriteHash, HashCells, NextCell
    <3>2. CASE WriteNext(p)
      BY <1>a, <2>5, <3>2 DEF WriteNext, TypeOK
    <3>3. CASE WriteData(p)
      <4> DEFINE from == DataCell(at[p], done[p])
      <4>1. NextCell(at[p]) < from /\ from \in Nat
        BY <1>a, <2>5, Geometry DEF NextCell, DataCell, TypeOK
      <4>2. NextCell(at[p]) \notin from .. (from + ToWrite(p) - 1)
        BY <2>5, <4>1 DEF Addr
      <4> QED BY <2>5, <3>3, <4>2 DEF WriteData
    <3> QED BY <1>13, <3>1, <3>2, <3>3
  <2>9. ASSUME NEW a \in allocs, a = Mine(p) PROVE NextSound(a)'
    <3>1. CASE mem'[NextCell(a.loc)] = mem[NextCell(a.loc)]
      BY <2>2, <2>4, <2>9, <3>1 DEF NextSound, Leads
    <3>2. CASE mem'[NextCell(a.loc)] = <<"word", nxt[p]>> /\ WriteNext(p)
      <4>1. Leads(nxt[p], BucketOf(a.c))
        BY <2>3, <2>9, <3>2 DEF TableInv, CursorSound, WriteNext
      <4> QED BY <2>2, <3>2, <4>1 DEF NextSound, Leads
    <3> QED BY <2>3, <2>8, <2>9, <3>1, <3>2 DEF Word
  <2> QED BY <2>1, <2>2, <2>9, TableWrite
<1>14. CASE Remount
  <2>1. brk' = brk
    BY <1>a, <1>14, RemountBreak
  <2> QED BY <1>14, <2>1 DEF Remount, TableInv, ZeroAbove, Leads, NextSound,
                             CursorSound, Cur
<1>15. CASE UNCHANGED vars
  BY <1>15 DEF vars, TableInv, ZeroAbove, Leads, NextSound, CursorSound, Cur
<1> QED BY <1>1, <1>2, <1>3, <1>4, <1>5, <1>6, <1>7, <1>8, <1>9, <1>10, <1>11,
           <1>12, <1>13, <1>14, <1>15 DEF Next, Step

LEMMA TableAlways ==
  ASSUME Undisturbed PROVE Spec => [](TypeInv /\ HeapInv /\ Owned /\ TableInv)
  BY OwnedAlways, TableInit, TableStep, PTL DEF Spec

\* Every bucket, every chain and every running search of the hash table stays
\* among the chunks of its bucket, with any number of chunkers filling the
\* table without a lock.
THEOREM TableCorrect == ASSUME Undisturbed PROVE Spec => []TableSound
<1>1. Owned /\ TableInv => TableSound
  BY DEF Owned, TableInv, TableSound, NextSound, CursorSound, Leads, InBucket
<1> QED BY <1>1, TableAlways, PTL

-----------------------------------------------------------------------------
(* What is in storage and what the lists name, with any number of chunkers. *)

\* The bytes of a written chunk, and of the part that is written, are there.
Stored ==
  /\ \A a \in complete : \A i \in 0 .. (SizeOf[a.c] - 1) :
       mem[DataCell(a.loc, i)] = Byte(a.c, i)
  /\ \A p \in Chunker : pc[p] = "data" =>
       \A i \in 0 .. (done[p] - 1) : mem[DataCell(at[p], i)] = Byte(Cur(p), i)

\* The hash of a chunk is not written yet or is its own.
Hashed == \A a \in allocs : mem[a.loc] \in {Word(0), Word(HashOf[a.c])}

\* A chunk is written, or somebody is writing it or was killed while writing it.
Pending ==
  \A a \in allocs :
    a \in complete \/ \E p \in Chunker : pc[p] \in Unfinished /\ Mine(p) = a

\* The entry leads to a chunk with content c.
Names(e, c) == [loc |-> e.location, c |-> c] \in allocs /\ e.size = SizeOf[c]

\* The list of a chunker names the chunks that it has cut so far.
ListSound(p) ==
  /\ Len(list[p]) = k[p] - 1 /\ k[p] - 1 <= Len(FileChunks[file[p]])
  /\ \A i \in 1 .. (k[p] - 1) : Names(list[p][i], FileChunks[file[p]][i])

Listed ==
  /\ \A p \in Chunker : pc[p] # "idle" => ListSound(p)
  /\ \A p \in Chunker : pc[p] = "append" => Mine(p) \in allocs
  /\ \A f \in chunked :
       /\ Len(fileList[f]) = Len(FileChunks[f])
       /\ \A i \in 1 .. Len(FileChunks[f]) : Names(fileList[f][i], FileChunks[f][i])

ReadInv == Stored /\ Hashed /\ Pending /\ Listed

-----------------------------------------------------------------------------
Sole == \A p, q \in Chunker : p = q

\* The chunk after a in its chain is the next one below it in the heap.
ChainSound(a) ==
  LET n == mem[NextCell(a.loc)][2]
  IN /\ n < a.loc
     /\ \A b \in complete : BucketOf(b.c) = BucketOf(a.c) /\ b.loc < a.loc => b.loc <= n

ChainInv ==
  /\ \A a \in complete : ChainSound(a) /\ mem[a.loc] = Word(HashOf[a.c])
  /\ \A a \in complete : a.loc <= table[BucketOf(a.c)]

\* A search has passed nothing that it looks for, and a chunk is filled only
\* when there is no other of its content.
SearchSound(p) ==
  /\ pc[p] = "walk" => \A a \in complete : a.c = Cur(p) => a.loc <= at[p]
  /\ pc[p] = "next" => \A a \in complete : a.c = Cur(p) => a.loc < at[p]
  /\ pc[p] \in {"alloc", "bump"} \cup Filling => \A a \in complete : a.c # Cur(p)

\* The chunk that is filled is the highest, and is put in front of its chain.
FillSound(p) ==
  /\ pc[p] \in Filling => \A a \in complete : a.loc < at[p]
  /\ pc[p] \in {"snap", "esb", "entry"} => \A b \in Bucket : table[b] < at[p]
  /\ pc[p] \in {"publish", "head", "hashed", "linked", "data"} =>
       /\ nxt[p] < at[p]
       /\ \A a \in complete : BucketOf(a.c) = BucketOf(Cur(p)) => a.loc <= nxt[p]
  /\ pc[p] \in {"head", "hashed", "linked", "data"} => table[BucketOf(Cur(p))] = at[p]
  /\ pc[p] \in {"hashed", "data"} => mem[at[p]] = Word(HashOf[Cur(p)])
  /\ pc[p] \in {"linked", "data"} => mem[NextCell(at[p])] = Word(nxt[p])

OneCopy == \A a, b \in complete : a.c = b.c => a = b

FilesStored ==
  \A f \in chunked : \A i \in 1 .. Len(FileChunks[f]) :
    [loc |-> fileList[f][i].location, c |-> FileChunks[f][i]] \in complete

SoleInv ==
  /\ ChainInv /\ OneCopy /\ FilesStored
  /\ \A p \in Chunker : SearchSound(p) /\ FillSound(p)

-----------------------------------------------------------------------------
(* What the steps leave alone.                                             *)

Act(p) == Step(p) \/ \E f \in File : Begin(p, f)

Writes(p) == WriteHash(p) \/ WriteNext(p) \/ WriteData(p)

Same(q) ==
  /\ pc'[q] = pc[q] /\ at'[q] = at[q] /\ nxt'[q] = nxt[q] /\ done'[q] = done[q]
  /\ file'[q] = file[q] /\ k'[q] = k[q] /\ list'[q] = list[q]

\* A chunker changes nothing of another one.
LEMMA OthersSame ==
  ASSUME TypeOK, NEW p \in Chunker, Act(p), NEW q \in Chunker, q # p
  PROVE  Same(q) /\ Cur(q)' = Cur(q) /\ Mine(q)' = Mine(q)
<1> USE DEF Same, TypeOK
<1>1. Same(q)
  <2>1. CASE \E f \in File : Begin(p, f)
    BY <2>1 DEF Begin
  <2>2. CASE NoListBlock(p) \/ NoBlock(p) \/ ReadError(p) \/ Finish(p) \/ SearchHash(p)
    BY <2>2 DEF NoListBlock, NoBlock, ReadError, Finish, SearchHash, chunkerVars
  <2>3. CASE Append_(p)
    BY <2>3 DEF Append_
  <2>4. CASE SearchTable(p) \/ SearchNext(p)
    BY <2>4 DEF SearchTable, SearchNext, chunkerVars
  <2>5. CASE AllocLock(p) \/ AllocBump(p) \/ AllocBug(p) \/ UpdateBrkOnDisk(p) \/ FillPublish(p)
    BY <2>5 DEF AllocLock, AllocBump, AllocBug, UpdateBrkOnDisk, FillPublish, chunkerVars
  <2>6. CASE ReadBrk(p) \/ FillReadEntry(p)
    BY <2>6 DEF ReadBrk, FillReadEntry
  <2>7. CASE WriteHash(p) \/ WriteNext(p)
    BY <2>7 DEF WriteHash, WriteNext
  <2>8. CASE WriteData(p)
    BY <2>8 DEF WriteData
  <2> QED BY <2>1, <2>2, <2>3, <2>4, <2>5, <2>6, <2>7, <2>8 DEF Act, Step
<1> QED BY <1>1 DEF Same, Cur, Mine

\* Nothing that was handed out or written is forgotten.
LEMMA Grows ==
  ASSUME [Next]_vars PROVE allocs \subseteq allocs' /\ complete \subseteq complete'
<1>1. CASE Remount \/ UNCHANGED vars
  BY <1>1 DEF Remount, vars, ghosts
<1>2. ASSUME NEW p \in Chunker, NEW f \in File, Begin(p, f)
      PROVE  allocs \subseteq allocs' /\ complete \subseteq complete'
  BY <1>2 DEF Begin, ghosts
<1>3. ASSUME NEW p \in Chunker, Step(p)
      PROVE  allocs \subseteq allocs' /\ complete \subseteq complete'
  <2>1. CASE NoListBlock(p) \/ NoBlock(p) \/ ReadError(p) \/ Append_(p) \/ Finish(p)
    BY <2>1 DEF NoListBlock, NoBlock, ReadError, Append_, Finish, ghosts
  <2>2. CASE SearchTable(p) \/ SearchHash(p) \/ SearchNext(p)
    BY <2>2 DEF SearchTable, SearchHash, SearchNext, ghosts
  <2>3. CASE AllocLock(p) \/ AllocBump(p) \/ AllocBug(p) \/ ReadBrk(p) \/ UpdateBrkOnDisk(p)
    BY <2>3 DEF AllocLock, AllocBump, AllocBug, ReadBrk, UpdateBrkOnDisk, ghosts
  <2>4. CASE FillReadEntry(p) \/ FillPublish(p) \/ WriteHash(p) \/ WriteNext(p)
    BY <2>4 DEF FillReadEntry, FillPublish, WriteHash, WriteNext, ghosts
  <2>5. CASE WriteData(p)
    BY <2>5 DEF WriteData, ghosts
  <2> QED BY <1>3, <2>1, <2>2, <2>3, <2>4, <2>5 DEF Step
<1> QED BY <1>1, <1>2, <1>3 DEF Next

\* The steps that write no cell complete no chunk.
LEMMA NoWrite ==
  ASSUME TypeOK, NEW p \in Chunker, Act(p), ~Writes(p)
  PROVE  mem' = mem /\ complete' = complete /\ pc'[p] \notin {"hashed", "linked", "data"}
<1> USE DEF TypeOK, ghosts
<1>1. CASE \E f \in File : Begin(p, f)
  BY <1>1 DEF Begin
<1>2. CASE NoListBlock(p) \/ NoBlock(p) \/ ReadError(p) \/ Finish(p) \/ SearchHash(p)
  BY <1>2 DEF NoListBlock, NoBlock, ReadError, Finish, SearchHash
<1>3. CASE Append_(p) \/ SearchTable(p) \/ SearchNext(p)
  BY <1>3 DEF Append_, SearchTable, SearchNext
<1>4. CASE AllocLock(p) \/ AllocBump(p) \/ AllocBug(p) \/ UpdateBrkOnDisk(p) \/ FillPublish(p)
  BY <1>4 DEF AllocLock, AllocBump, AllocBug, UpdateBrkOnDisk, FillPublish
<1>5. CASE ReadBrk(p) \/ FillReadEntry(p)
  BY <1>5 DEF ReadBrk, FillReadEntry
<1> QED BY <1>1, <1>2, <1>3, <1>4, <1>5 DEF Act, Step, Writes

\* Only chunk_alloc hands out chunks.
LEMMA NoAlloc ==
  ASSUME NEW p \in Chunker, Act(p), ~AllocBump(p) PROVE allocs' = allocs
  BY DEF Act, Step, Begin, NoListBlock, NoBlock, ReadError, Append_, Finish, SearchTable,
         SearchHash, SearchNext, AllocLock, AllocBug, ReadBrk, UpdateBrkOnDisk,
         FillReadEntry, FillPublish, WriteHash, WriteNext, WriteData, ghosts

\* A write leaves the places of its chunker alone.
LEMMA WriteSame ==
  ASSUME NEW p \in Chunker, Writes(p)
  PROVE  UNCHANGED <<brk, table, at, nxt, file, k, list, chunked, fileList, allocs>>
         /\ Cur(p)' = Cur(p) /\ Mine(p)' = Mine(p)
  BY DEF Writes, WriteHash, WriteNext, WriteData, heapVars, fileVars, ghosts, Cur, Mine

\* Who fills a chunk goes on with it or is killed, or it is complete.
LEMMA FillingStays ==
  ASSUME TypeOK, NEW p \in Chunker, Act(p), pc[p] \in Unfinished
  PROVE  \/ pc'[p] \in Unfinished /\ Mine(p)' = Mine(p)
         \/ Mine(p) \in complete'
<1> USE DEF TypeOK, Filling, Unfinished
<1>1. CASE ReadBrk(p) \/ FillReadEntry(p)
  BY <1>1 DEF ReadBrk, FillReadEntry, Mine, Cur
<1>2. CASE UpdateBrkOnDisk(p) \/ FillPublish(p)
  BY <1>2 DEF UpdateBrkOnDisk, FillPublish, Mine, Cur, chunkerVars
<1>3. CASE WriteHash(p) \/ WriteNext(p)
  BY <1>3, WriteSame DEF Writes, WriteHash, WriteNext
<1>4. CASE WriteData(p)
  <2>1. Mine(p)' = Mine(p)
    BY <1>4, WriteSame DEF Writes
  <2> QED BY <1>4, <2>1 DEF WriteData, Mine
<1>5. CASE NoBlock(p)
  BY <1>5 DEF NoBlock, Mine, Cur, chunkerVars
<1> QED BY <1>1, <1>2, <1>3, <1>4, <1>5
        DEF Act, Step, Begin, NoListBlock, ReadError, Append_, Finish, SearchTable,
            SearchHash, SearchNext, AllocLock, AllocBump, AllocBug

\* The cells of a chunk are in its extent.
LEMMA CellsOf ==
  ASSUME NEW a \in Alloc
  PROVE  /\ a.loc \in Extent(a) /\ NextCell(a.loc) \in Extent(a)
         /\ \A i \in 0 .. (SizeOf[a.c] - 1) : DataCell(a.loc, i) \in Extent(a)
         /\ SizeOf[a.c] \in Nat \ {0} /\ a.c \in Chunk
<1>1. /\ a.loc \in Nat /\ SizeOf[a.c] \in Nat \ {0} /\ a.c \in Chunk
      /\ End(a) = a.loc + HeadSize + SizeOf[a.c]
  BY ChunkStoreAssumption DEF Alloc, End
<1> QED BY <1>1, Geometry DEF Extent, NextCell, DataCell

-----------------------------------------------------------------------------
(* What is in storage.                                                     *)

LEMMA ReadInit == Init => ReadInv
  BY DEF Init, ReadInv, Stored, Hashed, Pending, Listed

\* One piece of the data is copied behind the pieces before it.
LEMMA PieceStored ==
  ASSUME TypeInv, HeapInv, Owned, Stored, NEW p \in Chunker, WriteData(p)
  PROVE  /\ \A i \in 0 .. (done'[p] - 1) : mem'[DataCell(at[p], i)] = Byte(Cur(p), i)
         /\ pc'[p] = "append" => done'[p] = SizeOf[Cur(p)]
         /\ done'[p] \in Nat
<1> DEFINE from == DataCell(at[p], done[p])
           n == ToWrite(p)
<1>1. /\ pc[p] = "data" /\ done[p] \in Nat /\ at[p] \in Nat /\ done' \in [Chunker -> Nat]
      /\ pc \in [Chunker -> PCs] /\ done \in [Chunker -> Nat]
  BY TypeStep DEF WriteData, TypeInv, TypeOK, Next, Step
<1>2. done'[p] = done[p] + n /\ done'[p] \in Nat
  BY <1>1 DEF WriteData
<1>3. Mine(p) \in allocs /\ Mine(p).loc = at[p] /\ Mine(p).c = Cur(p)
  BY <1>1 DEF Owned, Mine, Filling
<1>4. Mine(p) \in Alloc
  BY <1>3 DEF TypeInv, TypeOK
<1>5. SizeOf[Cur(p)] \in Nat /\ Placed(Mine(p)) /\ n \in Int /\ done[p] + n <= SizeOf[Cur(p)]
  <2>1. SizeOf[Cur(p)] \in Nat /\ Placed(Mine(p))
    BY <1>3, <1>4, CellsOf DEF HeapInv, BelowBreak
  <2>2. from \in Nat
    BY <1>1, Geometry DEF DataCell
  <2>3. from % BlockSize \in Int
    BY <2>2, DivisionBounds, Geometry
  <2> HIDE DEF from
  <2> QED BY <1>1, <2>1, <2>3, Geometry DEF ToWrite, from
<1>6. mem' = [x \in Addr |-> IF x \in from .. (from + n - 1)
                             THEN Byte(Cur(p), done[p] + x - from) ELSE mem[x]]
  BY DEF WriteData
<1>7. ASSUME NEW i \in 0 .. (done'[p] - 1) PROVE mem'[DataCell(at[p], i)] = Byte(Cur(p), i)
  <2>1. i \in Nat /\ i < done[p] + n /\ i < SizeOf[Cur(p)]
    BY <1>1, <1>2, <1>5, <1>7
  <2>2. DataCell(at[p], i) = from - done[p] + i /\ from \in Nat
    BY <1>1, <2>1, Geometry DEF DataCell
  <2>3. DataCell(at[p], i) \in Addr
    <3>1. End(Mine(p)) = at[p] + HeadSize + SizeOf[Cur(p)]
      BY <1>3 DEF End
    <3> QED BY <1>1, <1>3, <1>5, <2>1, <3>1, Geometry DEF Placed, DataCell, Addr
  <2> HIDE DEF from, n
  <2>4. CASE i < done[p]
    <3>1. DataCell(at[p], i) \notin from .. (from + n - 1)
      BY <1>1, <1>5, <2>1, <2>2, <2>4
    <3>2. mem[DataCell(at[p], i)] = Byte(Cur(p), i)
      <4>1. i \in 0 .. (done[p] - 1)
        BY <1>1, <2>1, <2>4
      <4> QED BY <1>1, <4>1 DEF Stored
    <3> QED BY <1>6, <2>3, <3>1, <3>2
  <2>5. CASE i >= done[p]
    <3>1. DataCell(at[p], i) \in from .. (from + n - 1)
      BY <1>1, <1>5, <2>1, <2>2, <2>5
    <3>2. done[p] + DataCell(at[p], i) - from = i
      BY <1>1, <2>1, <2>2
    <3> QED BY <1>6, <2>3, <3>1, <3>2
  <2> QED BY <1>1, <2>1, <2>4, <2>5
<1>8. pc'[p] = "append" => done'[p] = SizeOf[Cur(p)]
  BY <1>1, <1>2 DEF WriteData
<1> QED BY <1>2, <1>7, <1>8

LEMMA StoredStep ==
  ASSUME TypeInv, HeapInv, Owned, Stored, NEW p \in Chunker, Act(p)
  PROVE  Stored'
<1>a. TypeOK /\ [Next]_vars
  BY DEF TypeInv, Next, Act
<1>1. ASSUME NEW a \in complete, NEW i \in 0 .. (SizeOf[a.c] - 1)
      PROVE  mem'[DataCell(a.loc, i)] = Byte(a.c, i)
  <2>1. a \in Alloc
    BY <1>a DEF TypeOK
  <2>2. DataCell(a.loc, i) \in Extent(a)
    BY <2>1, CellsOf
  <2> QED BY <1>a, <2>2, Immutable DEF Stored
<1>2. ASSUME NEW a \in complete', a \notin complete, NEW i \in 0 .. (SizeOf[a.c] - 1)
      PROVE  mem'[DataCell(a.loc, i)] = Byte(a.c, i)
  <2>1. WriteData(p) /\ pc'[p] = "append" /\ a = Mine(p)
    <3>1. Writes(p)
      BY <1>a, <1>2, NoWrite
    <3>2. WriteData(p)
      BY <1>2, <3>1 DEF Writes, WriteHash, WriteNext, ghosts
    <3> QED BY <1>a, <1>2, <3>2 DEF WriteData, Mine, TypeOK
  <2>2. a.loc = at[p] /\ a.c = Cur(p)
    BY <2>1 DEF Mine
  <2> QED BY <1>2, <2>1, <2>2, PieceStored
<1>3. ASSUME NEW q \in Chunker, pc'[q] = "data", NEW i \in 0 .. (done'[q] - 1)
      PROVE  mem'[DataCell(at'[q], i)] = Byte(Cur(q)', i)
  <2>1. CASE q = p
    <3>1. Writes(p)
      BY <1>a, <1>3, <2>1, NoWrite
    <3>2. at'[q] = at[q] /\ Cur(q)' = Cur(q)
      BY <2>1, <3>1, WriteSame
    <3>3. CASE WriteData(p)
      BY <1>3, <2>1, <3>2, <3>3, PieceStored
    <3>4. CASE WriteHash(p) \/ WriteNext(p)
      <4>1. done'[q] = 0
        BY <1>a, <2>1, <3>4 DEF WriteHash, WriteNext, TypeOK
      <4> QED BY <1>3, <4>1
    <3> QED BY <3>1, <3>3, <3>4 DEF Writes
  <2>2. CASE q # p
    <3>1. /\ pc[q] = "data" /\ at'[q] = at[q] /\ done'[q] = done[q] /\ Cur(q)' = Cur(q)
      BY <1>a, <1>3, <2>2, OthersSame DEF Same
    <3>2. mem[DataCell(at[q], i)] = Byte(Cur(q), i)
      BY <1>3, <3>1 DEF Stored
    <3>3. Mine(q) \in allocs /\ Mine(q).loc = at[q] /\ Mine(q).c = Cur(q)
      BY <3>1 DEF Owned, Mine, Filling
    <3>4. DataCell(at[q], i) \in Extent(Mine(q))
      <4>1. done[q] \in Nat /\ done[q] < SizeOf[Cur(q)] /\ SizeOf[Cur(q)] \in Nat
        BY <1>a, <3>1, <3>3, CellsOf DEF TypeInv, TypeOK, DoneInv
      <4>2. i \in 0 .. (SizeOf[Cur(q)] - 1)
        BY <1>3, <3>1, <4>1
      <4> QED BY <1>a, <3>3, <4>2, CellsOf DEF TypeOK
    <3>5. mem'[DataCell(at[q], i)] = mem[DataCell(at[q], i)]
      <4>1. CASE Writes(p)
        <5>1. WritesInto(p)
          BY <4>1, StepWrites DEF Writes
        <5>2. Mine(q) # Mine(p)
          BY <2>2, <3>1, <5>1 DEF Owned, WritesInto, Filling
        <5> QED BY <3>3, <3>4, <5>1, <5>2, WriteFrame
      <4>2. CASE ~Writes(p)
        BY <1>a, <4>2, NoWrite
      <4> QED BY <4>1, <4>2
    <3> QED BY <3>1, <3>2, <3>5
  <2> QED BY <2>1, <2>2
<1> QED BY <1>1, <1>2, <1>3 DEF Stored

LEMMA HashedStep ==
  ASSUME TypeInv, HeapInv, Owned, TableInv, Hashed, NEW p \in Chunker, Act(p)
  PROVE  Hashed'
<1>a. TypeOK /\ CurInv
  BY DEF TypeInv
<1>1. CASE AllocBump(p)
  <2>1. mem' = mem /\ allocs' = allocs \cup {[loc |-> brk, c |-> Cur(p)]}
    BY <1>1 DEF AllocBump
  <2>2. SizeOf[Cur(p)] \in Nat
    BY <1>a, <1>1, CurIsChunk DEF AllocBump, CurInv
  <2>3. brk \in Addr
    <3>1. brk \in Nat /\ HeapBase <= brk /\ brk + HeadSize + SizeOf[Cur(p)] < MaxBrk
      BY <1>a, <1>1 DEF AllocBump, HeapInv, BelowBreak, TypeOK
    <3> QED BY <2>2, <3>1, Geometry DEF Addr
  <2>4. mem[brk] = Word(0)
    BY <1>a, <2>3 DEF TableInv, ZeroAbove, TypeOK
  <2> QED BY <2>1, <2>4 DEF Hashed
<1>2. CASE Writes(p)
  <2>1. WritesInto(p) /\ allocs' = allocs
    BY <1>2, StepWrites, WriteSame DEF Writes
  <2>2. ASSUME NEW a \in allocs, a # Mine(p) PROVE mem'[a.loc] = mem[a.loc]
    <3>1. a.loc \in Extent(a)
      BY <1>a, CellsOf DEF TypeOK
    <3> QED BY <2>1, <2>2, <3>1, WriteFrame
  <2>3. Mine(p) \in allocs /\ Mine(p).loc = at[p] /\ Mine(p).c = Cur(p)
    BY <2>1 DEF Owned, WritesInto, Mine
  <2>4. at[p] \in Addr
    BY <1>a, <2>3, EndAbove, Geometry, SMTT(30)
    DEF HeapInv, BelowBreak, Placed, Addr, TypeOK
  <2>5. mem'[at[p]] \in {mem[at[p]], Word(HashOf[Cur(p)])}
    <3>1. CASE WriteHash(p)
      BY <2>4, <3>1 DEF WriteHash
    <3>2. CASE WriteNext(p)
      <4>1. NextCell(at[p]) # at[p]
        BY <2>4, Geometry DEF NextCell, Addr
      <4> QED BY <1>a, <2>4, <3>2, <4>1 DEF WriteNext, TypeOK
    <3>3. CASE WriteData(p)
      <4> DEFINE from == DataCell(at[p], done[p])
      <4>1. at[p] < from /\ from \in Nat
        BY <1>a, <2>4, Geometry DEF DataCell, TypeOK, Addr
      <4>2. at[p] \notin from .. (from + ToWrite(p) - 1)
        BY <2>4, <4>1 DEF Addr
      <4> QED BY <2>4, <3>3, <4>2 DEF WriteData
    <3> QED BY <1>2, <3>1, <3>2, <3>3 DEF Writes
  <2> QED BY <2>1, <2>2, <2>3, <2>5 DEF Hashed
<1>3. CASE ~AllocBump(p) /\ ~Writes(p)
  BY <1>a, <1>3, NoAlloc, NoWrite DEF Hashed
<1> QED BY <1>1, <1>2, <1>3

LEMMA PendingStep ==
  ASSUME TypeInv, Owned, Pending, NEW p \in Chunker, Act(p)
  PROVE  Pending'
<1>a. TypeOK /\ [Next]_vars
  BY DEF TypeInv, Next, Act
<1>1. ASSUME NEW a \in allocs
      PROVE  a \in complete' \/ \E q \in Chunker : pc'[q] \in Unfinished /\ Mine(q)' = a
  <2>1. CASE a \in complete
    BY <1>a, <2>1, Grows
  <2>2. CASE \E q \in Chunker : pc[q] \in Unfinished /\ Mine(q) = a
    <3>1. PICK q \in Chunker : pc[q] \in Unfinished /\ Mine(q) = a
      BY <2>2
    <3>2. CASE q = p
      BY <1>a, <3>1, <3>2, FillingStays
    <3>3. CASE q # p
      BY <1>a, <3>1, <3>3, OthersSame DEF Same
    <3> QED BY <3>2, <3>3
  <2> QED BY <2>1, <2>2 DEF Pending
<1>2. ASSUME NEW a \in allocs', a \notin allocs
      PROVE  \E q \in Chunker : pc'[q] \in Unfinished /\ Mine(q)' = a
  <2>1. AllocBump(p)
    BY <1>2, NoAlloc
  <2>2. a = [loc |-> brk, c |-> Cur(p)]
    BY <1>2, <2>1 DEF AllocBump
  <2>3. pc'[p] = "snap" /\ at'[p] = brk /\ Cur(p)' = Cur(p)
    BY <1>a, <2>1 DEF AllocBump, TypeOK, Cur, chunkerVars
  <2> QED BY <2>2, <2>3 DEF Mine, Filling, Unfinished
<1> QED BY <1>1, <1>2 DEF Pending

\* A search that ends at a hash has found the content it looks for.
LEMMA SearchFinds ==
  ASSUME TypeInv, TableInv, Hashed, NEW p \in Chunker, SearchHash(p), pc'[p] = "append"
  PROVE  Mine(p) \in allocs
<1>1. pc[p] = "walk" /\ mem[at[p]] = Word(HashOf[Cur(p)])
  BY DEF SearchHash, TypeInv, TypeOK
<1>2. PICK a \in allocs : a.loc = at[p]
  BY <1>1 DEF TableInv, CursorSound, Leads
<1>3. Cur(p) \in Chunk /\ HashOf[Cur(p)] \in Nat \ {0}
  BY <1>1, CurIsChunk DEF TypeInv, CurInv
<1>4. a \in Alloc /\ a.c \in Chunk
  BY <1>2 DEF TypeInv, TypeOK, Alloc
<1>5. HashOf[a.c] = HashOf[Cur(p)]
  BY <1>1, <1>2, <1>3 DEF Hashed, Word
<1>6. a.c = Cur(p)
  BY <1>3, <1>4, <1>5, ChunkStoreAssumption
<1>7. a = [loc |-> a.loc, c |-> a.c]
  BY <1>4 DEF Alloc
<1> QED BY <1>2, <1>6, <1>7 DEF Mine

\* The steps that touch neither a list nor a file.
ListSame(p) ==
  /\ UNCHANGED <<list, k, file, chunked, fileList>>
  /\ pc[p] # "idle" /\ (pc'[p] = "append" => Mine(p)' \in allocs')

LEMMA ListSameStep ==
  ASSUME TypeInv, Owned, TableInv, Hashed, Listed, NEW p \in Chunker, Step(p),
         ~Append_(p), ~Finish(p)
  PROVE  ListSame(p)
<1>a. TypeOK
  BY DEF TypeInv
<1> USE DEF TypeOK, fileVars
<1>1. CASE NoListBlock(p) \/ NoBlock(p) \/ ReadError(p)
  BY <1>a, <1>1 DEF NoListBlock, NoBlock, ReadError, ListSame, chunkerVars
<1>2. CASE SearchHash(p)
  <2>1. Mine(p)' = Mine(p) /\ allocs' = allocs
    BY <1>2 DEF SearchHash, Mine, Cur, chunkerVars, ghosts
  <2> QED BY <1>a, <1>2, <2>1, SearchFinds DEF SearchHash, ListSame, chunkerVars
<1>3. CASE SearchTable(p) \/ SearchNext(p)
  BY <1>a, <1>3 DEF SearchTable, SearchNext, ListSame, chunkerVars
<1>4. CASE AllocLock(p) \/ AllocBump(p) \/ AllocBug(p) \/ UpdateBrkOnDisk(p) \/ FillPublish(p)
  BY <1>a, <1>4 DEF AllocLock, AllocBump, AllocBug, UpdateBrkOnDisk, FillPublish, ListSame,
                    chunkerVars
<1>5. CASE ReadBrk(p) \/ FillReadEntry(p)
  BY <1>a, <1>5 DEF ReadBrk, FillReadEntry, ListSame
<1>6. CASE Writes(p)
  <2>1. WritesInto(p)
    BY <1>6, StepWrites DEF Writes
  <2>2. Mine(p) \in allocs
    BY <2>1 DEF Owned, WritesInto
  <2>3. pc[p] # "idle"
    BY <2>1 DEF WritesInto, Filling
  <2> QED BY <1>6, <2>2, <2>3, WriteSame DEF ListSame
<1> QED BY <1>1, <1>2, <1>3, <1>4, <1>5, <1>6 DEF Step, Writes

LEMMA ListedStep ==
  ASSUME TypeInv, Owned, TableInv, Hashed, Listed, NEW p \in Chunker, Act(p)
  PROVE  Listed'
<1>a. TypeOK /\ CurInv /\ allocs \subseteq allocs'
  BY Grows DEF TypeInv, Next, Act
<1>b. \A e, c : Names(e, c) => Names(e, c)'
  BY <1>a DEF Names
<1>1. ASSUME NEW q \in Chunker, q # p, pc'[q] # "idle" PROVE ListSound(q)'
  <2>1. Same(q) /\ pc[q] # "idle"
    BY <1>a, <1>1, OthersSame DEF Same
  <2>2. ListSound(q)
    BY <2>1 DEF Listed
  <2> QED BY <1>b, <2>1, <2>2 DEF Same, ListSound
<1>2. ASSUME NEW q \in Chunker, q # p, pc'[q] = "append" PROVE Mine(q)' \in allocs'
  <2>1. pc[q] = "append" /\ Mine(q)' = Mine(q)
    BY <1>a, <1>2, OthersSame DEF Same
  <2> QED BY <1>a, <2>1 DEF Listed
<1> DEFINE Read(f) == /\ Len(fileList[f]) = Len(FileChunks[f])
                      /\ \A i \in 1 .. Len(FileChunks[f]) : Names(fileList[f][i], FileChunks[f][i])
<1>3. \A f \in chunked : fileList'[f] = fileList[f] => Read(f)'
  BY <1>b DEF Listed
<1> HIDE DEF Read
<1>4. CASE \E f \in File : Begin(p, f)
  <2>1. pc'[p] = "loop" /\ k'[p] = 1 /\ list'[p] = <<>> /\ UNCHANGED <<chunked, fileList>>
    BY <1>a, <1>4 DEF Begin, TypeOK, fileVars
  <2>2. file'[p] \in File
    BY <1>a, <1>4 DEF Begin, TypeOK
  <2>3. Len(FileChunks[file'[p]]) \in Nat
    BY <2>2, ChunkStoreAssumption
  <2>4. ListSound(p)'
    BY <2>1, <2>3 DEF ListSound
  <2> QED BY <1>1, <1>2, <1>3, <2>1, <2>4 DEF Listed, Read
<1>5. CASE Append_(p)
  <2> DEFINE e == [location |-> at[p], size |-> SizeOf[Cur(p)]]
  <2>1. /\ pc[p] = "append" /\ pc'[p] = "loop" /\ k'[p] = k[p] + 1 /\ file' = file
        /\ list'[p] = Append(list[p], e) /\ UNCHANGED <<chunked, fileList>>
    BY <1>a, <1>5 DEF Append_, TypeOK, fileVars
  <2>2. /\ ListSound(p) /\ Mine(p) \in allocs /\ k[p] <= Len(FileChunks[file[p]])
        /\ k[p] \in Nat \ {0} /\ list[p] \in Seq(Entry)
    BY <1>a, <2>1 DEF Listed, CurInv, TypeOK
  <2>3. SizeOf[Cur(p)] \in Nat /\ at[p] \in Nat
    BY <1>a, <2>2, CurIsChunk DEF TypeOK
  <2>4. e \in Entry /\ e.location = at[p] /\ e.size = SizeOf[Cur(p)]
    BY <2>3 DEF Entry
  <2>5. \A x, c : x = e /\ c = Cur(p) => Names(x, c)'
    BY <1>b, <2>2, <2>4 DEF Names, Mine
  <2> HIDE DEF e
  <2>6. /\ Len(list'[p]) = Len(list[p]) + 1 /\ Len(list[p]) \in Nat
        /\ list'[p][Len(list[p]) + 1] = e
        /\ \A i \in 1 .. Len(list[p]) : list'[p][i] = list[p][i]
    BY <2>1, <2>2, <2>4
  <2>7. /\ Len(list[p]) = k[p] - 1
        /\ \A i \in 1 .. (k[p] - 1) : Names(list[p][i], FileChunks[file[p]][i])
    BY <2>2 DEF ListSound
  <2>8. ASSUME NEW i \in 1 .. k[p] PROVE Names(list[p][i], FileChunks[file[p]][i])'
    <3>1. CASE i = k[p]
      <4>1. Len(list[p]) + 1 = i
        BY <2>2, <2>7, <3>1
      <4>2. list'[p][i] = e /\ FileChunks[file[p]][i] = Cur(p)
        BY <2>6, <3>1, <4>1 DEF Cur
      <4> QED BY <2>1, <2>5, <4>2 DEF Names
    <3>2. CASE i # k[p]
      <4>1. i \in 1 .. (k[p] - 1)
        BY <2>2, <2>8, <3>2
      <4>2. list'[p][i] = list[p][i]
        BY <2>6, <2>7, <4>1
      <4> QED BY <1>b, <2>1, <2>7, <4>1, <4>2 DEF Names
    <3> QED BY <3>1, <3>2
  <2>9. ListSound(p)'
    <3>1. k'[p] - 1 = k[p] /\ Len(list'[p]) = k'[p] - 1
      BY <2>1, <2>2, <2>6, <2>7
    <3> QED BY <2>1, <2>2, <2>8, <3>1 DEF ListSound
  <2> QED BY <1>1, <1>2, <1>3, <2>1, <2>9 DEF Listed, Read
<1>6. CASE Finish(p)
  <2>1. /\ pc[p] = "loop" /\ pc'[p] = "idle" /\ k[p] > Len(FileChunks[file[p]])
        /\ chunked' = chunked \cup {file[p]} /\ fileList'[file[p]] = list[p]
        /\ \A f \in chunked : f # file[p] => fileList'[f] = fileList[f]
    BY <1>a, <1>6 DEF Finish, TypeOK
  <2>2. ListSound(p) /\ k[p] \in Nat /\ Len(FileChunks[file[p]]) \in Nat
    <3>1. ListSound(p)
      BY <1>a, <2>1 DEF Listed
    <3>2. k[p] \in Nat /\ file[p] \in File
      BY <1>a DEF TypeOK
    <3>3. FileChunks[file[p]] \in Seq(Chunk)
      BY <3>2, ChunkStoreAssumption
    <3> QED BY <3>1, <3>2, <3>3
  <2>3. k[p] - 1 = Len(FileChunks[file[p]])
    BY <2>1, <2>2 DEF ListSound
  <2>4. \A f : f = file[p] => Read(f)'
    BY <1>b, <2>1, <2>2, <2>3 DEF ListSound, Read
  <2> QED BY <1>1, <1>2, <1>3, <2>1, <2>4 DEF Listed, Read
<1>7. CASE Step(p) /\ ~Append_(p) /\ ~Finish(p)
  <2>1. ListSame(p)
    BY <1>7, ListSameStep
  <2>2. ListSound(p)'
    BY <1>b, <2>1 DEF ListSame, Listed, ListSound
  <2> QED BY <1>1, <1>2, <1>3, <2>1, <2>2 DEF Listed, Read, ListSame
<1> QED BY <1>4, <1>5, <1>6, <1>7 DEF Act

LEMMA ReadStep ==
  TypeInv /\ HeapInv /\ Owned /\ TableInv /\ ReadInv /\ [Next]_vars => ReadInv'
<1> SUFFICES ASSUME TypeInv, HeapInv, Owned, TableInv, ReadInv, [Next]_vars
             PROVE  ReadInv'
  OBVIOUS
<1>1. CASE \E p \in Chunker : Act(p)
  BY <1>1, StoredStep, HashedStep, PendingStep, ListedStep DEF ReadInv
<1>2. CASE Remount \/ UNCHANGED vars
  <2>1. /\ UNCHANGED <<table, mem, pc, file, k, at, nxt, done, list>>
        /\ UNCHANGED <<chunked, fileList, allocs, complete>>
    BY <1>2 DEF Remount, vars, chunkerVars, fileVars, ghosts
  <2>2. \A p \in Chunker : Mine(p)' = Mine(p) /\ Cur(p)' = Cur(p)
    BY <2>1 DEF Mine, Cur
  <2>3. Stored' /\ Hashed'
    BY <2>1, <2>2 DEF ReadInv, Stored, Hashed
  <2>4. Pending'
    BY <2>1, <2>2 DEF ReadInv, Pending
  <2>5. Listed'
    BY <2>1, <2>2 DEF ReadInv, Listed, ListSound, Names
  <2> QED BY <2>3, <2>4, <2>5 DEF ReadInv
<1> QED BY <1>1, <1>2 DEF Next, Act

LEMMA ReadAlways ==
  ASSUME Undisturbed
  PROVE  Spec => [](TypeInv /\ HeapInv /\ Owned /\ TableInv /\ ReadInv)
  BY TableAlways, ReadInit, ReadStep, PTL DEF Spec

\* With any number of chunkers in one mount, or one chunker over any number of
\* mounts, a chunked file reads as it did before, except for a chunk that is
\* being copied in or whose chunker was killed while it copied:
\* chunk_fill_hashtable publishes a chunk before copy_chunk_into_storage has
\* written it, and load_blockoff and get_next_block may BUG() in between.
THEOREM ReadBack == ASSUME Undisturbed PROVE Spec => []ReadBackUnlessUnfinished
<1>1. TypeInv /\ ReadInv => ReadBackUnlessUnfinished
  <2> SUFFICES ASSUME TypeInv, ReadInv, NEW f \in chunked,
                      ~ \E p \in Chunker, i \in DOMAIN fileList[f] :
                          pc[p] \in Unfinished /\ at[p] = fileList[f][i].location
               PROVE  ReadsBack(f)
    BY DEF ReadBackUnlessUnfinished
  <2>1. /\ Len(fileList[f]) = Len(FileChunks[f]) /\ fileList[f] \in Seq(Entry)
        /\ \A i \in 1 .. Len(FileChunks[f]) : Names(fileList[f][i], FileChunks[f][i])
    BY DEF ReadInv, Listed, TypeInv, TypeOK
  <2>2. ASSUME NEW i \in 1 .. Len(FileChunks[f])
        PROVE  ReadsChunk(fileList[f][i], FileChunks[f][i])
    <3> DEFINE a == [loc |-> fileList[f][i].location, c |-> FileChunks[f][i]]
    <3>1. a \in allocs /\ fileList[f][i].size = SizeOf[FileChunks[f][i]]
      BY <2>1 DEF Names
    <3>2. i \in DOMAIN fileList[f]
      BY <2>1
    <3>3. \A p \in Chunker : Mine(p) = a => at[p] = fileList[f][i].location
      BY DEF Mine
    <3>4. a \in complete
      BY <3>1, <3>2, <3>3 DEF ReadInv, Pending
    <3>5. a.loc = fileList[f][i].location /\ a.c = FileChunks[f][i]
      OBVIOUS
    <3> HIDE DEF a
    <3> QED BY <3>1, <3>4, <3>5 DEF ReadInv, Stored, ReadsChunk
  <2> QED BY <2>1, <2>2 DEF ReadsBack
<1> QED BY <1>1, ReadAlways, PTL

-----------------------------------------------------------------------------
(* One chunker at a time.                                                  *)

LEMMA SoleUndisturbed == ASSUME Sole PROVE Undisturbed
  BY DEF Sole, Undisturbed

LEMMA SoleInit == Init => SoleInv
  BY DEF Init, SoleInv, ChainInv, OneCopy, FilesStored, SearchSound, FillSound, Filling

\* Unless a chunk is being filled or was left behind, every chunk is written.
LEMMA AllWritten ==
  ASSUME Sole, Owned, Pending, NEW p \in Chunker, pc[p] \notin Unfinished
  PROVE  allocs = complete
  BY DEF Sole, Owned, Pending

\* A location is a number behind the table.
LEMMA Locations ==
  ASSUME TypeInv, HeapInv, Owned, NEW a \in allocs
  PROVE  /\ a.loc \in Nat /\ a.loc > 0 /\ a.loc < brk /\ a.c \in Chunk
         /\ BucketOf(a.c) \in Bucket /\ NextCell(a.loc) \in Addr /\ a.loc \in Addr
         /\ NextCell(a.loc) # a.loc
<1>1. a \in Alloc /\ Placed(a) /\ End(a) <= brk /\ brk \in Nat
  BY DEF TypeInv, TypeOK, HeapInv, BelowBreak
<1>2. a.loc \in Nat /\ End(a) \in Nat /\ a.loc + HeadSize < End(a) /\ HeapBase <= a.loc
      /\ End(a) < MaxBrk
  BY <1>1, EndAbove DEF Placed
<1>3. a.c \in Chunk /\ HashOf[a.c] \in Nat
  BY <1>1, ChunkStoreAssumption DEF Alloc
<1>4. HashOf[a.c] % NBuckets \in 0 .. (NBuckets - 1)
  BY <1>3, DivisionBounds, Geometry
<1>5. BucketOf(a.c) \in Bucket
  BY <1>4 DEF BucketOf, hashtable_hash, Bucket
<1>6. a.loc > 0 /\ a.loc < brk /\ NextCell(a.loc) \in Addr /\ a.loc \in Addr
      /\ NextCell(a.loc) # a.loc
  BY <1>1, <1>2, Geometry DEF NextCell, Addr
<1> QED BY <1>2, <1>3, <1>5, <1>6

\* The header of a written chunk stays as it is.
LEMMA HeaderStays ==
  ASSUME TypeInv, HeapInv, Owned, [Next]_vars, NEW a \in complete
  PROVE  mem'[a.loc] = mem[a.loc] /\ mem'[NextCell(a.loc)] = mem[NextCell(a.loc)]
<1>1. a \in Alloc
  BY DEF TypeInv, TypeOK
<1> QED BY <1>1, CellsOf, Immutable

\* What a step does to the header of the chunk that it fills.
LEMMA HeaderWritten ==
  ASSUME TypeInv, HeapInv, Owned, NEW p \in Chunker, Writes(p)
  PROVE  /\ WriteHash(p) => /\ mem'[at[p]] = Word(HashOf[Cur(p)])
                            /\ mem'[NextCell(at[p])] = mem[NextCell(at[p])]
         /\ WriteNext(p) => /\ mem'[NextCell(at[p])] = Word(nxt[p])
                            /\ mem'[at[p]] = mem[at[p]]
         /\ WriteData(p) => /\ mem'[at[p]] = mem[at[p]]
                            /\ mem'[NextCell(at[p])] = mem[NextCell(at[p])]
<1>1. Mine(p) \in allocs /\ Mine(p).loc = at[p]
  BY StepWrites DEF Writes, WritesInto, Owned, Mine
<1>2. /\ at[p] \in Nat /\ at[p] \in Addr /\ NextCell(at[p]) \in Addr /\ NextCell(at[p]) # at[p]
  BY <1>1, Locations
<1>3. mem \in [Addr -> Cell] /\ done[p] \in Nat
  BY DEF TypeInv, TypeOK
<1>4. ASSUME WriteHash(p)
      PROVE  /\ mem'[at[p]] = Word(HashOf[Cur(p)])
             /\ mem'[NextCell(at[p])] = mem[NextCell(at[p])]
  <2>1. at[p] \in HashCells(at[p]) /\ NextCell(at[p]) \notin HashCells(at[p])
    BY <1>2, Geometry DEF HashCells, NextCell
  <2> QED BY <1>2, <1>4, <2>1 DEF WriteHash
<1>5. ASSUME WriteNext(p)
      PROVE  mem'[NextCell(at[p])] = Word(nxt[p]) /\ mem'[at[p]] = mem[at[p]]
  BY <1>2, <1>3, <1>5 DEF WriteNext
<1>6. ASSUME WriteData(p)
      PROVE  mem'[at[p]] = mem[at[p]] /\ mem'[NextCell(at[p])] = mem[NextCell(at[p])]
  <2> DEFINE from == DataCell(at[p], done[p])
  <2>1. at[p] < from /\ NextCell(at[p]) < from /\ from \in Nat /\ NextCell(at[p]) \in Nat
    BY <1>2, <1>3, Geometry DEF DataCell, NextCell
  <2>2. /\ at[p] \notin from .. (from + ToWrite(p) - 1)
        /\ NextCell(at[p]) \notin from .. (from + ToWrite(p) - 1)
    BY <1>2, <2>1
  <2> QED BY <1>2, <1>6, <2>2 DEF WriteData
<1> QED BY <1>4, <1>5, <1>6

\* What every step of the sole chunker may use.
Good == TypeInv /\ HeapInv /\ Owned /\ TableInv /\ ReadInv /\ SoleInv

\* The search goes down the chain and passes nothing.
LEMMA SearchStep ==
  ASSUME Sole, Good, NEW p \in Chunker, SearchTable(p) \/ SearchHash(p) \/ SearchNext(p)
  PROVE  SearchSound(p)' /\ FillSound(p)'
<1>a. TypeOK /\ CurInv /\ TypeInv /\ HeapInv /\ Owned /\ TableInv /\ SoleInv
  BY DEF Good, TypeInv
<1>1. /\ UNCHANGED <<complete, allocs, mem, table, file, k, nxt>> /\ Cur(p)' = Cur(p)
      /\ pc'[p] \in {"alloc", "walk", "append", "next"} /\ pc[p] \notin Unfinished
  BY <1>a DEF SearchTable, SearchHash, SearchNext, TypeOK, ghosts, chunkerVars, Cur, Filling,
              Unfinished
<1>2. FillSound(p)'
  BY <1>1 DEF FillSound, Filling
<1>3. allocs = complete
  BY <1>1, AllWritten DEF Good, ReadInv
<1>4. \A a \in complete : a.loc \in Nat /\ a.loc > 0 /\ BucketOf(a.c) \in Bucket
  BY <1>a, <1>3, Locations
<1>5. CASE SearchTable(p)
  <2> DEFINE first == table[BucketOf(Cur(p))]
  <2>1. at'[p] = first /\ pc'[p] = IF first = 0 THEN "alloc" ELSE "walk"
    BY <1>a, <1>5 DEF SearchTable, TypeOK
  <2>2. \A a \in complete : a.c = Cur(p) => a.loc <= first
    BY <1>a DEF SoleInv, ChainInv
  <2> HIDE DEF first
  <2> QED BY <1>1, <1>2, <1>4, <2>1, <2>2 DEF SearchSound, Filling
<1>6. CASE SearchHash(p)
  <2>1. /\ pc[p] = "walk" /\ at' = at
        /\ pc'[p] = IF mem[at[p]] = Word(HashOf[Cur(p)]) THEN "append" ELSE "next"
    BY <1>a, <1>6 DEF SearchHash, TypeOK
  <2>2. ASSUME NEW a \in complete, a.c = Cur(p), pc'[p] = "next" PROVE a.loc < at[p]
    <3>1. a.loc <= at[p] /\ at[p] \in Nat
      BY <1>a, <2>1, <2>2 DEF SoleInv, SearchSound, TypeOK
    <3>2. a.loc # at[p]
      BY <1>a, <2>1, <2>2 DEF SoleInv, ChainInv
    <3> QED BY <1>4, <3>1, <3>2
  <2> QED BY <1>1, <1>2, <2>1, <2>2 DEF SearchSound, Filling
<1>7. CASE SearchNext(p)
  <2>1. PICK b \in allocs : b.loc = at[p] /\ BucketOf(b.c) = BucketOf(Cur(p))
    BY <1>a, <1>7 DEF SearchNext, TableInv, CursorSound, Leads
  <2>2. b \in complete /\ NextCell(at[p]) \in Addr
    BY <1>a, <1>3, <2>1, Locations
  <2> DEFINE n == mem[NextCell(at[p])][2]
  <2>3. AsLocation(NextCell(at[p])) = {n}
    BY <1>a, <2>1, <2>2 DEF TableInv, NextSound, AsLocation
  <2>4. at'[p] = n /\ pc'[p] = IF n = 0 THEN "alloc" ELSE "walk"
    BY <1>a, <1>7, <2>3 DEF SearchNext, TypeOK
  <2>5. \A a \in complete : a.c = Cur(p) => a.loc <= n
    <3>1. \A a \in complete : a.c = Cur(p) => a.loc < at[p]
      BY <1>a, <1>7 DEF SearchNext, SoleInv, SearchSound
    <3> QED BY <1>a, <2>1, <2>2, <3>1 DEF SoleInv, ChainInv, ChainSound
  <2> HIDE DEF n
  <2> QED BY <1>1, <1>2, <1>4, <2>4, <2>5 DEF SearchSound, Filling
<1> QED BY <1>5, <1>6, <1>7

\* The steps of chunk_alloc and the ones that neither search nor fill.
LEMMA QuietStep ==
  ASSUME Sole, Good, NEW p \in Chunker, Act(p), ~Writes(p),
         ~SearchTable(p), ~SearchHash(p), ~SearchNext(p)
  PROVE  SearchSound(p)' /\ FillSound(p)'
<1>a. /\ TypeOK /\ CurInv /\ TypeInv /\ HeapInv /\ Owned /\ TableInv /\ SoleInv
      /\ SearchSound(p) /\ FillSound(p) /\ brk \in Nat /\ at[p] \in Nat
  BY DEF Good, TypeInv, SoleInv, TypeOK
<1>1. mem' = mem /\ complete' = complete
  BY <1>a, NoWrite
<1>2. CASE \/ NoListBlock(p) \/ NoBlock(p) \/ ReadError(p) \/ Append_(p) \/ Finish(p) \/ AllocBug(p)
           \/ \E f \in File : Begin(p, f)
  <2>1. pc'[p] \in {"dead", "torn", "idle", "loop", "bug"}
    BY <1>a, <1>2 DEF NoListBlock, NoBlock, ReadError, Append_, Finish, AllocBug, Begin, TypeOK
  <2> QED BY <2>1 DEF SearchSound, FillSound, Filling
<1>3. CASE AllocLock(p)
  <2>1. pc[p] = "alloc" /\ pc'[p] = "bump" /\ Cur(p)' = Cur(p)
    BY <1>a, <1>3 DEF AllocLock, TypeOK, Cur, chunkerVars
  <2> QED BY <1>a, <1>1, <2>1 DEF SearchSound, FillSound, Filling
<1>4. CASE AllocBump(p)
  <2>1. /\ pc[p] = "bump" /\ pc'[p] = "snap" /\ Cur(p)' = Cur(p) /\ at'[p] = brk
        /\ table' = table
    BY <1>a, <1>4 DEF AllocBump, TypeOK, Cur, chunkerVars
  <2>2. \A a \in allocs : a.loc < brk
    BY <1>a, Locations
  <2>3. \A b \in Bucket : table[b] < brk
    <3>1. \A b \in Bucket : table[b] = 0 \/ \E a \in allocs : a.loc = table[b]
      BY <1>a DEF TableInv, Leads
    <3>2. 0 < brk
      BY <1>a, Geometry DEF HeapInv, BelowBreak
    <3> QED BY <2>2, <3>1, <3>2
  <2>4. \A a \in complete : a.loc < brk
    BY <1>a, <2>2 DEF Owned
  <2> QED BY <1>a, <1>1, <2>1, <2>3, <2>4 DEF SearchSound, FillSound, Filling
<1>5. CASE ReadBrk(p) \/ UpdateBrkOnDisk(p)
  <2>1. /\ pc[p] \in {"snap", "esb"} /\ pc'[p] \in {"esb", "entry"} /\ Cur(p)' = Cur(p)
        /\ at' = at /\ table' = table
    BY <1>a, <1>5 DEF ReadBrk, UpdateBrkOnDisk, TypeOK, Cur, chunkerVars
  <2> QED BY <1>a, <1>1, <2>1 DEF SearchSound, FillSound, Filling
<1>6. CASE FillReadEntry(p)
  <2>1. /\ pc[p] = "entry" /\ pc'[p] = "publish" /\ Cur(p)' = Cur(p) /\ at' = at
        /\ table' = table /\ nxt'[p] = table[BucketOf(Cur(p))]
    BY <1>a, <1>6 DEF FillReadEntry, TypeOK, Cur
  <2>2. BucketOf(Cur(p)) \in Bucket
    BY <1>a, <2>1, CurIsChunk DEF CurInv
  <2>3. nxt'[p] < at[p]
    BY <1>a, <2>1, <2>2 DEF FillSound
  <2>4. \A a \in complete : BucketOf(a.c) = BucketOf(Cur(p)) => a.loc <= nxt'[p]
    BY <1>a, <2>1 DEF SoleInv, ChainInv
  <2> QED BY <1>a, <1>1, <2>1, <2>3, <2>4 DEF SearchSound, FillSound, Filling
<1>7. CASE FillPublish(p)
  <2>1. /\ pc[p] = "publish" /\ pc'[p] = "head" /\ Cur(p)' = Cur(p) /\ at' = at
        /\ nxt' = nxt /\ table' = [table EXCEPT ![BucketOf(Cur(p))] = at[p]]
    BY <1>a, <1>7 DEF FillPublish, TypeOK, Cur, chunkerVars
  <2>2. BucketOf(Cur(p)) \in Bucket
    BY <1>a, <2>1, CurIsChunk DEF CurInv
  <2>3. table'[BucketOf(Cur(p))] = at[p]
    BY <1>a, <2>1, <2>2 DEF TypeOK
  <2> QED BY <1>a, <1>1, <2>1, <2>3 DEF SearchSound, FillSound, Filling
<1> QED BY <1>2, <1>3, <1>4, <1>5, <1>6, <1>7 DEF Act, Step, Writes

\* The header and the data of the chunk that is filled.
LEMMA FillStep ==
  ASSUME Sole, Good, NEW p \in Chunker, Writes(p)
  PROVE  SearchSound(p)' /\ FillSound(p)'
<1>a. /\ TypeOK /\ TypeInv /\ HeapInv /\ Owned /\ SoleInv /\ SearchSound(p) /\ FillSound(p)
  BY DEF Good, TypeInv, SoleInv
<1>1. UNCHANGED <<table, at, nxt>> /\ Cur(p)' = Cur(p)
  BY WriteSame
<1>2. CASE WriteHash(p) \/ WriteNext(p)
  <2>1. /\ complete' = complete
        /\ WriteHash(p) => /\ pc[p] \in {"head", "linked"}
                           /\ pc'[p] = IF pc[p] = "head" THEN "hashed" ELSE "data"
        /\ WriteNext(p) => /\ pc[p] \in {"head", "hashed"}
                           /\ pc'[p] = IF pc[p] = "head" THEN "linked" ELSE "data"
    BY <1>a, <1>2 DEF WriteHash, WriteNext, TypeOK, ghosts
  <2>2. SearchSound(p)'
    BY <1>a, <1>1, <1>2, <2>1 DEF SearchSound, Filling
  <2>3. /\ pc'[p] \in {"hashed", "data"} => mem'[at[p]] = Word(HashOf[Cur(p)])
        /\ pc'[p] \in {"linked", "data"} => mem'[NextCell(at[p])] = Word(nxt[p])
    BY <1>a, <1>2, <2>1, HeaderWritten DEF FillSound
  <2> QED BY <1>a, <1>1, <1>2, <2>1, <2>2, <2>3 DEF FillSound, Filling
<1>3. CASE WriteData(p)
  <2>1. /\ pc[p] = "data"
        /\ \/ pc'[p] = "append"
           \/ pc'[p] = "data" /\ complete' = complete
    BY <1>a, <1>3 DEF WriteData, TypeOK
  <2>2. CASE pc'[p] = "append"
    BY <2>2 DEF SearchSound, FillSound, Filling
  <2>3. CASE pc'[p] = "data" /\ complete' = complete
    <3>1. mem'[at[p]] = mem[at[p]] /\ mem'[NextCell(at[p])] = mem[NextCell(at[p])]
      BY <1>a, <1>3, HeaderWritten
    <3> QED BY <1>a, <1>1, <2>1, <2>3, <3>1 DEF SearchSound, FillSound, Filling
  <2> QED BY <2>1, <2>2, <2>3
<1> QED BY <1>2, <1>3 DEF Writes

\* A chunk becomes complete at the front of its chain.
LEMMA ChainStep ==
  ASSUME Sole, Good, NEW p \in Chunker, Act(p)
  PROVE  ChainInv' /\ OneCopy'
<1>a. /\ TypeOK /\ CurInv /\ TypeInv /\ HeapInv /\ Owned /\ SoleInv
      /\ SearchSound(p) /\ FillSound(p) /\ at[p] \in Nat /\ [Next]_vars
  BY DEF Good, TypeInv, SoleInv, TypeOK, Next, Act
<1>b. \A a \in complete : a.loc \in Nat /\ BucketOf(a.c) \in Bucket
  BY <1>a, Locations DEF Owned
<1>1. ASSUME complete' = complete, table' = table PROVE ChainInv' /\ OneCopy'
  <2>1. \A a \in complete : mem'[a.loc] = mem[a.loc]
                            /\ mem'[NextCell(a.loc)] = mem[NextCell(a.loc)]
    BY <1>a, HeaderStays
  <2> QED BY <1>a, <1>1, <2>1 DEF SoleInv, ChainInv, ChainSound, OneCopy
<1>2. CASE FillPublish(p)
  <2>1. /\ pc[p] = "publish" /\ complete' = complete /\ mem' = mem
        /\ table' = [table EXCEPT ![BucketOf(Cur(p))] = at[p]]
    BY <1>2 DEF FillPublish, ghosts
  <2>2. ASSUME NEW a \in complete PROVE a.loc <= table'[BucketOf(a.c)]
    <3>1. a.loc < at[p] /\ a.loc <= table[BucketOf(a.c)] /\ a.loc \in Nat
      BY <1>a, <1>b, <2>1 DEF FillSound, Filling, SoleInv, ChainInv
    <3>2. table'[BucketOf(a.c)] = IF BucketOf(a.c) = BucketOf(Cur(p)) THEN at[p]
                                  ELSE table[BucketOf(a.c)]
      BY <1>a, <1>b, <2>1 DEF TypeOK
    <3> QED BY <1>a, <3>1, <3>2
  <2> QED BY <1>a, <2>1, <2>2 DEF SoleInv, ChainInv, ChainSound, OneCopy
<1>3. CASE WriteData(p) /\ complete' # complete
  <2>1. /\ pc[p] = "data" /\ complete' = complete \cup {Mine(p)} /\ table' = table
        /\ mem'[at[p]] = mem[at[p]] /\ mem'[NextCell(at[p])] = mem[NextCell(at[p])]
    BY <1>a, <1>3, HeaderWritten, WriteSame DEF WriteData, Mine, Writes
  <2>2. Mine(p).loc = at[p] /\ Mine(p).c = Cur(p)
    BY DEF Mine
  <2>3. /\ \A a \in complete : a.loc < at[p] /\ a.c # Cur(p)
        /\ \A a \in complete : BucketOf(a.c) = BucketOf(Cur(p)) => a.loc <= nxt[p]
        /\ nxt[p] < at[p] /\ nxt[p] \in Nat /\ table[BucketOf(Cur(p))] = at[p]
        /\ mem[at[p]] = Word(HashOf[Cur(p)]) /\ mem[NextCell(at[p])] = Word(nxt[p])
    BY <1>a, <2>1 DEF SearchSound, FillSound, Filling, TypeOK
  <2>4. OneCopy'
    BY <1>a, <2>1, <2>2, <2>3 DEF SoleInv, OneCopy
  <2>5. ASSUME NEW a \in complete
        PROVE  /\ ChainSound(a)' /\ mem'[a.loc] = Word(HashOf[a.c])
               /\ a.loc <= table'[BucketOf(a.c)]
    <3>1. mem'[a.loc] = mem[a.loc] /\ mem'[NextCell(a.loc)] = mem[NextCell(a.loc)]
      BY <1>a, HeaderStays
    <3>2. ChainSound(a) /\ mem[a.loc] = Word(HashOf[a.c]) /\ a.loc <= table[BucketOf(a.c)]
      BY <1>a DEF SoleInv, ChainInv
    <3>3. ~(at[p] < a.loc)
      BY <1>a, <1>b, <2>3
    <3>4. ChainSound(a)'
      BY <2>1, <2>2, <3>1, <3>2, <3>3 DEF ChainSound
    <3> QED BY <2>1, <3>1, <3>2, <3>4
  <2>6. mem'[NextCell(at[p])][2] = nxt[p] /\ mem'[at[p]] = Word(HashOf[Cur(p)])
    BY <2>1, <2>3 DEF Word
  <2>7. ASSUME NEW a, a = Mine(p)
        PROVE  /\ ChainSound(a)' /\ mem'[a.loc] = Word(HashOf[a.c])
               /\ a.loc <= table'[BucketOf(a.c)]
    <3>1. a.loc = at[p] /\ a.c = Cur(p)
      BY <2>2, <2>7
    <3>2. \A b \in complete' : BucketOf(b.c) = BucketOf(a.c) /\ b.loc < a.loc => b.loc <= nxt[p]
      BY <1>a, <2>1, <2>2, <2>3, <3>1
    <3>3. ChainSound(a)'
      BY <2>3, <2>6, <3>1, <3>2 DEF ChainSound
    <3> QED BY <1>a, <2>1, <2>3, <2>6, <3>1, <3>3
  <2> QED BY <2>1, <2>4, <2>5, <2>7 DEF ChainInv
<1>4. CASE ~FillPublish(p) /\ ~(WriteData(p) /\ complete' # complete)
  <2>1. complete' = complete
    <3>1. CASE Writes(p)
      BY <1>4, <3>1 DEF Writes, WriteHash, WriteNext, ghosts
    <3>2. CASE ~Writes(p)
      BY <1>a, <3>2, NoWrite
    <3> QED BY <3>1, <3>2
  <2>2. table' = table
    BY <1>4 DEF Act, Step, Begin, NoListBlock, NoBlock, ReadError, Append_, Finish, SearchTable,
         SearchHash, SearchNext, AllocLock, AllocBump, AllocBug, ReadBrk,
         UpdateBrkOnDisk, FillReadEntry, WriteHash, WriteNext, WriteData
  <2> QED BY <1>1, <2>1, <2>2
<1> QED BY <1>2, <1>3, <1>4

\* A file is switched only when its chunks are written.
LEMMA FilesStoredStep ==
  ASSUME Sole, Good, NEW p \in Chunker, Act(p)
  PROVE  FilesStored'
<1>a. /\ TypeOK /\ Owned /\ Pending /\ Listed /\ FilesStored /\ [Next]_vars
      /\ complete \subseteq complete'
  BY Grows DEF Good, TypeInv, ReadInv, SoleInv, Next, Act
<1>1. CASE Finish(p)
  <2>1. /\ pc[p] = "loop" /\ k[p] > Len(FileChunks[file[p]]) /\ complete' = complete
        /\ chunked' = chunked \cup {file[p]} /\ fileList'[file[p]] = list[p]
        /\ \A f \in chunked : f # file[p] => fileList'[f] = fileList[f]
    BY <1>a, <1>1 DEF Finish, TypeOK, ghosts
  <2>2. allocs = complete
    BY <1>a, <2>1, AllWritten DEF Filling, Unfinished
  <2>3. ListSound(p) /\ k[p] \in Nat /\ Len(FileChunks[file[p]]) \in Nat
    <3>1. ListSound(p)
      BY <1>a, <2>1 DEF Listed
    <3>2. k[p] \in Nat /\ file[p] \in File
      BY <1>a DEF TypeOK
    <3>3. FileChunks[file[p]] \in Seq(Chunk)
      BY <3>2, ChunkStoreAssumption
    <3> QED BY <3>1, <3>2, <3>3
  <2>4. k[p] - 1 = Len(FileChunks[file[p]])
    BY <2>1, <2>3 DEF ListSound
  <2>5. \A i \in 1 .. Len(FileChunks[file[p]]) :
          [loc |-> list[p][i].location, c |-> FileChunks[file[p]][i]] \in complete
    BY <2>2, <2>3, <2>4 DEF ListSound, Names
  <2> QED BY <1>a, <2>1, <2>5 DEF FilesStored
<1>2. CASE ~Finish(p)
  <2>1. UNCHANGED <<chunked, fileList>>
    BY <1>2 DEF Act, Step, Begin, NoListBlock, NoBlock, ReadError, Append_, SearchTable,
         SearchHash, SearchNext, AllocLock, AllocBump, AllocBug, ReadBrk,
         UpdateBrkOnDisk, FillReadEntry, FillPublish, WriteHash, WriteNext, WriteData,
         fileVars
  <2> QED BY <1>a, <2>1 DEF FilesStored
<1> QED BY <1>1, <1>2

LEMMA SoleStep ==
  ASSUME Sole PROVE Good /\ [Next]_vars => SoleInv'
<1> SUFFICES ASSUME Good, [Next]_vars PROVE SoleInv'
  OBVIOUS
<1>1. ASSUME NEW p \in Chunker, Act(p) PROVE SoleInv'
  <2>1. SearchSound(p)' /\ FillSound(p)'
    BY <1>1, SearchStep, QuietStep, FillStep
  <2>2. \A q \in Chunker : q = p
    BY DEF Sole
  <2> QED BY <1>1, <2>1, <2>2, ChainStep, FilesStoredStep DEF SoleInv
<1>2. CASE Remount \/ UNCHANGED vars
  <2>1. /\ UNCHANGED <<table, mem, pc, file, k, at, nxt>>
        /\ UNCHANGED <<chunked, fileList, complete>>
    BY <1>2 DEF Remount, vars, chunkerVars, fileVars, ghosts
  <2>2. \A p \in Chunker : Cur(p)' = Cur(p)
    BY <2>1 DEF Cur
  <2>3. ChainInv'
    BY <2>1 DEF Good, SoleInv, ChainInv, ChainSound
  <2>4. OneCopy' /\ FilesStored'
    BY <2>1 DEF Good, SoleInv, OneCopy, FilesStored
  <2>5. \A p \in Chunker : SearchSound(p)' /\ FillSound(p)'
    BY <2>1, <2>2 DEF Good, SoleInv, SearchSound, FillSound
  <2> QED BY <2>3, <2>4, <2>5 DEF SoleInv
<1> QED BY <1>1, <1>2 DEF Next, Act

LEMMA SoleAlways == ASSUME Sole PROVE Spec => []Good
<1>1. Undisturbed
  BY SoleUndisturbed
<1> QED BY <1>1, ReadAlways, SoleInit, SoleStep, PTL DEF Spec, Good

-----------------------------------------------------------------------------
(* The refinement.                                                         *)

Copies == [c \in Chunk |-> Cardinality({a \in complete : a.c = c})]
Reads == [f \in File |-> FileReads(f)]
ReadsRight == Reads = FileChunks

\* A content is stored once or not at all.
LEMMA CopiesOf ==
  ASSUME Good, NEW c \in Chunk
  PROVE  /\ (\A a \in complete : a.c # c) => Copies[c] = 0
         /\ \A a \in complete : a.c = c => Copies[c] = 1
<1>1. Copies[c] = Cardinality({a \in complete : a.c = c})
  BY DEF Copies
<1>2. ASSUME \A a \in complete : a.c # c PROVE Copies[c] = 0
  <2>1. {a \in complete : a.c = c} = {}
    BY <1>2
  <2> QED BY <1>1, <2>1, FS_EmptySet
<1>3. ASSUME NEW a \in complete, a.c = c PROVE Copies[c] = 1
  <2>1. {b \in complete : b.c = c} = {a}
    BY <1>3 DEF Good, SoleInv, OneCopy
  <2> QED BY <1>1, <2>1, FS_Singleton
<1> QED BY <1>2, <1>3

\* A file reads as the contents it was cut into, chunked or not.
LEMMA ReadsSame == Good => ReadsRight
<1> SUFFICES ASSUME Good, NEW f \in File PROVE FileReads(f) = FileChunks[f]
  BY ChunkStoreAssumption DEF Reads, ReadsRight
<1>1. CASE f \notin chunked
  BY <1>1 DEF FileReads
<1>2. CASE f \in chunked
  <2>1. /\ Len(fileList[f]) = Len(FileChunks[f]) /\ fileList[f] \in Seq(Entry)
        /\ \A i \in 1 .. Len(FileChunks[f]) : Names(fileList[f][i], FileChunks[f][i])
    BY <1>2 DEF Good, ReadInv, Listed, TypeInv, TypeOK
  <2>2. FileChunks[f] \in Seq(Chunk)
    BY ChunkStoreAssumption
  <2>3. DOMAIN fileList[f] = 1 .. Len(FileChunks[f]) /\ DOMAIN FileChunks[f] = 1 .. Len(FileChunks[f])
    BY <2>1, <2>2
  <2>4. ASSUME NEW i \in 1 .. Len(FileChunks[f])
        PROVE  EntryReads(fileList[f][i]) = FileChunks[f][i]
    <3> DEFINE e == fileList[f][i]
               c == FileChunks[f][i]
    <3>1. c \in Chunk /\ SizeOf[c] \in Nat \ {0} /\ e.size = SizeOf[c]
      <4>1. c \in Chunk
        BY <2>2
      <4>2. Names(e, c)
        BY <2>1
      <4> HIDE DEF e, c
      <4> QED BY <4>1, <4>2, ChunkStoreAssumption DEF Names
    <3>2. ReadsChunk(e, c)
      <4> DEFINE a == [loc |-> e.location, c |-> c]
      <4>1. a \in complete
        BY <1>2 DEF Good, SoleInv, FilesStored
      <4>2. a.loc = e.location /\ a.c = c
        OBVIOUS
      <4> HIDE DEF a, e, c
      <4> QED BY <3>1, <4>1, <4>2 DEF Good, ReadInv, Stored, ReadsChunk
    <3> HIDE DEF e, c
    <3>3. ASSUME NEW d \in Chunk, ReadsChunk(e, d) PROVE d = c
      <4>1. 0 \in 0 .. (e.size - 1)
        BY <3>1
      <4>2. Byte(d, 0) = Byte(c, 0)
        BY <3>2, <3>3, <4>1 DEF ReadsChunk
      <4> QED BY <4>2 DEF Byte
    <3>4. EntryReads(e) = c
      BY <3>1, <3>2, <3>3 DEF EntryReads
    <3> QED BY <3>4 DEF e, c
  <2>5. FileReads(f) = [i \in 1 .. Len(FileChunks[f]) |-> FileChunks[f][i]]
    BY <1>2, <2>3, <2>4 DEF FileReads
  <2> QED BY <2>2, <2>3, <2>5
<1> QED BY <1>1, <1>2

LEMMA DedupInit == Init => Dedup!Init
<1> SUFFICES ASSUME Init PROVE Dedup!Init
  OBVIOUS
<1>1. complete = {} /\ chunked = {}
  BY DEF Init
<1>2. [c \in Chunk |-> Cardinality({a \in complete : a.c = c})] = [c \in Chunk |-> 0]
  <2>1. \A c \in Chunk : {a \in complete : a.c = c} = {}
    BY <1>1
  <2> QED BY <2>1, FS_EmptySet
<1>3. [f \in File |-> FileReads(f)] = FileChunks
  BY <1>1, ChunkStoreAssumption DEF FileReads
<1> QED BY <1>1, <1>2, <1>3 DEF Dedup!Init

\* A step completes a chunk, switches a file or cannot be seen.
LEMMA DedupStep ==
  ASSUME Sole, Good, Good', ReadsRight, ReadsRight', [Next]_vars
  PROVE  [Dedup!Next]_(Dedup!vars)
<1>a. TypeOK /\ CurInv /\ Owned /\ SoleInv
  BY DEF Good, TypeInv
<1>1. Reads' = Reads
  BY DEF ReadsRight
<1>2. ASSUME NEW p \in Chunker, WriteData(p), complete' # complete PROVE Dedup!Next
  <2>1. /\ pc[p] = "data" /\ complete' = complete \cup {Mine(p)} /\ chunked' = chunked
        /\ Mine(p).c = Cur(p)
    BY <1>2 DEF WriteData, Mine, fileVars
  <2>2. Cur(p) \in Chunk
    BY <1>a, <2>1, CurIsChunk DEF CurInv
  <2>3. \A a \in complete : a.c # Cur(p)
    BY <1>a, <2>1 DEF SoleInv, SearchSound, Filling
  <2>4. Copies[Cur(p)] = 0
    BY <2>2, <2>3, CopiesOf
  <2>5. Copies' = [Copies EXCEPT ![Cur(p)] = 1]
    <3>1. \A c \in Chunk \ {Cur(p)} :
            {a \in complete' : a.c = c} = {a \in complete : a.c = c}
      BY <2>1
    <3>2. {a \in complete' : a.c = Cur(p)} = {Mine(p)}
      BY <2>1, <2>3
    <3>3. Cardinality({a \in complete' : a.c = Cur(p)}) = 1
      BY <3>2, FS_Singleton
    <3> QED BY <2>2, <3>1, <3>3 DEF Copies
  <2>6. Dedup!Store(Cur(p))
    BY <1>1, <2>1, <2>4, <2>5 DEF Dedup!Store, Copies, Reads
  <2> QED BY <2>2, <2>6 DEF Dedup!Next
<1>3. ASSUME NEW p \in Chunker, Finish(p), complete' = complete
      PROVE  Dedup!Next \/ UNCHANGED Dedup!vars
  <2>1. /\ chunked' = chunked \cup {file[p]} /\ file[p] \in File
    BY <1>a, <1>3 DEF Finish, TypeOK
  <2>2. Copies' = Copies
    BY <1>3 DEF Copies
  <2>3. CASE file[p] \in chunked
    <3>1. chunked' = chunked
      BY <2>1, <2>3
    <3> QED BY <1>1, <2>2, <3>1 DEF Dedup!vars, Copies, Reads
  <2>4. CASE file[p] \notin chunked
    <3>1. ASSUME NEW i \in DOMAIN FileChunks[file[p]]
          PROVE  Copies[FileChunks[file[p]][i]] > 0
      <4>1. FileChunks[file[p]] \in Seq(Chunk)
        BY <2>1, ChunkStoreAssumption
      <4>2. i \in 1 .. Len(FileChunks[file[p]]) /\ FileChunks[file[p]][i] \in Chunk
        BY <4>1
      <4> DEFINE a == [loc |-> fileList'[file[p]][i].location, c |-> FileChunks[file[p]][i]]
      <4>3. a \in complete
        BY <1>3, <2>1, <4>2 DEF Good, SoleInv, FilesStored
      <4>4. Copies[FileChunks[file[p]][i]] = 1
        BY <4>2, <4>3, CopiesOf
      <4> QED BY <4>4
    <3>2. Dedup!Switch(file[p])
      BY <1>1, <2>1, <2>2, <2>4, <3>1 DEF Dedup!Switch, Copies, Reads
    <3> QED BY <2>1, <3>2 DEF Dedup!Next
  <2> QED BY <2>3, <2>4
<1>4. ASSUME complete' = complete, chunked' = chunked PROVE UNCHANGED Dedup!vars
  <2>1. Copies' = Copies
    BY <1>4 DEF Copies
  <2> QED BY <1>1, <1>4, <2>1 DEF Dedup!vars, Copies, Reads
<1>5. ASSUME NEW p \in Chunker, Act(p)
      PROVE  Dedup!Next \/ UNCHANGED Dedup!vars
  <2>1. CASE Finish(p)
    <3>1. complete' = complete
      BY <2>1 DEF Finish, ghosts
    <3> QED BY <1>3, <2>1, <3>1
  <2>2. CASE ~Finish(p)
    <3>1. chunked' = chunked
      BY <1>5, <2>2 DEF Act, Step, Begin, NoListBlock, NoBlock, ReadError, Append_, SearchTable,
         SearchHash, SearchNext, AllocLock, AllocBump, AllocBug, ReadBrk,
         UpdateBrkOnDisk, FillReadEntry, FillPublish, WriteHash, WriteNext, WriteData,
         fileVars
    <3>2. CASE complete' = complete
      BY <1>4, <3>1, <3>2
    <3>3. CASE complete' # complete
      <4>1. Writes(p)
        BY <1>a, <1>5, <3>3, NoWrite
      <4>2. WriteData(p)
        BY <3>3, <4>1 DEF Writes, WriteHash, WriteNext, ghosts
      <4> QED BY <1>2, <3>3, <4>2
    <3> QED BY <3>2, <3>3
  <2> QED BY <2>1, <2>2
<1>6. CASE Remount \/ UNCHANGED vars
  <2>1. complete' = complete /\ chunked' = chunked
    BY <1>6 DEF Remount, vars, fileVars, ghosts
  <2> QED BY <1>4, <2>1
<1> QED BY <1>5, <1>6 DEF Next, Act

\* One chunker at a time, over any number of mounts, implements DedupStore:
\* the chunk area stores every content once, a file is switched only to
\* contents that are stored, and no reader can tell that it was.
THEOREM DedupCorrect == ASSUME Sole PROVE Spec => ImplementsDedup
<1>1. Good /\ Good' /\ ReadsRight /\ ReadsRight' /\ [Next]_vars
        => [Dedup!Next]_(Dedup!vars)
  BY DedupStep
<1>2. Init => Dedup!Init
  BY DedupInit
<1>3. Spec => []Good
  BY SoleAlways
<1> QED BY <1>1, <1>2, <1>3, ReadsSame, PTL DEF Spec, ImplementsDedup, Dedup!Spec

=============================================================================
