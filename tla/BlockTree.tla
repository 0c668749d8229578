----------------------------- MODULE BlockTree ------------------------------
(***************************************************************************)
(* The tree of zone pointers of a regular file that is not chunked         *)
(* (itree_common.c and itree_v2.c), with the callers of get_block and      *)
(* truncate in inode.c and file.c.                                         *)
(*                                                                         *)
(* A task that writes, truncates or chunks the file holds its inode lock,  *)
(* so there is one writer; cominix_read_folio takes no inode lock, so      *)
(* get_block without create runs at the same time as the writer.  Splicing *)
(* and find_shared take pointers_lock, the rest of truncate does not, and  *)
(* its stores are steps of their own.  Sizes are in blocks.                *)
(***************************************************************************)
EXTENDS Integers, Sequences, FiniteSets

CONSTANTS
  Reader,     \* tasks inside cominix_read_folio
  Zone,       \* the zones of the data area
  NoZone,     \* the pointer 0
  Junk,       \* bytes that are no pointer of this file
  DIRECT,     \* number of direct pointers
  IndirCount, \* INDIRCOUNT, pointers in a block
  MaxBlocks,  \* s_maxbytes in blocks
  MaxWrite,   \* blocks that one folio holds
  WriteAt,    \* blocks that write(2) begins at
  NewSizes,   \* sizes that truncate(2) is called with
  MaxErrors   \* bound on the number of sb_bread calls of the writer that fail

DEPTH == 4
Inode == "i_data"

ASSUME BlockTreeAssumption ==
  /\ NoZone \notin Zone /\ Junk \notin Zone /\ Junk # NoZone
  /\ Inode \notin Zone
  /\ DIRECT \in Nat \ {0} /\ IndirCount \in Nat \ {0}
  /\ MaxBlocks \in Nat
  /\ MaxBlocks <= DIRECT + IndirCount + IndirCount * IndirCount
                  + IndirCount * IndirCount * IndirCount
  /\ MaxWrite \in Nat \ {0} /\ MaxErrors \in Nat
  /\ WriteAt \subseteq 0 .. (MaxBlocks - 1)
  /\ NewSizes \subseteq 0 .. MaxBlocks

\* An errno that get_block returns is no pointer.
ASSUME ErrnoAssumption == {"EIO", "EAGAIN"} \cap (Zone \cup {NoZone, Junk}) = {}

VARIABLES
  ptr,     \* the pointer in every cell of the inode and of the zones
  free,    \* zones whose bit is clear
  own,     \* ghost: zones that were allocated for this file
  lost,    \* ghost: zones of this file that a failed read cut off
  isize,   \* i_size in blocks
  errs,    \* number of failed reads of the writer
  w,       \* where the writer is
  wb,      \* the block it maps
  wend,    \* the end of the write
  new,     \* the zones of the branch that alloc_branch has allocated
  stack,   \* what truncate has still to free
  fsize,   \* fsize of chunk_and_replace
  rpc,     \* where each reader is
  rb,      \* the block it looks up
  rchain,  \* its chain: cells and the keys read from them
  res,     \* what its get_block returned last
  seen     \* ghost: the zones the block was mapped to during the call

treeVars == <<ptr, free, own, lost>>
writerVars == <<w, wb, wend, new, stack, fsize>>
callVars == <<rpc, rb, rchain, res>>
readerVars == <<callVars, seen>>
vars == <<ptr, free, own, lost, isize, errs, w, wb, wend, new, stack, fsize,
          rpc, rb, rchain, res, seen>>

-----------------------------------------------------------------------------
(* Cells and paths.  A cell is a pointer of i_data or of a block.          *)

Block == 0 .. (MaxBlocks - 1)
Index == 0 .. (IndirCount - 1)
Cell == ({Inode} \X (0 .. (DIRECT + DEPTH - 2))) \cup (Zone \X Index)
Pointer == Zone \cup {NoZone, Junk}

\* The offsets on the way to a block; none when it is behind s_maxbytes.
block_to_path(block) ==
  LET b1 == block - DIRECT
      b2 == b1 - IndirCount
      b3 == b2 - IndirCount * IndirCount
  IN IF block >= MaxBlocks THEN <<>>
     ELSE IF block < DIRECT THEN <<block>>
     ELSE IF b1 < IndirCount THEN <<DIRECT, b1>>
     ELSE IF b2 < IndirCount * IndirCount
     THEN <<DIRECT + 1, b2 \div IndirCount, b2 % IndirCount>>
     ELSE <<DIRECT + 2, (b3 \div IndirCount) \div IndirCount,
            (b3 \div IndirCount) % IndirCount, b3 % IndirCount>>

\* get_branch while nobody else writes: the cells on the path, as far as the
\* pointers p lead.
get_branch(p, path) ==
  LET chain[n \in 1 .. Len(path)] ==
        IF n = 1 THEN << <<Inode, path[1]>> >>
        ELSE LET last == chain[n - 1][Len(chain[n - 1])]
             IN IF Len(chain[n - 1]) = n - 1 /\ p[last] \in Zone
                THEN Append(chain[n - 1], <<p[last], path[n]>>)
                ELSE chain[n - 1]
  IN chain[Len(path)]

\* The zone that block b is mapped to.
MapIn(p, b) ==
  LET path == block_to_path(b)
      chain == get_branch(p, path)
  IN IF path # <<>> /\ Len(chain) = Len(path) THEN p[chain[Len(chain)]]
     ELSE NoZone

Map(b) == MapIn(ptr, b)

Init ==
  /\ ptr = [c \in Cell |-> IF c[1] = Inode THEN NoZone ELSE Junk]
  /\ free = Zone
  /\ own = {} /\ lost = {}
  /\ isize = 0 /\ errs = 0
  /\ w = "idle"
  /\ wb = 0 /\ wend = 0 /\ new = <<>> /\ stack = <<>> /\ fsize = 0
  /\ rpc = [r \in Reader |-> "idle"]
  /\ rb = [r \in Reader |-> 0]
  /\ rchain = [r \in Reader |-> <<>>]
  /\ res = [r \in Reader |-> NoZone]
  /\ seen = [r \in Reader |-> {}]

\* pointers_lock is free of readers.
Unlocked == \A r \in Reader : rpc[r] # "verified"

FreeBlocks(zones) ==
  /\ free' = free \cup zones
  /\ own' = own \ zones

\* The pointers change under the readers.
Observe ==
  /\ seen' = [r \in Reader |-> IF rpc[r] = "idle" THEN {}
                               ELSE seen[r] \cup {MapIn(ptr', rb[r])}]
  /\ UNCHANGED callVars

\* Another file takes a zone and writes it, or gives one back.
OtherTakes(z) ==
  /\ z \in free
  /\ free' = free \ {z}
  /\ ptr' = [c \in Cell |-> IF c[1] = z THEN Junk ELSE ptr[c]]
  /\ Observe
  /\ UNCHANGED <<own, lost, isize, errs, writerVars>>

OtherGives(z) ==
  /\ z \notin free \cup own \cup lost
  /\ free' = free \cup {z}
  /\ UNCHANGED <<ptr, own, lost, isize, errs, writerVars, readerVars>>

-----------------------------------------------------------------------------
(* Writing: block_write_begin maps every block of the folio with           *)
(* get_block, and generic_write_end raises i_size.                         *)

Write(b, n) ==
  /\ w = "idle"
  /\ b + n <= MaxBlocks
  /\ w' = "map"
  /\ wb' = b /\ wend' = b + n
  /\ UNCHANGED <<treeVars, isize, errs, new, stack, fsize, readerVars>>

\* get_block finds the block mapped.
GetBlockFound ==
  /\ w = "map"
  /\ wb < wend
  /\ Map(wb) # NoZone
  /\ wb' = wb + 1
  /\ UNCHANGED <<treeVars, isize, errs, w, wend, new, stack, fsize, readerVars>>

\* get_branch ends at a pointer that is 0.
GetBlockHole ==
  /\ w = "map"
  /\ wb < wend
  /\ Map(wb) = NoZone
  /\ w' = "alloc"
  /\ new' = <<>>
  /\ UNCHANGED <<treeVars, isize, errs, wb, wend, stack, fsize, readerVars>>

\* sb_bread of an indirect block fails: -EIO.
GetBlockError ==
  /\ w = "map"
  /\ wb < wend
  /\ errs < MaxErrors
  /\ Len(block_to_path(wb)) > 1
  /\ ptr[<<Inode, block_to_path(wb)[1]>>] # NoZone
  /\ errs' = errs + 1
  /\ w' = "failed"
  /\ UNCHANGED <<treeVars, isize, wb, wend, new, stack, fsize, readerVars>>

WriteEnd ==
  /\ w = "map"
  /\ wb = wend
  /\ isize' = IF wend > isize THEN wend ELSE isize
  /\ w' = "idle"
  /\ wb' = 0 /\ wend' = 0
  /\ UNCHANGED <<treeVars, errs, new, stack, fsize, readerVars>>

\* The cell where the branch is missing, and how many zones it takes.
Partial ==
  LET chain == get_branch(ptr, block_to_path(wb)) IN chain[Len(chain)]
Left ==
  Len(block_to_path(wb)) - Len(get_branch(ptr, block_to_path(wb))) + 1

\* alloc_branch takes a zone, clears the one above it and links the two.  The
\* last one is a block of the file and holds its bytes.
AllocBlock ==
  /\ w = "alloc"
  /\ Len(new) < Left
  /\ \E z \in free :
       LET path == block_to_path(wb)
           at == path[Len(path) - Left + 1 + Len(new)]
       IN /\ free' = free \ {z}
          /\ own' = own \cup {z}
          /\ new' = Append(new, z)
          /\ ptr' = [c \in Cell |->
                IF new # <<>> /\ c[1] = new[Len(new)]
                THEN IF c[2] = at THEN z ELSE NoZone
                ELSE IF c[1] = z /\ Len(new) + 1 = Left THEN Junk
                ELSE ptr[c]]
  /\ Observe
  /\ UNCHANGED <<lost, isize, errs, w, wb, wend, stack, fsize>>

\* Mutant: the loop that frees begins with branch[1].
AllocFailKept ==
  /\ w = "alloc"
  /\ Len(new) < Left
  /\ free = {} \/ new # <<>>
  /\ FreeBlocks({new[n] : n \in DOMAIN new \ {1}})
  /\ new' = <<>>
  /\ w' = "failed"
  /\ UNCHANGED <<ptr, lost, isize, errs, wb, wend, stack, fsize, readerVars>>

\* No zone is left (or no buffer for one): what was allocated is freed.
AllocFail ==
  /\ w = "alloc"
  /\ Len(new) < Left
  /\ free = {} \/ new # <<>>
  /\ FreeBlocks({new[n] : n \in DOMAIN new})
  /\ new' = <<>>
  /\ w' = "failed"
  /\ UNCHANGED <<ptr, lost, isize, errs, wb, wend, stack, fsize, readerVars>>

\* splice_branch under pointers_lock.  The place is still there and vacant,
\* since the task holds the inode lock.
SpliceBranch ==
  /\ w = "alloc"
  /\ Len(new) = Left
  /\ Unlocked
  /\ ptr[Partial] = NoZone
  /\ ptr' = [ptr EXCEPT ![Partial] = new[1]]
  /\ new' = <<>>
  /\ w' = "map"
  /\ Observe
  /\ UNCHANGED <<free, own, lost, isize, errs, wb, wend, stack, fsize>>

-----------------------------------------------------------------------------
(* truncate.  Its loops and the recursion of free_branches are a stack of  *)
(* items: a cell to clear, whose zone is freed with d levels below it, and *)
(* a zone cut off from the tree, to be freed with d levels below it.       *)

CellItem(c, d) == [kind |-> "cell", cell |-> c, d |-> d]
TreeItem(z, d) == [kind |-> "tree", zone |-> z, d |-> d]

\* The cells of node from one offset to another.
CellItems(node, from, to, d) ==
  [n \in 1 .. (IF to < from THEN 0 ELSE to - from + 1) |->
     CellItem(<<node, from + n - 1>>, d)]

\* Mutant: the whole subtrees begin one too late.
WholesLate(first_whole) ==
  [n \in 1 .. (DEPTH - 2 - first_whole) |->
     CellItem(<<Inode, DIRECT + first_whole + n>>, first_whole + n + 1)]

\* The whole subtrees of the inode from first_whole on.
Wholes(first_whole) ==
  [n \in 1 .. (DEPTH - 1 - first_whole) |->
     CellItem(<<Inode, DIRECT + first_whole + n - 1>>, first_whole + n)]

\* all_zeroes of the cells in front of c in its block.
AllZeroes(c) == \A j \in 0 .. (c[2] - 1) : ptr[<<c[1], j>>] = NoZone

\* Mutant: the blocks above are not looked at.
SharedAtNoClimb(chain) == Len(chain)

\* The place in the chain that the tree is cut at: below the last block with
\* a pointer in front of the chain, which has to stay.
SharedAt(chain) ==
  CHOOSE q \in 1 .. Len(chain) :
    /\ \A i \in (q + 1) .. Len(chain) : AllZeroes(chain[i])
    /\ q > 1 => ~ AllZeroes(chain[q])

\* Mutant: the ends of the blocks begin with the shared pointer itself.
EndItemsInclusive(chain, n, p, back) ==
  LET ends[i \in 1 .. p] ==
        IF i = 1 THEN <<>>
        ELSE CellItems(chain[i][1], chain[i][2], IndirCount - 1, n - i)
             \o ends[i - 1]
  IN ends[p]

\* The ends of the blocks on the first p places of the chain, with the last
\* place itself after a step back; n is the length of the path.
EndItems(chain, n, p, back) ==
  LET ends[i \in 1 .. p] ==
        IF i = 1 THEN <<>>
        ELSE CellItems(chain[i][1],
                       IF i = p /\ back THEN chain[i][2] ELSE chain[i][2] + 1,
                       IndirCount - 1, n - i) \o ends[i - 1]
  IN ends[p]

\* find_shared with the chain that get_branch has read of the first kk cells
\* of the path, and the freeing that follows it: of the subtree that is cut
\* off whole, and of the ends of the blocks that stay.
FindShared(path, kk, chain) ==
  LET n == Len(path)
      p == SharedAt(chain)
      back == p = kk /\ p > 1
      top == IF back THEN NoZone ELSE ptr[chain[p]]
  IN /\ ptr' = IF back THEN ptr ELSE [ptr EXCEPT ![chain[p]] = NoZone]
     /\ stack' = (IF top = NoZone THEN <<>> ELSE <<TreeItem(top, n - p)>>)
                 \o EndItems(chain, n, p, back) \o Wholes(path[1] + 1 - DIRECT)

\* k: the path without the zeroes at its end.
SharedDepth(path) ==
  CHOOSE kk \in 1 .. Len(path) :
    /\ \A i \in (kk + 1) .. Len(path) : path[i] = 0
    /\ kk > 1 => path[kk] # 0

\* The beginning of truncate: blocks from iblock on are to go.
TruncateDirect(iblock) ==
  /\ Len(block_to_path(iblock)) = 1
  /\ stack' = CellItems(Inode, iblock, DIRECT - 1, 0) \o Wholes(0)
  /\ UNCHANGED <<ptr, errs>>

TruncateIndirect(iblock) ==
  LET path == block_to_path(iblock)
      kk == SharedDepth(path)
  IN /\ Len(path) > 1
     /\ Unlocked
     /\ FindShared(path, kk, get_branch(ptr, SubSeq(path, 1, kk)))
     /\ UNCHANGED errs

\* The same when get_branch fails to read a block on the way: find_shared does
\* not look at err.
TruncateReadError(iblock) ==
  LET path == block_to_path(iblock)
      kk == SharedDepth(path)
      chain == get_branch(ptr, SubSeq(path, 1, kk))
  IN /\ Len(path) > 1
     /\ Unlocked
     /\ errs < MaxErrors
     /\ errs' = errs + 1
     /\ \E cut \in 1 .. (Len(chain) - 1) :
          FindShared(path, kk, SubSeq(chain, 1, cut))

\* cominix_write_failed: a write that would have extended the file is undone.
WriteFailed ==
  /\ w = "failed"
  /\ wend > isize
  /\ block_to_path(isize) # <<>>
  /\ w' = "trunc"
  /\ wb' = 0 /\ wend' = 0
  /\ TruncateDirect(isize) \/ TruncateIndirect(isize) \/ TruncateReadError(isize)
  /\ Observe
  /\ UNCHANGED <<free, own, lost, isize, new, fsize>>

WriteFailedInside ==
  /\ w = "failed"
  /\ wend <= isize
  /\ w' = "idle"
  /\ wb' = 0 /\ wend' = 0
  /\ UNCHANGED <<treeVars, isize, errs, new, stack, fsize, readerVars>>

\* chunk_and_replace releases the zones: i_size is 0 while truncate runs.
Chunk ==
  /\ w = "idle"
  /\ fsize' = isize
  /\ isize' = 0
  /\ w' = "chunking"
  /\ TruncateDirect(0)
  /\ UNCHANGED <<free, own, lost, wb, wend, new, readerVars>>

Truncating == w \in {"trunc", "chunking"}
Top == stack[1]

\* Mutant: a pointer is not cleared.
ClearCellKept ==
  /\ Truncating /\ stack # <<>>
  /\ Top.kind = "cell"
  /\ stack' = (IF ptr[Top.cell] = NoZone THEN <<>>
               ELSE <<TreeItem(ptr[Top.cell], Top.d)>>) \o Tail(stack)
  /\ UNCHANGED <<treeVars, isize, errs, w, wb, wend, new, fsize, readerVars>>

\* nr = *p; if (nr) *p = 0.
ClearCell ==
  /\ Truncating /\ stack # <<>>
  /\ Top.kind = "cell"
  /\ stack' = (IF ptr[Top.cell] = NoZone THEN <<>>
               ELSE <<TreeItem(ptr[Top.cell], Top.d)>>) \o Tail(stack)
  /\ ptr' = [ptr EXCEPT ![Top.cell] = NoZone]
  /\ Observe
  /\ UNCHANGED <<free, own, lost, isize, errs, w, wb, wend, new, fsize>>

\* free_branches reads an indirect block: its cells come first.
Descend ==
  /\ Truncating /\ stack # <<>>
  /\ Top.kind = "tree" /\ Top.d > 0
  /\ stack' = CellItems(Top.zone, 0, IndirCount - 1, Top.d - 1)
              \o <<TreeItem(Top.zone, 0)>> \o Tail(stack)
  /\ UNCHANGED <<treeVars, isize, errs, w, wb, wend, new, fsize, readerVars>>

\* Zones below zone z when d levels of pointers are below it.
Below(z, d) ==
  LET level[n \in 0 .. d] ==
        IF n = 0 THEN {z}
        ELSE {ptr[<<y, j>>] : y \in level[n - 1], j \in Index} \cap Zone
  IN UNION {level[n] : n \in 0 .. d}

\* sb_bread fails: the block and what is below it are passed over.
DescendError ==
  /\ Truncating /\ stack # <<>>
  /\ Top.kind = "tree" /\ Top.d > 0
  /\ errs < MaxErrors
  /\ errs' = errs + 1
  /\ lost' = lost \cup Below(Top.zone, Top.d)
  /\ stack' = Tail(stack)
  /\ UNCHANGED <<ptr, free, own, isize, w, wb, wend, new, fsize, readerVars>>

\* cominix_free_block.
FreeZone ==
  /\ Truncating /\ stack # <<>>
  /\ Top.kind = "tree" /\ Top.d = 0
  /\ FreeBlocks({Top.zone})
  /\ stack' = Tail(stack)
  /\ UNCHANGED <<ptr, lost, isize, errs, w, wb, wend, new, fsize, readerVars>>

\* truncate returns; chunk_and_replace puts i_size back and turns the inode
\* into a chunked one.
TruncateEnd ==
  /\ Truncating /\ stack = <<>>
  /\ w' = IF w = "trunc" THEN "idle" ELSE "chunked"
  /\ isize' = IF w = "trunc" THEN isize ELSE fsize
  /\ UNCHANGED <<treeVars, errs, wb, wend, new, stack, fsize, readerVars>>

\* truncate(2): there is no setattr operation, so i_size is set and the pages
\* behind it are dropped, which waits for readers that have them locked.
SetSize(s) ==
  /\ w = "idle"
  /\ \A r \in Reader : rpc[r] # "idle" => rb[r] < s
  /\ isize' = s
  /\ UNCHANGED <<treeVars, errs, writerVars, readerVars>>

Writer ==
  \/ \E b \in WriteAt, n \in 1 .. MaxWrite : Write(b, n)
  \/ GetBlockFound \/ GetBlockHole \/ GetBlockError \/ WriteEnd
  \/ AllocBlock \/ AllocFail \/ SpliceBranch
  \/ WriteFailed \/ WriteFailedInside \/ Chunk
  \/ ClearCell \/ Descend \/ DescendError \/ FreeZone \/ TruncateEnd
  \/ \E s \in NewSizes : SetSize(s)

-----------------------------------------------------------------------------
(* get_block of a reader: create is 0.                                     *)

Path(r) == block_to_path(rb[r])

\* block_read_full_folio maps the blocks in front of i_size; get_branch reads
\* the pointer of the inode without a lock.
ReadStart(r, b) ==
  /\ rpc[r] = "idle"
  /\ b < isize
  /\ w # "chunked"
  /\ rb' = [rb EXCEPT ![r] = b]
  /\ LET c == <<Inode, block_to_path(b)[1]>>
     IN rchain' = [rchain EXCEPT ![r] = <<[cell |-> c, key |-> ptr[c]]>>]
  /\ rpc' = [rpc EXCEPT ![r] = "walk"]
  /\ seen' = [seen EXCEPT ![r] = {Map(b)}]
  /\ UNCHANGED <<treeVars, isize, errs, writerVars, res>>

LastKey(r) == rchain[r][Len(rchain[r])].key

Return(r, value) ==
  /\ rpc' = [rpc EXCEPT ![r] = "idle"]
  /\ res' = [res EXCEPT ![r] = value]
  /\ rchain' = [rchain EXCEPT ![r] = <<>>]
  /\ seen' = [seen EXCEPT ![r] = {}]
  /\ UNCHANGED <<treeVars, isize, writerVars, rb>>

\* The chain is complete, or ends in a hole or in what is no block.
ReadReturn(r) ==
  /\ rpc[r] = "walk"
  /\ LastKey(r) \notin Zone \/ Len(rchain[r]) = Len(Path(r))
  /\ Return(r, LastKey(r))
  /\ UNCHANGED errs

Walking(r) ==
  rpc[r] = "walk" /\ LastKey(r) \in Zone /\ Len(rchain[r]) < Len(Path(r))

\* sb_bread of the next block fails.  Nothing but the answer depends on it, so
\* it needs no bound.
ReadError(r) ==
  /\ Walking(r)
  /\ Return(r, "EIO")
  /\ UNCHANGED errs

Verified(r) ==
  \A n \in DOMAIN rchain[r] : ptr[rchain[r][n].cell] = rchain[r][n].key

\* Mutant: the chain is not verified.
VerifyChainSkipped(r) ==
  /\ Walking(r)
  /\ rpc' = [rpc EXCEPT ![r] = "verified"]
  /\ UNCHANGED <<treeVars, isize, errs, writerVars, rb, rchain, res, seen>>

\* The block is read; under pointers_lock the chain is found unchanged.
VerifyChain(r) ==
  /\ Walking(r)
  /\ Verified(r)
  /\ rpc' = [rpc EXCEPT ![r] = "verified"]
  /\ UNCHANGED <<treeVars, isize, errs, writerVars, rb, rchain, res, seen>>

\* The chain has changed: without create, -EAGAIN is returned.
ChainChanged(r) ==
  /\ Walking(r)
  /\ ~ Verified(r)
  /\ Return(r, "EAGAIN")
  /\ UNCHANGED errs

\* add_chain: the next pointer is read and the lock released.
AddChain(r) ==
  /\ rpc[r] = "verified"
  /\ LET c == <<LastKey(r), Path(r)[Len(rchain[r]) + 1]>>
     IN rchain' = [rchain EXCEPT ![r] = Append(@, [cell |-> c, key |-> ptr[c]])]
  /\ rpc' = [rpc EXCEPT ![r] = "walk"]
  /\ UNCHANGED <<treeVars, isize, errs, writerVars, rb, res, seen>>

ReaderStep(r) ==
  \/ \E b \in Block : ReadStart(r, b)
  \/ ReadReturn(r) \/ ReadError(r) \/ VerifyChain(r) \/ ChainChanged(r)
  \/ AddChain(r)

Next ==
  \/ Writer
  \/ \E r \in Reader : ReaderStep(r)
  \/ \E z \in Zone : OtherTakes(z) \/ OtherGives(z)

Spec == Init /\ [][Next]_vars

\* The scheduler runs every task that can go on; nobody has to begin.
Running == w # "idle" /\ Writer

FairSpec ==
  /\ Spec
  /\ WF_vars(Running)
  /\ \A r \in Reader : WF_vars(rpc[r] # "idle" /\ ReaderStep(r))

-----------------------------------------------------------------------------
(* nblocks: the blocks that cominix_getattr reports for a size, the        *)
(* indirect ones included.  Level 0 is the blocks of the file.             *)

\* Mutant: the division is not rounded up.
nblocks_rounded_down(size) ==
  LET level[n \in 0 .. (DEPTH - 1)] ==
        IF n = 0 THEN size
        ELSE LET direct == IF n = 1 THEN DIRECT ELSE 1
             IN IF level[n - 1] <= direct THEN 0
                ELSE (level[n - 1] - direct) \div IndirCount
  IN level[0] + level[1] + level[2] + level[3]

nblocks(size) ==
  LET level[n \in 0 .. (DEPTH - 1)] ==
        IF n = 0 THEN size
        ELSE LET direct == IF n = 1 THEN DIRECT ELSE 1
             IN IF level[n - 1] <= direct THEN 0
                ELSE (level[n - 1] - direct + IndirCount - 1) \div IndirCount
  IN level[0] + level[1] + level[2] + level[3]

-----------------------------------------------------------------------------
(* Properties.                                                             *)

\* The zones below the inode, level by level: zones of blocks and indirect
\* blocks that the file points to.
Tree ==
  UNION ({ {ptr[<<Inode, j>>]} \cap Zone : j \in 0 .. (DIRECT - 1)} \cup
         { IF ptr[<<Inode, DIRECT + n>>] \in Zone
           THEN Below(ptr[<<Inode, DIRECT + n>>], n + 1) ELSE {} :
           n \in 0 .. (DEPTH - 2)})

\* Indirect blocks of the file.
Indirects ==
  UNION {IF ptr[<<Inode, DIRECT + n>>] \in Zone
         THEN Below(ptr[<<Inode, DIRECT + n>>], n) ELSE {} :
         n \in 0 .. (DEPTH - 2)}

\* Cells through which the file points to a zone.
TreeCells ==
  LET nodes == Indirects \cup {Inode} IN {c \in Cell : c[1] \in nodes}

\* The file never points to a zone that is free or belongs to another file,
\* nor twice to the same zone, at any moment of an allocation or a truncate.
TreeSound ==
  /\ Tree \subseteq own \ free
  /\ LET used == {c \in TreeCells : ptr[c] \in Zone}
     IN \A c, d \in used : ptr[c] = ptr[d] => c = d

\* No zone leaks: between the operations every zone allocated for the file is
\* in its tree, unless a failed read has cut it off.
NoLeak ==
  w \in {"idle", "chunked"} => own \subseteq Tree \cup lost

\* No indirect block stays behind that leads nowhere.
NoEmptyIndirect ==
  w = "idle" => \A z \in Indirects : \E j \in Index : ptr[<<z, j>>] \in Zone

\* truncate leaves the blocks in front of i_size as they are.
KeepsFront ==
  [][\A b \in Block :
       b < isize' /\ Map(b) # NoZone => MapIn(ptr', b) = Map(b)]_vars

\* and when it returns no block is mapped from i_size on.
TruncateComplete ==
  [][Truncating /\ ~ Truncating' =>
       \A b \in Block : b >= isize => Map(b) = NoZone]_vars

\* A reader is given a zone that its block was mapped to at some moment of the
\* call, never a stale one or foreign bytes, whatever the writer does, except
\* that the file may be being chunked.
ReaderRightUnlessChunked ==
  [][\A r \in Reader :
       rpc[r] # "idle" /\ rpc'[r] = "idle" /\ res'[r] \in Pointer =>
         res'[r] \in seen[r] \/ w \in {"chunking", "chunked"}]_vars

\* The blocks that stat(2) reports for a file of this size are the zones that
\* the paths to its blocks lead through: what the file takes without holes.
BlocksReported ==
  nblocks(isize) =
    Cardinality(UNION {{SubSeq(block_to_path(b), 1, n) :
                        n \in DOMAIN block_to_path(b)} : b \in 0 .. (isize - 1)})

=============================================================================
