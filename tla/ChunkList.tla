----------------------------- MODULE ChunkList ------------------------------
(***************************************************************************)
(* How a file is cut into chunks, and the list of chunk entries through    *)
(* which it is read afterwards: cdc.h, linked_list.h, the loop of          *)
(* chunk_and_replace and chunked_file_read of file.c.                      *)
(*                                                                         *)
(* The byte at offset x of the file is x itself, and the location of a     *)
(* chunk stands for its content: location l holds the bytes of the file    *)
(* from offset l - 1 on.  ChunkStore is about the storage behind it.       *)
(***************************************************************************)
EXTENDS Integers, Sequences, SequencesExt

CONSTANTS
  MaxFile,      \* bound on the size of the file
  MinSize,      \* MinSize, NormalSize and MaxSize of cdc_get_chunk_size
  NormalSize,
  MaxSize,
  PerBlock,     \* entries_per_block
  Block,        \* zones that may hold list blocks, positive numbers
  Counts,       \* byte counts that read(2) is called with
  NewSizes      \* sizes that truncate(2) is called with

ASSUME ChunkListAssumption ==
  /\ MaxFile \in Nat
  /\ MinSize \in Nat \ {0} /\ NormalSize \in Nat /\ MaxSize \in Nat
  /\ MinSize < NormalSize /\ NormalSize < MaxSize
  /\ PerBlock \in Nat \ {0}
  /\ Block \subseteq Nat \ {0} /\ Block # {}
  /\ Counts \subseteq Nat \ {0}
  /\ NewSizes \subseteq Nat

VARIABLES
  size,     \* i_size of the file when it is chunked
  isize,    \* i_size now
  fpos,     \* f_pos of the chunking task
  chain,    \* zones given to the list, in order
  blocks,   \* contents of the zones: an array of entries and a next pointer
  head, end, llSize,
  wpc,      \* where the chunking task is
  rpc,      \* where the reading task is
  pos,      \* f_pos of the reader
  count,    \* bytes asked for
  cur, i, accum,  \* ll_search_left: block, index in it, bytes passed
  got       \* what the last read returned

writerVars == <<size, fpos, chain, blocks, head, end, llSize, wpc>>
readerVars == <<rpc, pos, count, cur, i, accum, got>>
vars == <<size, isize, fpos, chain, blocks, head, end, llSize, wpc, rpc,
          pos, count, cur, i, accum, got>>

-----------------------------------------------------------------------------
Index == 0 .. (PerBlock - 1)
Entry == [location : Nat, size : Nat]
NoEntry == [location |-> 0, size |-> 0]

\* A zone that was freed keeps its bytes; read as a list block they may be
\* entries and a pointer.
Stale(b) == [arr |-> [j \in Index |-> [location |-> MaxFile + 1, size |-> 1]],
             next |-> b]
ZeroBlock == [arr |-> [j \in Index |-> NoEntry], next |-> 0]

Nothing == [from |-> 0, first |-> 0, n |-> 0]

\* The sizes a chunk may have when n bytes are left: where the fingerprint
\* cuts depends on the bytes, so every place in the two loops may be one.
cdc_get_chunk_size(n) ==
  IF n <= MinSize THEN {n}
  ELSE LET normal == IF n < MaxSize /\ n <= NormalSize THEN n ELSE NormalSize
           last == IF n >= MaxSize THEN MaxSize ELSE n
       IN (MinSize .. (normal - 1)) \cup (normal .. (last - 1)) \cup {last}

Init ==
  /\ size \in 0 .. MaxFile
  /\ isize = size
  /\ fpos = 0
  /\ chain = <<>>
  /\ blocks = [b \in Block |-> Stale(b)]
  /\ head = 0 /\ end = 0 /\ llSize = 0
  /\ wpc = "start"
  /\ rpc = "closed"
  /\ pos = 0 /\ count = 0 /\ cur = 0 /\ i = 0 /\ accum = 0
  /\ got = Nothing

-----------------------------------------------------------------------------
(* The chunking task.                                                      *)

\* ll_alloc_new_block and zero_out_block of the head.
AllocHead ==
  /\ wpc = "start"
  /\ \E b \in Block :
       /\ head' = b /\ end' = b
       /\ chain' = <<b>>
       /\ blocks' = [blocks EXCEPT ![b] = ZeroBlock]
  /\ wpc' = "loop"
  /\ UNCHANGED <<size, isize, fpos, llSize, readerVars>>

\* zero_out_block does not mark the buffer dirty: until the first entry is
\* appended it may be dropped from memory, and the zone is read as it was.
ReclaimHead ==
  /\ wpc \in {"loop", "chunked"}
  /\ llSize = 0
  /\ blocks' = [blocks EXCEPT ![head] = Stale(head)]
  /\ UNCHANGED <<size, isize, fpos, chain, head, end, llSize, wpc,
                 readerVars>>

\* Mutant: the entry still goes to the block that was the last one.
ll_append_old_block(entry) ==
  LET at == llSize % PerBlock
  IN IF at = 0 /\ llSize # 0
     THEN \E b \in Block \ ToSet(chain) :
            /\ end' = b
            /\ chain' = Append(chain, b)
            /\ blocks' = [blocks EXCEPT ![end].next = b, ![end].arr[0] = entry,
                                        ![b] = ZeroBlock]
     ELSE /\ blocks' = [blocks EXCEPT ![end].arr[at] = entry]
          /\ UNCHANGED <<end, chain>>

\* ll_append: a full last block gets a successor, which is cleared first.
ll_append(entry) ==
  LET at == llSize % PerBlock
  IN IF at = 0 /\ llSize # 0
     THEN \E b \in Block \ ToSet(chain) :
            /\ end' = b
            /\ chain' = Append(chain, b)
            /\ blocks' = [blocks EXCEPT ![end].next = b,
                                        ![b] = [ZeroBlock EXCEPT !.arr[0] = entry]]
     ELSE /\ blocks' = [blocks EXCEPT ![end].arr[at] = entry]
          /\ UNCHANGED <<end, chain>>

\* One turn of the loop: cut, read, store, append.
AppendChunk(n) ==
  /\ wpc = "loop"
  /\ fpos < size
  /\ n \in cdc_get_chunk_size(size - fpos)
  /\ ll_append([location |-> fpos + 1, size |-> n])
  /\ llSize' = llSize + 1
  /\ fpos' = fpos + n
  /\ UNCHANGED <<size, isize, head, wpc, readerVars>>

\* No zone is left for a list block: BUG_ON(!new).
NoBlock ==
  /\ wpc = "loop"
  /\ fpos < size
  /\ llSize % PerBlock = 0 /\ llSize # 0
  /\ Block \subseteq ToSet(chain)
  /\ wpc' = "dead"
  /\ UNCHANGED <<size, isize, fpos, chain, blocks, head, end, llSize,
                 readerVars>>

\* The inode is switched to chunked and points to the list.
Switch ==
  /\ wpc = "loop"
  /\ fpos >= size
  /\ wpc' = "chunked"
  /\ UNCHANGED <<size, isize, fpos, chain, blocks, head, end, llSize,
                 readerVars>>

\* truncate(2) of a chunked file: there is no setattr operation of its own, so
\* i_size is set and the list stays as it is.
SetSize(s) ==
  /\ wpc = "chunked"
  /\ isize' = s
  /\ UNCHANGED <<writerVars, readerVars>>

-----------------------------------------------------------------------------
(* A task that reads the file from some offset to its end.                 *)

OpenAt(p) ==
  /\ wpc = "chunked"
  /\ rpc = "closed"
  /\ rpc' = "open"
  /\ pos' = p
  /\ got' = Nothing
  /\ UNCHANGED <<writerVars, isize, count, cur, i, accum>>

\* chunked_file_read: the search begins at the head of the list.
Read(c) ==
  /\ rpc = "open"
  /\ pos < isize
  /\ count' = c
  /\ cur' = head /\ i' = 0 /\ accum' = 0
  /\ rpc' = "search"
  /\ UNCHANGED <<writerVars, isize, pos, got>>

\* *pos >= i_size: return 0.
ReadEof ==
  /\ rpc = "open"
  /\ pos >= isize
  /\ rpc' = "closed"
  /\ UNCHANGED <<writerVars, isize, pos, count, cur, i, accum, got>>

InArray == i < PerBlock /\ blocks[cur].arr[i].size # 0

\* Mutant: an entry that ends at the position still holds it.
SearchPastEqual ==
  /\ rpc = "search"
  /\ InArray
  /\ pos > accum + blocks[cur].arr[i].size
  /\ accum' = accum + blocks[cur].arr[i].size
  /\ i' = i + 1
  /\ UNCHANGED <<writerVars, isize, rpc, pos, count, cur, got>>

\* The entry ends before the position.
SearchPast ==
  /\ rpc = "search"
  /\ InArray
  /\ pos >= accum + blocks[cur].arr[i].size
  /\ accum' = accum + blocks[cur].arr[i].size
  /\ i' = i + 1
  /\ UNCHANGED <<writerVars, isize, rpc, pos, count, cur, got>>

\* Mutant: the bytes left in the chunk are counted from its beginning.
SearchHitWhole ==
  /\ rpc = "search"
  /\ InArray
  /\ LET e == blocks[cur].arr[i]
         off == pos - accum
         n == IF count < e.size THEN count ELSE e.size
     IN /\ pos < accum + e.size
        /\ got' = [from |-> pos, first |-> e.location - 1 + off, n |-> n]
        /\ pos' = pos + n
  /\ rpc' = "open"
  /\ UNCHANGED <<writerVars, isize, count, cur, i, accum>>

\* The entry holds the position: chunk_copy_into_buffer copies to the end of
\* the chunk at most.
SearchHit ==
  /\ rpc = "search"
  /\ InArray
  /\ LET e == blocks[cur].arr[i]
         off == pos - accum
         n == IF count < e.size - off THEN count ELSE e.size - off
     IN /\ pos < accum + e.size
        /\ got' = [from |-> pos, first |-> e.location - 1 + off, n |-> n]
        /\ pos' = pos + n
  /\ rpc' = "open"
  /\ UNCHANGED <<writerVars, isize, count, cur, i, accum>>

\* Mutant: the index is not reset for the next block.
SearchBlockNoReset ==
  /\ rpc = "search"
  /\ ~ InArray
  /\ blocks[cur].next # 0
  /\ cur' = blocks[cur].next
  /\ UNCHANGED <<writerVars, isize, rpc, pos, count, accum, got, i>>

\* The array is at its end: on to the next block.
SearchBlock ==
  /\ rpc = "search"
  /\ ~ InArray
  /\ blocks[cur].next # 0
  /\ cur' = blocks[cur].next
  /\ i' = 0
  /\ UNCHANGED <<writerVars, isize, rpc, pos, count, accum, got>>

\* "was too large": the entry {0, 0} is returned, and BUG_ON(!chunk.location).
SearchNone ==
  /\ rpc = "search"
  /\ ~ InArray
  /\ blocks[cur].next = 0
  /\ rpc' = "bug"
  /\ UNCHANGED <<writerVars, isize, pos, count, cur, i, accum, got>>

Reader ==
  \/ \E c \in Counts : Read(c)
  \/ ReadEof \/ SearchPast \/ SearchHit \/ SearchBlock \/ SearchNone

Next ==
  \/ AllocHead \/ ReclaimHead \/ NoBlock \/ Switch
  \/ \E n \in 1 .. MaxFile : AppendChunk(n)
  \/ \E s \in NewSizes : SetSize(s)
  \/ \E p \in 0 .. MaxFile : OpenAt(p)
  \/ Reader

\* A task in read(2) is run until it returns, and reads on until the end.
Spec == Init /\ [][Next]_vars /\ WF_vars(Reader)

-----------------------------------------------------------------------------
(* Properties.                                                             *)

\* Entry k of the list, counted from 0: PerBlock of them in each block.
Nth(k) == blocks[chain[k \div PerBlock + 1]].arr[k % PerBlock]

\* The entries of the list tile the file without gap or overlap up to the
\* position of the chunking task, in the end up to its size; no chunk is empty,
\* none is longer than MaxSize, and only the last is shorter than MinSize.
Tiled ==
  /\ fpos <= size
  /\ wpc = "chunked" => fpos = size
  /\ llSize = 0 => fpos = 0
  /\ \A k \in 0 .. (llSize - 1) :
       LET from == IF k = 0 THEN 0 ELSE Nth(k - 1).location - 1 + Nth(k - 1).size
           to == from + Nth(k).size
       IN /\ Nth(k).location - 1 = from
          /\ Nth(k).size \in 1 .. MaxSize
          /\ k = llSize - 1 => to = fpos
          /\ Nth(k).size < MinSize => k = llSize - 1 /\ to = size

\* A read in front of the end that the file had when it was chunked returns at
\* least one byte, and the bytes that were there before, wherever in the list
\* its entry is.
ReadRight ==
  got # Nothing /\ got.from < size => /\ got.n > 0
                                      /\ got.first = got.from
                                      /\ got.from + got.n <= size

\* A read fails on BUG_ON only behind the end that the file had when it was
\* chunked, which needs truncate(2) to have raised i_size.
BugOnlyBehind == rpc = "bug" => pos >= size

\* Reading on from any offset comes to the end that the file had when it was
\* chunked, or to its present end.
ReaderEnds == rpc = "open" ~> rpc \in {"closed", "bug"} \/ pos >= size

=============================================================================
