-------------------------- MODULE ChunkListProofs ---------------------------
(***************************************************************************)
(* Proofs about ChunkList: for files, chunks, list blocks and reads of     *)
(* every size, the list tiles the file and a read in front of its end      *)
(* finds the right bytes, also when the cleared head of the list was lost. *)
(***************************************************************************)
EXTENDS ChunkList, SequenceTheorems, TLAPS

LEMMA Sizes ==
  /\ MaxFile \in Nat
  /\ MinSize \in Nat \ {0} /\ NormalSize \in Nat /\ MaxSize \in Nat
  /\ MinSize < NormalSize /\ NormalSize < MaxSize
  /\ PerBlock \in Nat \ {0}
  /\ Block \subseteq Nat \ {0}
  /\ Counts \subseteq Nat \ {0}
  /\ NewSizes \subseteq Nat
  BY ChunkListAssumption

-----------------------------------------------------------------------------
(* Numbers of entries: entry k is in block k \div PerBlock at k % PerBlock *)

LEMMA DivMod ==
  ASSUME NEW k \in Nat, NEW q, NEW r, q = k \div PerBlock, r = k % PerBlock
  PROVE  /\ q \in Nat /\ r \in Index /\ k = PerBlock * q + r
<1>1. q \in Int /\ r \in Int /\ 0 <= r /\ r < PerBlock
  BY Sizes
<1>2. k = PerBlock * q + r
  BY <1>1, Sizes, SMT
<1>3. q >= 0
  BY Sizes, Z3
<1> QED BY <1>1, <1>2, <1>3, Sizes DEF Index

LEMMA DivUnique ==
  ASSUME NEW a \in Nat, NEW b \in Nat, NEW m \in Index, NEW n \in Index,
         PerBlock * a + m = PerBlock * b + n
  PROVE  a = b /\ m = n
<1>1. m \in Nat /\ n \in Nat /\ m < PerBlock /\ n < PerBlock
  BY Sizes DEF Index
<1>2. a = b
  <2>1. ~ (a < b)
    BY <1>1, Sizes, Z3
  <2>2. ~ (b < a)
    BY <1>1, Sizes, Z3
  <2> QED BY <2>1, <2>2
<1> QED BY <1>1, <1>2, Sizes, Z3

LEMMA DivOf ==
  ASSUME NEW k \in Nat, NEW a \in Nat, NEW m \in Index, k = PerBlock * a + m
  PROVE  k \div PerBlock = a /\ k % PerBlock = m
<1> DEFINE q == k \div PerBlock
           r == k % PerBlock
<1>1. q \in Nat /\ r \in Index /\ k = PerBlock * q + r
  <2> HIDE DEF q, r
  <2>1. q = k \div PerBlock /\ r = k % PerBlock
    BY DEF q, r
  <2> QED BY <2>1, DivMod
<1> HIDE DEF q, r
<1>2. PerBlock * a + m = PerBlock * q + r
  BY <1>1
<1>3. a = q /\ m = r
  BY <1>1, <1>2, DivUnique
<1> QED BY <1>3 DEF q, r

LEMMA DivOrder ==
  ASSUME NEW k \in Nat, NEW l \in Nat, k <= l
  PROVE  k \div PerBlock <= l \div PerBlock
  BY Sizes, Z3

LEMMA DivNext ==
  ASSUME NEW k \in Nat
  PROVE  /\ (k + 1) % PerBlock = 0 => (k + 1) \div PerBlock = k \div PerBlock + 1
         /\ (k + 1) % PerBlock # 0 => (k + 1) \div PerBlock = k \div PerBlock
<1> DEFINE q == k \div PerBlock
           m == k % PerBlock
<1>1. q = k \div PerBlock /\ m = k % PerBlock
  OBVIOUS
<1> HIDE DEF q, m
<1>2. q \in Nat /\ m \in Index /\ k = PerBlock * q + m
  BY <1>1, DivMod
<1>3. CASE m + 1 < PerBlock
  <2>1. m + 1 \in Index /\ m + 1 # 0
    BY <1>2, <1>3, Sizes DEF Index
  <2>2. k + 1 \in Nat /\ k + 1 = PerBlock * q + (m + 1)
    BY <1>2, <2>1, Sizes DEF Index
  <2>3. (k + 1) \div PerBlock = q /\ (k + 1) % PerBlock = m + 1
    BY <1>2, <2>1, <2>2, DivOf
  <2> QED BY <2>1, <2>3 DEF q
<1>4. CASE ~ (m + 1 < PerBlock)
  <2>1. m + 1 = PerBlock /\ 0 \in Index
    BY <1>2, <1>4, Sizes DEF Index
  <2>2. PerBlock * (q + 1) = PerBlock * q + PerBlock
    BY <1>2, Sizes, Z3
  <2>3. k + 1 \in Nat /\ q + 1 \in Nat /\ k + 1 = PerBlock * (q + 1) + 0
    BY <1>2, <2>1, <2>2, Sizes DEF Index
  <2>4. (k + 1) \div PerBlock = q + 1 /\ (k + 1) % PerBlock = 0
    BY <1>2, <2>1, <2>3, DivOf
  <2> QED BY <2>1, <2>4 DEF q
<1> QED BY <1>3, <1>4

\* A chunk is not empty, ends in the file and is not too long, and only the
\* last one is short.
LEMMA CutSound ==
  ASSUME NEW left \in Nat \ {0}, NEW n \in cdc_get_chunk_size(left)
  PROVE  /\ n \in 1 .. MaxSize
         /\ n <= left
         /\ n < MinSize => n = left
<1>1. CASE left <= MinSize
  BY <1>1, Sizes DEF cdc_get_chunk_size
<1>2. CASE ~ (left <= MinSize)
  BY <1>2, Sizes DEF cdc_get_chunk_size
<1> QED BY <1>1, <1>2

-----------------------------------------------------------------------------
(* The inductive invariant.                                                *)

ListBlock == [arr : [Index -> Entry], next : Block \cup {0}]

Types ==
  /\ size \in Nat /\ isize \in Nat /\ fpos \in Nat /\ llSize \in Nat
  /\ chain \in Seq(Block)
  /\ blocks \in [Block -> ListBlock]
  /\ pos \in Nat /\ count \in Nat /\ i \in Nat /\ accum \in Nat
  /\ got \in [from : Nat, first : Int, n : Int]

\* Before there is a list, and when there may be readers.
Phases ==
  /\ wpc = "start" => chain = <<>> /\ llSize = 0
  /\ rpc # "closed" => wpc = "chunked"

\* The blocks of the list: as many as the entries need, distinct, and linked in
\* the order in which they were given.  What the last one holds behind the last
\* entry is not said: when the cleared head was lost it may be anything.
Linked ==
  /\ wpc # "start" =>
       /\ Len(chain) = IF llSize = 0 THEN 1 ELSE (llSize - 1) \div PerBlock + 1
       /\ head = chain[1] /\ end = chain[Len(chain)]
  /\ \A j, k \in 1 .. Len(chain) : chain[j] = chain[k] => j = k
  /\ \A j \in 1 .. (Len(chain) - 1) : blocks[chain[j]].next = chain[j + 1]

\* Every entry ends in front of the position of the chunking task.
Ends ==
  \A k \in 0 .. (llSize - 1) : Nth(k).location - 1 + Nth(k).size <= fpos

\* A search for a position of the file is in front of an entry of the list, and
\* has passed the bytes in front of that entry.
Searching ==
  rpc = "search" =>
    /\ count > 0 /\ accum <= pos /\ cur \in Block
    /\ pos < size =>
         \E j \in 1 .. Len(chain), k \in 0 .. (llSize - 1) :
           /\ cur = chain[j] /\ i <= PerBlock
           /\ k = PerBlock * (j - 1) + i
           /\ accum = Nth(k).location - 1

ListInv == Types /\ Phases /\ Linked /\ Tiled /\ Ends /\ Searching
             /\ ReadRight /\ BugOnlyBehind

-----------------------------------------------------------------------------
(* Appending an entry.                                                     *)

LEMMA AtIndex ==
  ASSUME NEW k \in Nat
  PROVE  k \div PerBlock \in Nat /\ k % PerBlock \in Index
<1> DEFINE q == k \div PerBlock
           m == k % PerBlock
<1>1. q = k \div PerBlock /\ m = k % PerBlock
  OBVIOUS
<1> HIDE DEF q, m
<1>2. q \in Nat /\ m \in Index
  BY <1>1, DivMod
<1> QED BY <1>1, <1>2

\* Two entries are not at the same place.
LEMMA PlacesDiffer ==
  ASSUME NEW k \in Nat, NEW l \in Nat,
         k \div PerBlock = l \div PerBlock, k % PerBlock = l % PerBlock
  PROVE  k = l
<1> DEFINE q == k \div PerBlock
           m == k % PerBlock
<1>1. q = k \div PerBlock /\ m = k % PerBlock
      /\ q = l \div PerBlock /\ m = l % PerBlock
  OBVIOUS
<1> HIDE DEF q, m
<1>2. k = PerBlock * q + m
  BY <1>1, DivMod
<1>3. l = PerBlock * q + m
  BY <1>1, DivMod
<1> QED BY <1>2, <1>3

LEMMA ZeroPlace == 0 \div PerBlock = 0 /\ 0 % PerBlock = 0 /\ 0 \in Index
<1>1. 0 \in Index /\ 0 = PerBlock * 0 + 0
  BY Sizes DEF Index
<1> QED BY <1>1, DivOf

\* An entry is in a block of the list.
LEMMA InList ==
  ASSUME Types, Linked, wpc # "start", NEW k \in 0 .. (llSize - 1)
  PROVE  /\ k \in Nat /\ k \div PerBlock \in Nat /\ k % PerBlock \in Index
         /\ k \div PerBlock + 1 \in 1 .. Len(chain)
         /\ chain[k \div PerBlock + 1] \in Block
         /\ Nth(k) \in Entry
<1>1. k \in Nat /\ llSize - 1 \in Nat /\ k <= llSize - 1 /\ llSize # 0
  BY DEF Types
<1>2. k \div PerBlock \in Nat /\ k % PerBlock \in Index
      /\ (llSize - 1) \div PerBlock \in Nat
  BY <1>1, AtIndex
<1>3. k \div PerBlock <= (llSize - 1) \div PerBlock
  BY <1>1, DivOrder
<1>4. k \div PerBlock + 1 \in 1 .. Len(chain)
  BY <1>1, <1>2, <1>3 DEF Linked
<1>5. chain[k \div PerBlock + 1] \in Block
  BY <1>4 DEF Types
<1>6. Nth(k) \in Entry
  BY <1>2, <1>5 DEF Nth, Types, ListBlock
<1> QED BY <1>1, <1>2, <1>4, <1>5, <1>6

\* ll_append in a block that is not full.
LEMMA AppendHere ==
  ASSUME Types, Linked, wpc # "start", NEW e \in Entry, wpc' = wpc, head' = head,
         llSize' = llSize + 1,
         ~ (llSize % PerBlock = 0 /\ llSize # 0), ll_append(e)
  PROVE  /\ chain' \in Seq(Block) /\ blocks' \in [Block -> ListBlock]
         /\ Linked'
         /\ \A k \in 0 .. (llSize - 1) : Nth(k)' = Nth(k)
         /\ \A k \in Nat : k = llSize => Nth(k)' = e
<1> DEFINE at == llSize % PerBlock
<1>0. llSize \in Nat /\ at \in Index /\ llSize \div PerBlock \in Nat
  BY AtIndex DEF Types
<1>1. /\ blocks' = [blocks EXCEPT ![end].arr[at] = e]
      /\ chain' = chain /\ end' = end
  BY DEF ll_append
<1>2. Len(chain) = llSize \div PerBlock + 1
  <2>1. CASE llSize = 0
    BY <2>1, ZeroPlace DEF Linked
  <2>2. CASE llSize # 0
    <3>1. llSize - 1 \in Nat /\ (llSize - 1) + 1 = llSize
      BY <1>0, <2>2
    <3>2. llSize \div PerBlock = (llSize - 1) \div PerBlock
      BY <2>2, <3>1, DivNext
    <3> QED BY <2>2, <3>2 DEF Linked
  <2> QED BY <2>1, <2>2
<1>3. end = chain[llSize \div PerBlock + 1] /\ end \in Block
      /\ llSize \div PerBlock + 1 \in 1 .. Len(chain)
  BY <1>0, <1>2 DEF Linked, Types
<1>4. blocks' \in [Block -> ListBlock]
  <2>1. blocks[end] \in ListBlock
    BY <1>3 DEF Types
  <2>2. [blocks[end].arr EXCEPT ![at] = e] \in [Index -> Entry]
    BY <1>0, <2>1 DEF ListBlock
  <2>3. [blocks[end] EXCEPT !.arr[at] = e] \in ListBlock
    BY <2>1, <2>2 DEF ListBlock
  <2>4. blocks' = [blocks EXCEPT ![end] = [blocks[end] EXCEPT !.arr[at] = e]]
    BY <1>1
  <2> QED BY <2>3, <2>4 DEF Types
<1>5. \A b \in Block : blocks'[b].next = blocks[b].next
  BY <1>0, <1>1, <1>3 DEF Types, ListBlock
<1>6. blocks'[end].arr[at] = e
  BY <1>0, <1>1, <1>3 DEF Types, ListBlock
<1>7. \A b \in Block, m \in Index : b # end \/ m # at =>
        blocks'[b].arr[m] = blocks[b].arr[m]
  <2> SUFFICES ASSUME NEW b \in Block, NEW m \in Index, b # end \/ m # at
               PROVE  blocks'[b].arr[m] = blocks[b].arr[m]
    OBVIOUS
  <2>1. b # end => blocks'[b] = blocks[b]
    BY <1>1, <1>3 DEF Types
  <2>2. blocks'[end].arr = [blocks[end].arr EXCEPT ![at] = e]
    BY <1>1, <1>3 DEF Types, ListBlock
  <2>3. blocks[end].arr \in [Index -> Entry]
    BY <1>3 DEF Types, ListBlock
  <2>4. m # at => blocks'[end].arr[m] = blocks[end].arr[m]
    BY <2>2, <2>3
  <2> QED BY <2>1, <2>4
<1>8. \A k \in Nat : k = llSize => Nth(k)' = e
  BY <1>1, <1>3, <1>6 DEF Nth
<1>9. ASSUME NEW k \in 0 .. (llSize - 1) PROVE Nth(k)' = Nth(k)
  <2>1. /\ k \in Nat /\ k # llSize
    BY <1>0
  <2>a. /\ k % PerBlock \in Index
        /\ k \div PerBlock \in Nat
        /\ k \div PerBlock + 1 \in 1 .. Len(chain)
        /\ chain[k \div PerBlock + 1] \in Block
    BY InList
  <2>2. k \div PerBlock # llSize \div PerBlock \/ k % PerBlock # llSize % PerBlock
    BY <1>0, <2>1, PlacesDiffer
  <2>3. chain[k \div PerBlock + 1] # end \/ k % PerBlock # at
    BY <1>0, <1>3, <2>a, <2>2 DEF Linked
  <2> QED BY <1>1, <1>7, <2>a, <2>3 DEF Nth
<1>10. Linked'
  <2>1. Len(chain)' = IF llSize' = 0 THEN 1 ELSE (llSize' - 1) \div PerBlock + 1
    BY <1>0, <1>1, <1>2
  <2>2. \A j \in 1 .. (Len(chain) - 1) : chain[j] \in Block
    BY DEF Types
  <2> QED BY <1>1, <1>5, <2>1, <2>2 DEF Linked
<1> QED BY <1>1, <1>4, <1>8, <1>9, <1>10 DEF Types

\* ll_append when the last block is full.
LEMMA AppendNew ==
  ASSUME Types, Linked, wpc # "start", NEW e \in Entry, wpc' = wpc, head' = head,
         llSize' = llSize + 1,
         llSize % PerBlock = 0, llSize # 0, ll_append(e)
  PROVE  /\ chain' \in Seq(Block) /\ blocks' \in [Block -> ListBlock]
         /\ Linked'
         /\ \A k \in 0 .. (llSize - 1) : Nth(k)' = Nth(k)
         /\ \A k \in Nat : k = llSize => Nth(k)' = e
<1>0. llSize \in Nat /\ llSize - 1 \in Nat /\ (llSize - 1) + 1 = llSize
      /\ llSize \div PerBlock \in Nat /\ 0 \in Index
  BY AtIndex, ZeroPlace DEF Types
<1>1. PICK b \in Block \ ToSet(chain) :
        /\ end' = b /\ chain' = Append(chain, b)
        /\ blocks' = [blocks EXCEPT ![end].next = b,
                                    ![b] = [ZeroBlock EXCEPT !.arr[0] = e]]
  BY DEF ll_append
<1>2. Len(chain) = llSize \div PerBlock
  <2>1. llSize \div PerBlock = (llSize - 1) \div PerBlock + 1
    BY <1>0, DivNext
  <2> QED BY <2>1 DEF Linked
<1>3. /\ end \in Block /\ end = chain[Len(chain)] /\ Len(chain) \in Nat
      /\ Len(chain) >= 1 /\ b # end
  <2>1. Len(chain) \in Nat /\ Len(chain) >= 1
    <3>1. (llSize - 1) \div PerBlock \in Nat
      BY <1>0, AtIndex
    <3> QED BY <3>1 DEF Types, Linked
  <2>2. end = chain[Len(chain)]
    BY DEF Linked
  <2>3. end \in Block /\ end \in ToSet(chain)
    BY <2>1, <2>2 DEF Types, ToSet
  <2> QED BY <2>1, <2>2, <2>3
<1>4. ASSUME NEW j \in 1 .. Len(chain)
      PROVE  chain'[j] = chain[j] /\ chain[j] \in Block /\ chain[j] # b
  BY <1>1 DEF Types, ToSet
<1>5. chain' \in Seq(Block) /\ Len(chain') = Len(chain) + 1
      /\ chain'[Len(chain) + 1] = b
  BY <1>1 DEF Types
<1>6. [ZeroBlock EXCEPT !.arr[0] = e] \in ListBlock
      /\ [ZeroBlock EXCEPT !.arr[0] = e].arr[0] = e
  <2>1. ZeroBlock = [arr |-> ZeroBlock.arr, next |-> 0] /\ ZeroBlock.arr \in [Index -> Entry]
    BY DEF ZeroBlock, NoEntry, Entry
  <2>2. [ZeroBlock EXCEPT !.arr[0] = e] = [arr |-> [ZeroBlock.arr EXCEPT ![0] = e], next |-> 0]
    BY <2>1
  <2>3. [ZeroBlock.arr EXCEPT ![0] = e] \in [Index -> Entry]
        /\ [ZeroBlock.arr EXCEPT ![0] = e][0] = e
    BY <1>0, <2>1
  <2> QED BY <2>2, <2>3 DEF ListBlock
<1>7. blocks' \in [Block -> ListBlock]
  <2> DEFINE old == [blocks[end] EXCEPT !.next = b]
             new == [ZeroBlock EXCEPT !.arr[0] = e]
  <2>1. blocks[end] \in ListBlock
    BY <1>3 DEF Types
  <2>2. old \in ListBlock
    BY <2>1 DEF ListBlock
  <2>3. new \in ListBlock
    BY <1>6
  <2>4. blocks' = [blocks EXCEPT ![end] = old, ![b] = new]
    BY <1>1
  <2> HIDE DEF old, new
  <2> QED BY <2>2, <2>3, <2>4 DEF Types
<1>8. blocks'[b].arr[0] = e
  BY <1>1, <1>6 DEF Types
<1>9. blocks'[end].next = b
  BY <1>1, <1>3 DEF Types, ListBlock
<1>10. \A c \in Block : c # b => blocks'[c].arr = blocks[c].arr
  BY <1>1, <1>3 DEF Types, ListBlock
<1>11. \A c \in Block : c # b /\ c # end => blocks'[c] = blocks[c]
  BY <1>1, <1>3 DEF Types
<1>12. \A k \in Nat : k = llSize => Nth(k)' = e
  BY <1>0, <1>2, <1>5, <1>8 DEF Nth
<1>13. ASSUME NEW k \in 0 .. (llSize - 1) PROVE Nth(k)' = Nth(k)
  <2>1. k \div PerBlock + 1 \in 1 .. Len(chain)
    BY InList
  <2> QED BY <1>4, <1>10, <2>1 DEF Nth
<1>14. Linked'
  <2>1. Len(chain)' = IF llSize' = 0 THEN 1 ELSE (llSize' - 1) \div PerBlock + 1
    BY <1>0, <1>2, <1>5
  <2>2. head' = chain'[1] /\ end' = chain'[Len(chain')]
    BY <1>1, <1>3, <1>4, <1>5 DEF Linked
  <2>3. \A j, k \in 1 .. Len(chain') : chain'[j] = chain'[k] => j = k
    BY <1>3, <1>4, <1>5 DEF Linked
  <2>4. ASSUME NEW j \in 1 .. (Len(chain') - 1)
        PROVE  blocks'[chain'[j]].next = chain'[j + 1]
    <3>1. CASE j = Len(chain)
      BY <1>3, <1>4, <1>5, <1>9, <3>1
    <3>2. CASE j # Len(chain)
      <4>1. j \in 1 .. (Len(chain) - 1) /\ j + 1 \in 1 .. Len(chain)
            /\ j \in 1 .. Len(chain) /\ Len(chain) \in 1 .. Len(chain)
        BY <1>3, <1>5, <3>2
      <4>2. chain[j] # end
        BY <1>3, <3>2, <4>1 DEF Linked
      <4>3. blocks'[chain'[j]] = blocks[chain[j]]
        BY <1>4, <1>11, <4>1, <4>2
      <4> QED BY <1>4, <4>1, <4>3 DEF Linked
    <3> QED BY <3>1, <3>2
  <2> QED BY <2>1, <2>2, <2>3, <2>4 DEF Linked
<1> QED BY <1>5, <1>7, <1>12, <1>13, <1>14


-----------------------------------------------------------------------------
(* The steps.                                                              *)

LEMMA ListInit == Init => ListInv
<1> SUFFICES ASSUME Init PROVE ListInv
  OBVIOUS
<1>1. \A b \in Block : Stale(b) \in ListBlock
  BY Sizes DEF Stale, ListBlock, Entry
<1>2. Types
  <2>1. blocks \in [Block -> ListBlock]
    BY <1>1 DEF Init
  <2>2. got \in [from : Nat, first : Int, n : Int]
    BY DEF Init, Nothing
  <2>3. chain \in Seq(Block)
    BY DEF Init
  <2> QED BY <2>1, <2>2, <2>3, Sizes DEF Init, Types
<1>3. Phases /\ Searching /\ BugOnlyBehind /\ ReadRight
  BY DEF Init, Phases, Searching, BugOnlyBehind, ReadRight
<1>4. Linked
  BY DEF Init, Linked
<1>5. Tiled /\ Ends
  BY Sizes DEF Init, Tiled, Ends
<1> QED BY <1>2, <1>3, <1>4, <1>5 DEF ListInv

LEMMA AllocHeadStep == ListInv /\ AllocHead => ListInv'
<1> SUFFICES ASSUME ListInv, AllocHead PROVE ListInv'
  OBVIOUS
<1> USE DEF ListInv
<1>1. PICK b \in Block : /\ head' = b /\ end' = b /\ chain' = <<b>>
                         /\ blocks' = [blocks EXCEPT ![b] = ZeroBlock]
  BY DEF AllocHead
<1>2. /\ wpc = "start" /\ wpc' = "loop" /\ llSize = 0 /\ llSize' = 0
      /\ rpc = "closed" /\ rpc' = "closed" /\ fpos' = fpos /\ size' = size
      /\ isize' = isize /\ pos' = pos /\ count' = count /\ cur' = cur /\ i' = i
      /\ accum' = accum /\ got' = got
  BY DEF AllocHead, Phases, readerVars
<1>3. Types'
  <2>1. ZeroBlock \in ListBlock
    BY DEF ZeroBlock, ListBlock, NoEntry, Entry
  <2>2. blocks' \in [Block -> ListBlock]
    BY <1>1, <2>1 DEF Types
  <2>3. chain' \in Seq(Block)
    BY <1>1
  <2> QED BY <1>2, <2>2, <2>3 DEF Types
<1>4. Phases' /\ Searching' /\ BugOnlyBehind'
  BY <1>2 DEF Phases, Searching, BugOnlyBehind
<1>5. Linked'
  BY <1>1, <1>2 DEF Linked
<1>6. Tiled'
  BY <1>2 DEF Tiled, Types
<1>7. Ends' /\ ReadRight'
  BY <1>2 DEF Ends, ReadRight
<1> QED BY <1>3, <1>4, <1>5, <1>6, <1>7

LEMMA ReclaimHeadStep == ListInv /\ ReclaimHead => ListInv'
<1> SUFFICES ASSUME ListInv, ReclaimHead PROVE ListInv'
  OBVIOUS
<1> USE DEF ListInv
<1>1. /\ wpc \in {"loop", "chunked"} /\ llSize = 0 /\ llSize' = llSize
      /\ blocks' = [blocks EXCEPT ![head] = Stale(head)]
      /\ wpc' = wpc /\ chain' = chain /\ head' = head /\ end' = end
      /\ fpos' = fpos /\ size' = size /\ isize' = isize
      /\ rpc' = rpc /\ pos' = pos /\ count' = count /\ cur' = cur /\ i' = i
      /\ accum' = accum /\ got' = got
  BY DEF ReclaimHead, readerVars
<1>2. Len(chain) = 1 /\ head = chain[1] /\ fpos = 0
  BY <1>1 DEF Linked, Tiled
<1>3. head \in Block
  <2>1. 1 \in 1 .. Len(chain)
    BY <1>2
  <2>2. chain \in Seq(Block)
    BY DEF Types
  <2>3. chain[1] \in Block
    BY <2>1, <2>2, ElementOfSeq
  <2> QED BY <1>2, <2>3
<1>4. Types'
  <2>1. Stale(head) \in ListBlock
    BY <1>3, Sizes DEF Stale, ListBlock, Entry
  <2>2. blocks' \in [Block -> ListBlock]
    BY <1>1, <1>3, <2>1 DEF Types
  <2> QED BY <1>1, <2>2 DEF Types
<1>5. Phases' /\ BugOnlyBehind' /\ ReadRight'
  BY <1>1 DEF Phases, BugOnlyBehind, ReadRight
<1>6. Linked'
  BY <1>1, <1>2 DEF Linked
<1>7. Tiled' /\ Ends'
  BY <1>1 DEF Tiled, Ends
<1>8. Searching'
  <2>1. rpc = "search" => ~ (pos < size)
    BY <1>1, <1>2 DEF Phases, Tiled, Types
  <2> QED BY <1>1, <2>1 DEF Searching
<1> QED BY <1>4, <1>5, <1>6, <1>7, <1>8

LEMMA AppendChunkStep ==
  ASSUME NEW n \in 1 .. MaxFile, ListInv, AppendChunk(n)
  PROVE  ListInv'
<1> USE DEF ListInv
<1> DEFINE e == [location |-> fpos + 1, size |-> n]
<1>1. /\ wpc = "loop" /\ wpc' = wpc /\ fpos < size /\ ll_append(e)
      /\ llSize' = llSize + 1 /\ fpos' = fpos + n /\ head' = head
      /\ size' = size /\ isize' = isize
      /\ rpc' = rpc /\ pos' = pos /\ count' = count /\ cur' = cur /\ i' = i
      /\ accum' = accum /\ got' = got
      /\ n \in cdc_get_chunk_size(size - fpos)
  BY DEF AppendChunk, readerVars
<1>2. n \in 1 .. MaxSize /\ n <= size - fpos /\ (n < MinSize => n = size - fpos)
      /\ n \in Nat
  <2>1. size - fpos \in Nat \ {0}
    BY <1>1 DEF Types
  <2> QED BY <1>1, <2>1, CutSound
<1>3. e \in Entry /\ e.location = fpos + 1 /\ e.size = n
  BY <1>2 DEF Entry, Types
<1> HIDE DEF e
<1>4. /\ chain' \in Seq(Block) /\ blocks' \in [Block -> ListBlock]
      /\ Linked'
      /\ \A k \in 0 .. (llSize - 1) : Nth(k)' = Nth(k)
      /\ \A k \in Nat : k = llSize => Nth(k)' = e
  <2>1. CASE llSize % PerBlock = 0 /\ llSize # 0
    BY <1>1, <1>3, <2>1, AppendNew
  <2>2. CASE ~ (llSize % PerBlock = 0 /\ llSize # 0)
    BY <1>1, <1>3, <2>2, AppendHere
  <2> QED BY <2>1, <2>2
<1>5. Types'
  BY <1>1, <1>2, <1>4 DEF Types
<1>6. rpc = "closed"
  BY <1>1 DEF Phases
<1>7. Phases' /\ Searching' /\ BugOnlyBehind' /\ ReadRight'
  BY <1>1, <1>6 DEF Phases, Searching, BugOnlyBehind, ReadRight
<1>8. \A k \in 0 .. (llSize - 1) :
        /\ Nth(k).location \in Nat /\ Nth(k).size \in Nat
        /\ Nth(k).location - 1 + Nth(k).size <= fpos
        /\ ~ (Nth(k).size < MinSize)
        /\ k = llSize - 1 => Nth(k).location - 1 + Nth(k).size = fpos
  <2> SUFFICES ASSUME NEW k \in 0 .. (llSize - 1)
               PROVE  /\ Nth(k).location \in Nat /\ Nth(k).size \in Nat
                      /\ Nth(k).location - 1 + Nth(k).size <= fpos
                      /\ ~ (Nth(k).size < MinSize)
                      /\ k = llSize - 1 => Nth(k).location - 1 + Nth(k).size = fpos
    OBVIOUS
  <2>1. Nth(k) \in Entry
    BY <1>1, InList
  <2>2. Nth(k).location \in Nat /\ Nth(k).size \in Nat
    BY <2>1 DEF Entry
  <2>3. Nth(k).location - 1 + Nth(k).size <= fpos
    BY DEF Ends
  <2>4. k = llSize - 1 => Nth(k).location - 1 + Nth(k).size = fpos
    BY <2>2 DEF Tiled
  <2>5. ~ (Nth(k).size < MinSize)
    BY <1>1, <2>2, <2>3 DEF Tiled, Types
  <2> QED BY <2>2, <2>3, <2>4, <2>5
<1>9. Ends'
  <2> SUFFICES ASSUME NEW k \in 0 .. (llSize' - 1)
               PROVE  Nth(k)'.location - 1 + Nth(k)'.size <= fpos'
    BY DEF Ends
  <2>1. CASE k = llSize
    BY <1>1, <1>2, <1>3, <1>4, <2>1 DEF Types
  <2>2. CASE k # llSize
    <3>1. k \in 0 .. (llSize - 1)
      BY <1>1, <2>2 DEF Types
    <3>2. Nth(k)' = Nth(k)
      BY <1>4, <3>1
    <3>3. /\ Nth(k).location \in Nat /\ Nth(k).size \in Nat
          /\ Nth(k).location - 1 + Nth(k).size <= fpos
      BY <1>8, <3>1
    <3>4. fpos \in Nat /\ fpos' = fpos + n
      BY <1>1 DEF Types
    <3> HIDE DEF ListInv
    <3> QED BY <1>2, <3>2, <3>3, <3>4
  <2> QED BY <2>1, <2>2
<1>10. ASSUME NEW k \in 0 .. (llSize' - 1)
       PROVE  LET from == IF k = 0 THEN 0
                          ELSE Nth(k - 1)'.location - 1 + Nth(k - 1)'.size
                  to == from + Nth(k)'.size
              IN /\ Nth(k)'.location - 1 = from
                 /\ Nth(k)'.size \in 1 .. MaxSize
                 /\ k = llSize' - 1 => to = fpos'
                 /\ Nth(k)'.size < MinSize => k = llSize' - 1 /\ to = size'
  <2>0. k \in Nat /\ llSize \in Nat /\ fpos \in Nat /\ size \in Nat
    BY <1>1 DEF Types
  <2>1. CASE k = llSize
    <3>1. Nth(k)' = e
      BY <1>4, <2>0, <2>1
    <3>2. CASE k = 0
      <4>1. fpos = 0
        BY <2>1, <3>2 DEF Tiled
      <4> QED BY <1>1, <1>2, <1>3, <2>0, <2>1, <3>1, <3>2, <4>1
    <3>3. CASE k # 0
      <4>1. k - 1 \in 0 .. (llSize - 1) /\ k - 1 = llSize - 1
        BY <2>0, <2>1, <3>3
      <4>2. Nth(k - 1)' = Nth(k - 1)
            /\ Nth(k - 1).location - 1 + Nth(k - 1).size = fpos
        BY <1>4, <1>8, <4>1
      <4> QED BY <1>1, <1>2, <1>3, <2>0, <2>1, <3>1, <3>3, <4>2
    <3> QED BY <3>2, <3>3
  <2>2. CASE k # llSize
    <3>1. k \in 0 .. (llSize - 1) /\ k # llSize' - 1
      BY <1>1, <2>0, <2>2
    <3>2. Nth(k)' = Nth(k) /\ ~ (Nth(k).size < MinSize)
      BY <1>4, <1>8, <3>1
    <3>3. Nth(k).size \in 1 .. MaxSize
      BY <3>1 DEF Tiled
    <3>4. CASE k = 0
      <4>1. Nth(k).location - 1 = 0
        BY <3>1, <3>4 DEF Tiled
      <4> QED BY <3>1, <3>2, <3>3, <3>4, <4>1
    <3>5. CASE k # 0
      <4>1. k - 1 \in 0 .. (llSize - 1)
        BY <2>0, <3>1, <3>5
      <4>2. Nth(k - 1)' = Nth(k - 1)
        BY <1>4, <4>1
      <4>3. Nth(k).location - 1 = Nth(k - 1).location - 1 + Nth(k - 1).size
        BY <3>1, <3>5 DEF Tiled
      <4> QED BY <3>1, <3>2, <3>3, <3>5, <4>2, <4>3
    <3> QED BY <3>4, <3>5
  <2> QED BY <2>1, <2>2
<1>11. Tiled'
  <2>1. fpos' <= size' /\ wpc' # "chunked" /\ llSize' # 0
    BY <1>1, <1>2 DEF Types
  <2> QED BY <1>10, <2>1 DEF Tiled
<1> QED BY <1>4, <1>5, <1>7, <1>9, <1>11


\* Steps that leave the list alone keep what is said of it.
LEMMA ListKept ==
  ASSUME ListInv, wpc' = wpc, UNCHANGED <<size, fpos, chain, blocks, head, end, llSize>>
  PROVE  Linked' /\ Tiled' /\ Ends'
<1>1. \A k : Nth(k)' = Nth(k)
  BY DEF Nth
<1>2. Linked'
  BY DEF ListInv, Linked
<1>3. Tiled' /\ Ends'
  BY <1>1 DEF ListInv, Tiled, Ends
<1> QED BY <1>2, <1>3

\* The other steps of the chunking task, and truncate(2).
LEMMA WriterStep ==
  ListInv /\ (NoBlock \/ Switch \/ \E s \in NewSizes : SetSize(s)) => ListInv'
<1> USE DEF ListInv
<1> SUFFICES ASSUME ListInv, NoBlock \/ Switch \/ \E s \in NewSizes : SetSize(s)
             PROVE  ListInv'
  OBVIOUS
<1>1. /\ UNCHANGED <<size, fpos, chain, blocks, head, end, llSize, readerVars>>
      /\ wpc # "start" /\ isize' \in Nat
      /\ \/ wpc = "loop" /\ wpc' \in {"dead", "chunked"}
         \/ wpc = "chunked" /\ wpc' = wpc
      /\ wpc' = "chunked" => wpc = "chunked" \/ fpos >= size
  BY Sizes DEF NoBlock, Switch, SetSize, writerVars, readerVars, Types
<1>2. /\ rpc' = rpc /\ pos' = pos /\ count' = count /\ cur' = cur /\ i' = i
      /\ accum' = accum /\ got' = got
  BY <1>1 DEF readerVars
<1>3. Types'
  BY <1>1, <1>2 DEF Types
<1>4. Phases'
  BY <1>1, <1>2 DEF Phases
<1>5. Linked'
  BY <1>1 DEF Linked
<1>6. \A k : Nth(k)' = Nth(k)
  BY <1>1 DEF Nth
<1>7. Ends' /\ Searching' /\ BugOnlyBehind' /\ ReadRight'
  BY <1>1, <1>2, <1>6 DEF Ends, Searching, BugOnlyBehind, ReadRight
<1>8. Tiled'
  <2>1. wpc' = "chunked" => fpos' = size'
    BY <1>1 DEF Tiled, Types
  <2> QED BY <1>1, <1>6, <2>1 DEF Tiled
<1> QED BY <1>3, <1>4, <1>5, <1>7, <1>8

\* A read is begun or refused.
LEMMA OpenStep ==
  ListInv /\ (ReadEof \/ \E p \in 0 .. MaxFile : OpenAt(p)) => ListInv'
<1> USE DEF ListInv
<1> SUFFICES ASSUME ListInv, ReadEof \/ \E p \in 0 .. MaxFile : OpenAt(p)
             PROVE  ListInv'
  OBVIOUS
<1>1. /\ UNCHANGED <<size, fpos, chain, blocks, head, end, llSize>>
      /\ wpc' = wpc /\ isize' = isize /\ wpc = "chunked"
      /\ rpc' \in {"open", "closed"} /\ pos' \in Nat
      /\ count' = count /\ cur' = cur /\ i' = i /\ accum' = accum
      /\ got' = got \/ got' = Nothing
  BY Sizes DEF ReadEof, OpenAt, writerVars, Types, Phases
<1>2. Linked' /\ Tiled' /\ Ends'
  BY <1>1, ListKept
<1>3. Types'
  <2>1. Nothing \in [from : Nat, first : Int, n : Int]
    BY DEF Nothing
  <2> QED BY <1>1, <2>1 DEF Types
<1>4. Phases' /\ Searching' /\ BugOnlyBehind' /\ ReadRight'
  BY <1>1 DEF Phases, Searching, BugOnlyBehind, ReadRight
<1> QED BY <1>2, <1>3, <1>4

LEMMA ReadStep ==
  ASSUME NEW c \in Counts, ListInv, Read(c)
  PROVE  ListInv'
<1> USE DEF ListInv
<1>1. /\ UNCHANGED <<size, fpos, chain, blocks, head, end, llSize>>
      /\ wpc' = wpc /\ isize' = isize /\ wpc = "chunked"
      /\ rpc' = "search" /\ pos' = pos /\ got' = got
      /\ count' = c /\ cur' = head /\ i' = 0 /\ accum' = 0
  BY DEF Read, writerVars, Phases
<1>2. Linked' /\ Tiled' /\ Ends'
  BY <1>1, ListKept
<1>3. Types'
  BY <1>1, Sizes DEF Types
<1>4. Phases' /\ BugOnlyBehind' /\ ReadRight'
  BY <1>1 DEF Phases, BugOnlyBehind, ReadRight
<1>5. Len(chain) \in Nat /\ Len(chain) >= 1 /\ head = chain[1] /\ head \in Block
  <2>1. llSize # 0 => (llSize - 1) \div PerBlock \in Nat
    <3>1. llSize # 0 => llSize - 1 \in Nat
      BY DEF Types
    <3> HIDE DEF ListInv
    <3> QED BY <3>1, AtIndex
  <2>2. Len(chain) \in Nat
    BY DEF Types
  <2>3. head = chain[1]
    BY <1>1 DEF Linked
  <2>4. Len(chain) = IF llSize = 0 THEN 1 ELSE (llSize - 1) \div PerBlock + 1
    BY <1>1 DEF Linked
  <2>5. Len(chain) >= 1
    <3> HIDE DEF ListInv
    <3> QED BY <2>1, <2>4
  <2>6. chain[1] \in Block
    BY <2>2, <2>5 DEF Types
  <2> QED BY <2>2, <2>3, <2>5, <2>6
<1>6. Searching'
  <2> SUFFICES ASSUME pos' < size'
               PROVE  \E j \in 1 .. Len(chain'), k \in 0 .. (llSize' - 1) :
                        /\ cur' = chain'[j] /\ i' <= PerBlock
                        /\ k = PerBlock * (j - 1) + i'
                        /\ accum' = Nth(k)'.location - 1
    BY <1>1, <1>5, Sizes DEF Searching, Types
  <2>1. llSize # 0 /\ llSize \in Nat
    BY <1>1 DEF Types, Tiled
  <2>2. 0 \in 0 .. (llSize - 1)
    BY <2>1
  <2>3. Nth(0).location - 1 = 0
    BY <2>2 DEF Tiled
  <2>4. PerBlock * (1 - 1) + 0 = 0
    BY Sizes
  <2>5. Nth(0)' = Nth(0)
    BY <1>1 DEF Nth
  <2>6. 1 \in 1 .. Len(chain') /\ 0 \in 0 .. (llSize' - 1)
    BY <1>1, <1>5, <2>2
  <2> QED BY <1>1, <1>5, <2>6, <2>3, <2>4, <2>5, Sizes
<1> QED BY <1>2, <1>3, <1>4, <1>6


\* Where a search for a position of the file is: in front of entry k, which it
\* sees unless it has come to the end of a block, and then the entry is the
\* first of the next block.
LEMMA SearchAt ==
  ASSUME ListInv, rpc = "search", pos < size
  PROVE  \E j \in 1 .. Len(chain), k \in 0 .. (llSize - 1) :
           /\ cur = chain[j] /\ i <= PerBlock /\ k = PerBlock * (j - 1) + i
           /\ accum = Nth(k).location - 1
           /\ Nth(k) \in Entry /\ Nth(k).size >= 1
           /\ i < PerBlock => InArray /\ Nth(k) = blocks[cur].arr[i]
           /\ i = PerBlock => /\ j + 1 \in 1 .. Len(chain)
                              /\ k = PerBlock * ((j + 1) - 1) + 0
                              /\ blocks[cur].next = chain[j + 1]
<1> USE DEF ListInv
<1>1. PICK j \in 1 .. Len(chain), k \in 0 .. (llSize - 1) :
           /\ cur = chain[j] /\ i <= PerBlock /\ k = PerBlock * (j - 1) + i
           /\ accum = Nth(k).location - 1
  BY DEF Searching
<1>2. wpc = "chunked"
  BY DEF Phases
<1>3. k \in Nat /\ k \div PerBlock + 1 \in 1 .. Len(chain) /\ Nth(k) \in Entry
  BY <1>2, InList
<1>4. Nth(k).size >= 1
  BY DEF Tiled
<1>5. j - 1 \in Nat /\ i \in Nat
  BY DEF Types
<1>6. i < PerBlock => InArray /\ Nth(k) = blocks[cur].arr[i]
  <2> SUFFICES ASSUME i < PerBlock PROVE InArray /\ Nth(k) = blocks[cur].arr[i]
    OBVIOUS
  <2>1. i \in Index
    BY <1>5, Sizes DEF Index
  <2>2. k \div PerBlock = j - 1 /\ k % PerBlock = i
    BY <1>1, <1>3, <1>5, <2>1, DivOf
  <2>3. k \div PerBlock + 1 = j
    BY <1>5, <2>2
  <2>4. Nth(k) = blocks[cur].arr[i]
    BY <1>1, <2>2, <2>3 DEF Nth
  <2>5. blocks[cur].arr[i].size # 0
    BY <1>4, <2>4
  <2> QED BY <2>4, <2>5 DEF InArray
<1>7. i = PerBlock => /\ j + 1 \in 1 .. Len(chain)
                      /\ k = PerBlock * ((j + 1) - 1) + 0
                      /\ blocks[cur].next = chain[j + 1]
  <2> SUFFICES ASSUME i = PerBlock
               PROVE  /\ j + 1 \in 1 .. Len(chain)
                      /\ k = PerBlock * ((j + 1) - 1) + 0
                      /\ blocks[cur].next = chain[j + 1]
    OBVIOUS
  <2>1. PerBlock * j = PerBlock * (j - 1) + PerBlock
    BY Sizes, Z3
  <2>2. j \in Nat /\ k = PerBlock * j + 0
    BY <1>1, <1>3, <2>1
  <2>3. k \div PerBlock = j
    BY <1>3, <2>2, DivOf, ZeroPlace
  <2>4. j + 1 \in 1 .. Len(chain)
    BY <1>3, <2>3
  <2>5. j \in 1 .. (Len(chain) - 1)
    BY <2>4 DEF Types
  <2>6. blocks[cur].next = chain[j + 1]
    BY <1>1, <2>5 DEF Linked
  <2>7. (j + 1) - 1 = j
    OBVIOUS
  <2> QED BY <2>2, <2>4, <2>6, <2>7
<1> QED BY <1>1, <1>3, <1>4, <1>6, <1>7

LEMMA SearchPastStep == ListInv /\ SearchPast => ListInv'
<1> USE DEF ListInv
<1> SUFFICES ASSUME ListInv, SearchPast PROVE ListInv'
  OBVIOUS
<1> DEFINE e == blocks[cur].arr[i]
<1>1. /\ UNCHANGED <<size, fpos, chain, blocks, head, end, llSize>>
      /\ wpc' = wpc /\ isize' = isize /\ wpc = "chunked"
      /\ rpc = "search" /\ rpc' = "search" /\ pos' = pos /\ got' = got
      /\ count' = count /\ cur' = cur /\ i < PerBlock /\ i' = i + 1
      /\ accum' = accum + e.size /\ pos >= accum + e.size
  BY DEF SearchPast, InArray, writerVars, Phases
<1>2. e \in Entry /\ e.size \in Nat
  <2>1. i \in Index /\ cur \in Block
    BY <1>1, Sizes DEF Types, Searching, Index
  <2> QED BY <2>1 DEF Types, ListBlock, Entry
<1>3. Linked' /\ Tiled' /\ Ends'
  BY <1>1, ListKept
<1>4. Types'
  <2>1. accum' \in Nat /\ i' \in Nat
    <3> HIDE DEF e
    <3> QED BY <1>1, <1>2 DEF Types
  <2> QED BY <1>1, <2>1 DEF Types
<1>5. Phases' /\ BugOnlyBehind' /\ ReadRight'
  BY <1>1 DEF Phases, BugOnlyBehind, ReadRight
<1>6. Searching'
  <2>0. count' > 0 /\ accum' <= pos' /\ cur' \in Block
    BY <1>1 DEF Searching
  <2> SUFFICES ASSUME pos < size
               PROVE  \E j \in 1 .. Len(chain'), k \in 0 .. (llSize' - 1) :
                        /\ cur' = chain'[j] /\ i' <= PerBlock
                        /\ k = PerBlock * (j - 1) + i'
                        /\ accum' = Nth(k)'.location - 1
    BY <1>1, <2>0 DEF Searching
  <2>1. PICK j \in 1 .. Len(chain), k \in 0 .. (llSize - 1) :
           /\ cur = chain[j] /\ k = PerBlock * (j - 1) + i
           /\ accum = Nth(k).location - 1 /\ Nth(k) = e
    BY <1>1, SearchAt
  <2>2. k \in Nat /\ Nth(k).location \in Nat /\ llSize \in Nat /\ accum \in Nat
        /\ PerBlock * (j - 1) \in Nat /\ i \in Nat
    <3>1. k \in Nat /\ Nth(k).location \in Nat /\ llSize \in Nat /\ accum \in Nat
          /\ i \in Nat
      BY <1>2, <2>1 DEF Entry, Types
    <3>2. PerBlock * (j - 1) \in Nat
      BY Sizes, Z3
    <3> QED BY <3>1, <3>2
  <2>3. k # llSize - 1
    <3>1. k = llSize - 1 => Nth(k).location - 1 + Nth(k).size = fpos
      BY <1>2, <2>1, <2>2 DEF Tiled
    <3>2. fpos = size
      BY <1>1 DEF Tiled
    <3>3. Nth(k).size = e.size /\ accum + e.size <= pos
      BY <1>1, <2>1, <2>2, <1>2 DEF Types
    <3>4. accum = Nth(k).location - 1
      BY <2>1
    <3> HIDE DEF e
    <3> QED BY <1>2, <2>2, <3>1, <3>2, <3>3, <3>4 DEF Types
  <2>4. k + 1 \in 0 .. (llSize - 1) /\ k + 1 # 0 /\ (k + 1) - 1 = k
    BY <2>2, <2>3
  <2>5. Nth(k + 1).location - 1 = Nth(k).location - 1 + Nth(k).size
    BY <2>4 DEF Tiled
  <2>6. k + 1 = PerBlock * (j - 1) + (i + 1)
    BY <2>1, <2>2
  <2>7. Nth(k + 1)' = Nth(k + 1)
    BY <1>1 DEF Nth
  <2>8. accum' = Nth(k + 1)'.location - 1
    BY <1>1, <2>1, <2>5, <2>7
  <2>9. i + 1 <= PerBlock
    BY <1>1, <2>2, Sizes
  <2> QED BY <1>1, <2>1, <2>4, <2>6, <2>8, <2>9
<1> QED BY <1>3, <1>4, <1>5, <1>6

LEMMA SearchHitStep == ListInv /\ SearchHit => ListInv'
<1> USE DEF ListInv
<1> SUFFICES ASSUME ListInv, SearchHit PROVE ListInv'
  OBVIOUS
<1> DEFINE e == blocks[cur].arr[i]
           off == pos - accum
           n == IF count < e.size - off THEN count ELSE e.size - off
<1>1. /\ UNCHANGED <<size, fpos, chain, blocks, head, end, llSize>>
      /\ wpc' = wpc /\ isize' = isize /\ wpc = "chunked"
      /\ rpc = "search" /\ rpc' = "open" /\ i < PerBlock
      /\ count' = count /\ cur' = cur /\ i' = i /\ accum' = accum
      /\ pos < accum + e.size /\ pos' = pos + n
      /\ got' = [from |-> pos, first |-> e.location - 1 + off, n |-> n]
  BY DEF SearchHit, InArray, writerVars, Phases
<1>2. e \in Entry /\ e.size \in Nat /\ e.location \in Nat
  <2>1. i \in Index /\ cur \in Block
    BY <1>1, Sizes DEF Types, Searching, Index
  <2> QED BY <2>1 DEF Types, ListBlock, Entry
<1> HIDE DEF e
<1>3. n \in Nat /\ n > 0 /\ off \in Nat /\ n <= e.size - off
  <2>1. pos \in Nat /\ accum \in Nat /\ count \in Nat
    BY DEF Types
  <2>2. accum <= pos /\ count > 0
    BY <1>1 DEF Searching
  <2>3. off \in Nat /\ e.size - off \in Nat /\ e.size - off > 0
    <3> HIDE DEF ListInv
    <3> QED BY <1>1, <1>2, <2>1, <2>2
  <2> HIDE DEF ListInv, off
  <2> QED BY <2>1, <2>2, <2>3
<1> HIDE DEF n
<1>4. Linked' /\ Tiled' /\ Ends'
  BY <1>1, ListKept
<1>5. Types'
  <2>1. got' \in [from : Nat, first : Int, n : Int]
    BY <1>1, <1>2, <1>3 DEF Types
  <2>2. pos' \in Nat
    BY <1>1, <1>3 DEF Types
  <2> QED BY <1>1, <2>1, <2>2 DEF Types
<1>6. Phases' /\ BugOnlyBehind' /\ Searching'
  BY <1>1 DEF Phases, BugOnlyBehind, Searching
<1>7. ReadRight'
  <2> SUFFICES ASSUME pos < size
               PROVE  n > 0 /\ e.location - 1 + off = pos /\ pos + n <= size
    BY <1>1 DEF ReadRight
  <2>1. PICK k \in 0 .. (llSize - 1) : accum = Nth(k).location - 1 /\ Nth(k) = e
    BY <1>1, SearchAt DEF e
  <2>2. e.location - 1 + e.size <= fpos
    BY <2>1 DEF Ends
  <2>3. fpos = size /\ accum = e.location - 1
    BY <1>1, <2>1 DEF Tiled
  <2>4. e.location - 1 + off = pos
    BY <1>2, <2>3 DEF Types
  <2>5. pos + n <= size
    <3>1. accum + e.size <= size
      BY <2>2, <2>3
    <3>2. n <= e.size - (pos - accum)
      BY <1>3
    <3> QED BY <1>2, <1>3, <3>1, <3>2 DEF Types
  <2> QED BY <1>3, <2>4, <2>5
<1> QED BY <1>4, <1>5, <1>6, <1>7

LEMMA SearchBlockStep == ListInv /\ SearchBlock => ListInv'
<1> USE DEF ListInv
<1> SUFFICES ASSUME ListInv, SearchBlock PROVE ListInv'
  OBVIOUS
<1>1. /\ UNCHANGED <<size, fpos, chain, blocks, head, end, llSize>>
      /\ wpc' = wpc /\ isize' = isize /\ wpc = "chunked"
      /\ rpc = "search" /\ rpc' = "search" /\ pos' = pos /\ got' = got
      /\ count' = count /\ accum' = accum /\ i' = 0 /\ ~ InArray
      /\ blocks[cur].next # 0 /\ cur' = blocks[cur].next
  BY DEF SearchBlock, writerVars, Phases
<1>2. Linked' /\ Tiled' /\ Ends'
  BY <1>1, ListKept
<1>3. Types'
  BY <1>1 DEF Types
<1>4. Phases' /\ BugOnlyBehind' /\ ReadRight'
  BY <1>1 DEF Phases, BugOnlyBehind, ReadRight
<1>5. Searching'
  <2>0. count' > 0 /\ accum' <= pos' /\ cur' \in Block
    BY <1>1 DEF Searching, Types, ListBlock
  <2> SUFFICES ASSUME pos < size
               PROVE  \E j \in 1 .. Len(chain'), k \in 0 .. (llSize' - 1) :
                        /\ cur' = chain'[j] /\ i' <= PerBlock
                        /\ k = PerBlock * (j - 1) + i'
                        /\ accum' = Nth(k)'.location - 1
    BY <1>1, <2>0 DEF Searching
  <2>1. PICK j \in 1 .. Len(chain), k \in 0 .. (llSize - 1) :
          /\ i <= PerBlock /\ accum = Nth(k).location - 1
          /\ i < PerBlock => InArray
          /\ i = PerBlock => /\ j + 1 \in 1 .. Len(chain)
                             /\ k = PerBlock * ((j + 1) - 1) + 0
                             /\ blocks[cur].next = chain[j + 1]
    BY <1>1, SearchAt
  <2>2. i = PerBlock
    BY <1>1, <2>1, Sizes DEF Types
  <2>3. Nth(k)' = Nth(k)
    BY <1>1 DEF Nth
  <2> QED BY <1>1, <2>1, <2>2, <2>3, Sizes
<1> QED BY <1>2, <1>3, <1>4, <1>5

LEMMA SearchNoneStep == ListInv /\ SearchNone => ListInv'
<1> USE DEF ListInv
<1> SUFFICES ASSUME ListInv, SearchNone PROVE ListInv'
  OBVIOUS
<1>1. /\ UNCHANGED <<size, fpos, chain, blocks, head, end, llSize>>
      /\ wpc' = wpc /\ isize' = isize /\ wpc = "chunked"
      /\ rpc = "search" /\ rpc' = "bug" /\ pos' = pos /\ got' = got
      /\ count' = count /\ accum' = accum /\ i' = i /\ cur' = cur
      /\ ~ InArray /\ blocks[cur].next = 0
  BY DEF SearchNone, writerVars, Phases
<1>2. Linked' /\ Tiled' /\ Ends'
  BY <1>1, ListKept
<1>3. Types'
  BY <1>1 DEF Types
<1>4. Phases' /\ Searching' /\ ReadRight'
  BY <1>1 DEF Phases, Searching, ReadRight
<1>5. ~ (pos < size)
  <2> SUFFICES ASSUME pos < size PROVE FALSE
    OBVIOUS
  <2>1. PICK j \in 1 .. Len(chain) :
          /\ i <= PerBlock /\ (i < PerBlock => InArray)
          /\ i = PerBlock => /\ j + 1 \in 1 .. Len(chain)
                             /\ blocks[cur].next = chain[j + 1]
    BY <1>1, SearchAt
  <2>2. i = PerBlock
    BY <1>1, <2>1, Sizes DEF Types
  <2>3. chain[j + 1] \in Block
    BY <2>1, <2>2, ElementOfSeq DEF Types
  <2> QED BY <1>1, <2>1, <2>2, <2>3, Sizes
<1>6. BugOnlyBehind'
  BY <1>1, <1>5 DEF BugOnlyBehind, Types
<1> QED BY <1>2, <1>3, <1>4, <1>6

LEMMA ListAlways == Spec => []ListInv
<1>1. ListInv /\ [Next]_vars => ListInv'
  <2> SUFFICES ASSUME ListInv, [Next]_vars PROVE ListInv'
    OBVIOUS
  <2>1. CASE UNCHANGED vars
    <3>1. Linked' /\ Tiled' /\ Ends'
      BY <2>1, ListKept DEF vars
    <3>2. \A k : Nth(k)' = Nth(k)
      BY <2>1 DEF Nth, vars
    <3>3. Types' /\ Phases' /\ BugOnlyBehind' /\ ReadRight'
      BY <2>1 DEF vars, ListInv, Types, Phases, BugOnlyBehind, ReadRight
    <3>4. Searching'
      BY <2>1, <3>2 DEF vars, ListInv, Searching
    <3> QED BY <3>1, <3>3, <3>4 DEF ListInv
  <2>2. CASE Next
    BY <2>2, AllocHeadStep, ReclaimHeadStep, AppendChunkStep, WriterStep, OpenStep,
       ReadStep, SearchPastStep, SearchHitStep, SearchBlockStep, SearchNoneStep
       DEF Next, Reader
  <2> QED BY <2>1, <2>2
<1> QED BY <1>1, ListInit, PTL DEF Spec

-----------------------------------------------------------------------------
\* The list that chunk_and_replace builds tiles the file: for blocks of any
\* number of entries, and wherever the fingerprint cuts.
THEOREM ListTiles == Spec => []Tiled
<1>1. ListInv => Tiled
  BY DEF ListInv
<1> QED BY <1>1, ListAlways, PTL

\* A read in front of the end that the file had when it was chunked returns the
\* bytes that were there before, and at least one of them.
THEOREM ReadCorrect == Spec => []ReadRight
<1>1. ListInv => ReadRight
  BY DEF ListInv
<1> QED BY <1>1, ListAlways, PTL

\* The BUG_ON of chunked_file_read is not met in front of that end, also when
\* truncate(2) has moved i_size and when the cleared head of the list was lost.
THEOREM BugCorrect == Spec => []BugOnlyBehind
<1>1. ListInv => BugOnlyBehind
  BY DEF ListInv
<1> QED BY <1>1, ListAlways, PTL

=============================================================================
