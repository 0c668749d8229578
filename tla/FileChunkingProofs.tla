------------------------- MODULE FileChunkingProofs -------------------------
(***************************************************************************)
(* Proofs about FileChunking, for files of any number of pages, any number *)
(* of zones and tasks, lists of any length and any way to cut the file.    *)
(***************************************************************************)
EXTENDS FileChunking, WellFoundedInduction, TLAPS

LEMMA Constants ==
  /\ NP \in Nat \ {0} /\ NP \in Nat
  /\ Zone \subseteq Nat \ {0}
  /\ Page \subseteq Zone /\ Page \subseteq Nat /\ 1 \in Page
  /\ 0 \notin Zone /\ Minus1 \notin Zone /\ ListWord \notin Zone /\ Unmapped \notin Zone
  /\ Unmapped # 0 /\ Unmapped \in Int
  /\ Triple \subseteq Page /\ \A p \in Triple : p > 9
  /\ Versions \in [Page -> Nat \ {0}]
<1>1. NP \in Nat \ {0} /\ Zone \subseteq Nat \ {0} /\ 1 .. NP \subseteq Zone
      /\ Triple \subseteq 10 .. NP /\ Versions \in [1 .. NP -> Nat \ {0}]
  BY FileChunkingAssumption
<1>2. Triple \subseteq Page /\ \A p \in Triple : p > 9
  BY <1>1 DEF Page
<1> QED BY <1>1, <1>2 DEF Page, Minus1, ListWord, Unmapped

LEMMA Cuts ==
  ASSUME NEW n \in 1 .. NP PROVE CutSize[n] \in 1 .. n
  BY Constants, FileChunkingAssumption

LEMMA Rest ==
  ASSUME NEW n \in Nat, NEW k \in Nat, k < n PROVE n - k \in 1 .. n
  OBVIOUS

\* The first free zone is one.
LEMMA MinIn ==
  ASSUME NEW S, S \subseteq Nat, S # {}
  PROVE  Min(S) \in S
<1> DEFINE R == OpToRel(<, Nat)
<1>1. IsWellFoundedOn(R, Nat)
  BY NatLessThanWellFounded, Zenon
<1>2. PICK x \in S : \A y \in S : ~ (<<y, x>> \in R)
  BY <1>1, WFMin, Zenon
<1>3. ASSUME NEW y \in S PROVE x =< y
  <2>1. x \in Nat /\ y \in Nat
    BY <1>3
  <2>2. ~ (y < x)
    BY <1>2, <1>3, <2>1, Zenon DEF OpToRel
  <2> QED BY <2>1, <2>2
<1> QED BY <1>3, Zenon DEF Min

-----------------------------------------------------------------------------
(* The phases of a file.                                                   *)

\* The zones are the file's, and i_data leads to them.
Plain ==
  i_fop = "plain" /\ pc \in {"idle", "nozone", "read", "append", "bug", "cut", "trunc"}

\* The zones have been freed, and the list is the file.
After == pc \in {"size", "flag", "zones", "ops"} \/ (i_fop = "chunked" /\ pc = "idle")

HasList == After \/ pc \in {"read", "append", "bug", "cut", "trunc"}

NoList == pc = "gone" \/ (pc = "idle" /\ i_fop = "plain")

-----------------------------------------------------------------------------
(* The inductive invariant.                                                *)

Val == {Bytes(p, v) : p \in Page, v \in Nat}
         \cup {Zeros, ListBlock, Foreign, NoPage.val}

Folio == [val : Val, zone : Zone \cup {0}, dirty : BOOLEAN]

Types ==
  /\ i_data \in [Page -> Int]
  /\ i_size \in 0 .. NP /\ nlink \in {0, 1}
  /\ i_fop \in {"plain", "chunked"}
  /\ list \subseteq Zone
  /\ cache \in [Page -> Folio]
  /\ fill \in [Page -> Zone \cup {0, Unmapped}]
  /\ wb \in [Page -> {"no", "picked", "sent"}]
  /\ disk \in [Zone -> Val]
  /\ used \subseteq Zone /\ other \subseteq used
  /\ handle \in [Task -> {"none", "plain", "chunked"}]
  /\ pc \in {"idle", "nozone", "read", "append", "bug", "cut", "trunc", "size", "flag",
             "zones", "ops", "gone"}
  /\ i_fop = "chunked" => pc \in {"idle", "gone"}
  /\ f_pos \in 0 .. NP
  /\ data \in [Page -> Val]
  /\ \A p \in Page : data[p][3] \in 1 .. Versions[p] /\ data[p] = Bytes(p, data[p][3])

\* A page of the file still has to reach the disk.
Unsaved(p) == cache[p].dirty \/ wb[p] # "no"

\* A page that is being read is not there yet, and one that is being written
\* is; a late page is neither changed nor written.
PageInv ==
  \A p \in Page : /\ fill[p] # 0 => ~Cached(p)
                  /\ Unsaved(p) => Cached(p) /\ p \notin late

\* Before the zones are freed: they are the file's own and differ, the pages
\* are mapped to them, and what needs no writing is on the disk.
PlainInv ==
  Plain =>
    /\ \A p \in Page : i_data[p] \in used \ (other \cup list)
    /\ \A p, q \in Page : i_data[p] = i_data[q] => p = q
    /\ \A p \in Page : Cached(p) /\ p \notin late => cache[p].zone = i_data[p]
    /\ \A p \in Page : fill[p] # 0 => /\ fill[p] \in {Unmapped, i_data[p]}
                                      /\ disk[i_data[p]] = data[p]
    /\ spilled = {}
    /\ pc # "trunc" =>
         /\ i_size = NP /\ late = {}
         /\ \A p \in Page : ~Unsaved(p) => disk[i_data[p]] = data[p]

\* From then on: i_data holds the words of the switch, and a page that is
\* still to be written was so when the zones were freed.
Words ==
  IF pc \in {"size", "flag"} THEN [p \in Page |-> 0]
  ELSE IF pc = "zones" THEN [p \in Page |-> IF p \in {1} \cup Triple THEN Minus1 ELSE 0]
  ELSE [p \in Page |-> CASE p \in {1} \cup Triple -> Minus1
                         [] p = 2 -> head
                         [] p = 3 -> ListWord
                         [] p = 4 -> end
                         [] OTHER -> 0]

AfterInv ==
  After =>
    /\ i_data = Words
    /\ pc # "size" => i_size = NP
    /\ \A p \in Page : Unsaved(p) => /\ p \in spilled
                                     /\ cache[p].zone \in Zone \ list

\* The blocks of the list belong to the list, and there are none otherwise.
ListInv ==
  /\ list \subseteq used \ other /\ \A z \in list : disk[z] = ListBlock
  /\ HasList => {head, end} \subseteq list
  /\ NoList => list = {}

\* The list holds what was read, which is what the file holds.
ListedInv ==
  /\ HasList => listed = [j \in 1 .. f_pos |-> data[j]]
  /\ After \/ pc \in {"cut", "trunc"} => f_pos = NP

GoneInv ==
  pc = "gone" =>
    /\ nlink = 0 /\ \A t \in Task : handle[t] = "none"
    /\ i_data = [p \in Page |-> 0]
    /\ \A p \in Page : ~Cached(p) /\ fill[p] = 0

\* While the zones are being freed the file has no size.
SizeCut == pc \in {"trunc", "size"} => i_size = 0

\* The loop has room in its buffer for the rest of the chunk.
LoopInv ==
  /\ pc = "read" =>
       /\ size \in 1 .. NP /\ pos \in 0 .. (size - 1)
       /\ f_pos - pos + size <= NP /\ pos <= f_pos
       /\ short \/ pos = 0
  /\ BufferFits /\ SizeCut

FileInv ==
  /\ Types /\ PageInv /\ PlainInv /\ AfterInv /\ ListInv /\ ListedInv /\ GoneInv
  /\ LoopInv /\ CachedRight /\ ForeignKept /\ ZonesOwned

LEMMA Vals ==
  /\ \A p \in Page : \A v \in Nat : Bytes(p, v) \in Val /\ Bytes(p, v)[3] = v
  /\ Zeros \in Val /\ ListBlock \in Val /\ Foreign \in Val /\ NoPage.val \in Val
  BY DEF Val, Bytes

LEMMA Folios ==
  /\ NoPage \in Folio /\ NoPage.dirty = FALSE /\ NoPage.zone = 0
  /\ \A f \in Folio : f.val \in Val /\ f.zone \in Zone \cup {0} /\ f.dirty \in BOOLEAN
  /\ \A f \in Folio : [f EXCEPT !.dirty = FALSE] \in Folio
                      /\ [f EXCEPT !.dirty = FALSE].val = f.val
                      /\ [f EXCEPT !.dirty = FALSE].zone = f.zone
                      /\ [f EXCEPT !.dirty = FALSE].dirty = FALSE
<1>1. NoPage \in Folio /\ NoPage.dirty = FALSE /\ NoPage.zone = 0
  BY Vals DEF NoPage, Folio
<1> QED BY <1>1 DEF Folio

LEMMA FileInit == Init => FileInv
<1> SUFFICES ASSUME Init PROVE FileInv
  OBVIOUS
<1>1. Plain /\ ~After /\ ~HasList /\ pc = "idle"
  BY DEF Init, Plain, After, HasList
<1>2. \A p \in Page : cache[p] = NoPage /\ data[p] = Bytes(p, 1) /\ i_data[p] = p
                       /\ p \in Zone /\ disk[p] = Bytes(p, 1) /\ 1 \in 1 .. Versions[p]
                       /\ fill[p] = 0 /\ wb[p] = "no"
  BY Constants DEF Init
<1>3. Types
  <2>1. cache \in [Page -> Folio]
    BY Folios DEF Init
  <2>2. disk \in [Zone -> Val]
    BY Vals, <1>2 DEF Init
  <2>3. data \in [Page -> Val]
    BY Vals, <1>2 DEF Init
  <2>4. \A p \in Page : data[p][3] \in 1 .. Versions[p] /\ data[p] = Bytes(p, data[p][3])
    BY Vals, <1>2
  <2>5. i_data \in [Page -> Int] /\ i_size \in 0 .. NP /\ f_pos \in 0 .. NP
    BY Constants DEF Init
  <2>6. used \subseteq Zone /\ other \subseteq used /\ list \subseteq Zone
    BY Constants DEF Init
  <2>7. /\ handle \in [Task -> {"none", "plain", "chunked"}]
        /\ fill \in [Page -> Zone \cup {0, Unmapped}]
        /\ wb \in [Page -> {"no", "picked", "sent"}]
    BY DEF Init
  <2> QED BY <1>1, <2>1, <2>2, <2>3, <2>4, <2>5, <2>6, <2>7 DEF Init, Types
<1>4. \A p \in Page : ~Unsaved(p) /\ ~Cached(p)
  BY <1>2, Folios DEF Unsaved, Cached
<1>5. PlainInv /\ PageInv
  BY <1>1, <1>2, <1>4, Constants DEF Init, PlainInv, PageInv
<1>6. FileZones = Page
  <2>1. \A p \in Page : i_data[p] = p /\ p \in Zone
    BY <1>2
  <2> QED BY <2>1 DEF FileZones
<1> QED BY <1>1, <1>3, <1>4, <1>5, <1>6, Constants
        DEF Init, FileInv, AfterInv, ListInv, ListedInv, GoneInv, LoopInv,
            BufferFits, SizeCut, CachedRight, ForeignKept, ZonesOwned

-----------------------------------------------------------------------------
(* Every step keeps the invariant.                                         *)

\* What the phases and the words depend on.
LEMMA SamePhase ==
  ASSUME UNCHANGED <<i_data, i_fop, head, end, pc>>
  PROVE  /\ Plain' = Plain /\ After' = After /\ HasList' = HasList /\ NoList' = NoList
         /\ Words' = Words /\ FileZones' = FileZones
  BY DEF Plain, After, HasList, NoList, Words, FileZones

\* Opening, closing and removing the file, and a task that dies.
LEMMA HandleStep ==
  ASSUME FileInv, Unlink \/ \E t \in Task : Open(t) \/ Close(t) \/ Oops(t)
  PROVE  FileInv'
<1>1. /\ UNCHANGED <<i_data, i_size, i_fop, list, head, end, listed, cache, fill, wb>>
      /\ UNCHANGED <<disk, used, other>>
      /\ UNCHANGED <<pc, f_pos, size, pos, data, short, late, spilled, dropped>>
  BY DEF Open, Close, Oops, Unlink, inode, chain, pages, loop, ghosts
<1>2. /\ Plain' = Plain /\ After' = After /\ HasList' = HasList /\ NoList' = NoList
      /\ Words' = Words /\ FileZones' = FileZones
  BY <1>1, SamePhase
<1>3. \A p \in Page : Cached(p)' = Cached(p) /\ Unsaved(p)' = Unsaved(p)
  BY <1>1 DEF Cached, Unsaved
<1>4. handle' \in [Task -> {"none", "plain", "chunked"}] /\ nlink' \in {0, 1}
  BY DEF FileInv, Types, Open, Close, Oops, Unlink
<1>5. Types' /\ PageInv'
  BY <1>1, <1>3, <1>4 DEF FileInv, Types, PageInv
<1>6. PlainInv' /\ AfterInv' /\ ListInv' /\ ListedInv'
  BY <1>1, <1>2, <1>3 DEF FileInv, PlainInv, AfterInv, ListInv, ListedInv
<1>7. GoneInv'
  BY <1>1, <1>3 DEF FileInv, Types, GoneInv, Open, Close, Oops, Unlink
<1>8. LoopInv'
  BY <1>1 DEF FileInv, LoopInv, BufferFits, SizeCut
<1>9. CachedRight' /\ ForeignKept' /\ ZonesOwned'
  BY <1>1, <1>2, <1>3 DEF FileInv, CachedRight, ForeignKept, ZonesOwned
<1> QED BY <1>5, <1>6, <1>7, <1>8, <1>9 DEF FileInv

\* A page is locked, or found to be at block -1, or mapped to its zone.
LEMMA ReadMapStep ==
  ASSUME FileInv, NEW p \in Page, ReadMap(p) \/ \E t \in Task : ReadBegin(t, p)
  PROVE  FileInv'
<1>1. /\ UNCHANGED <<i_data, i_size, i_fop, list, head, end, listed, nlink, cache, wb>>
      /\ UNCHANGED <<disk, used, other, handle>>
      /\ UNCHANGED <<pc, f_pos, size, pos, data, short, late, spilled, dropped>>
  BY DEF ReadBegin, ReadMap, inode, chain, loop, ghosts
<1>2. /\ Plain' = Plain /\ After' = After /\ HasList' = HasList /\ NoList' = NoList
      /\ Words' = Words /\ FileZones' = FileZones
  BY <1>1, SamePhase
<1>3. \A q \in Page : Cached(q)' = Cached(q) /\ Unsaved(q)' = Unsaved(q)
  BY <1>1 DEF Cached, Unsaved
<1>4. /\ fill' \in [Page -> Zone \cup {0, Unmapped}]
      /\ \A q \in Page \ {p} : fill'[q] = fill[q]
      /\ fill'[p] \in {0, Unmapped, i_data[p]}
  BY DEF ReadBegin, ReadMap, FileInv, Types
<1>5. ~Cached(p) /\ ~Unsaved(p) /\ pc # "gone"
  <2>1. ~Cached(p)
    BY Constants DEF ReadBegin, ReadMap, FileInv, PageInv
  <2>2. pc # "gone"
    BY Constants DEF ReadBegin, ReadMap, FileInv, GoneInv
  <2> QED BY <2>1, <2>2 DEF FileInv, PageInv
<1>6. Plain => disk[i_data[p]] = data[p]
  <2>1. CASE ReadMap(p)
    BY <2>1, Constants DEF ReadMap, FileInv, PlainInv
  <2>2. CASE \E t \in Task : ReadBegin(t, p)
    <3>1. pc # "trunc"
      BY <2>2, Constants DEF ReadBegin, FileInv, LoopInv, SizeCut, Page
    <3> QED BY <1>5, <3>1 DEF FileInv, PlainInv
  <2> QED BY <2>1, <2>2
<1>7. Types' /\ PageInv'
  BY <1>1, <1>3, <1>4, <1>5 DEF FileInv, Types, PageInv
<1>8. PlainInv'
  BY <1>1, <1>2, <1>3, <1>4, <1>6 DEF FileInv, PlainInv
<1>9. AfterInv' /\ ListInv' /\ ListedInv' /\ GoneInv'
  BY <1>1, <1>2, <1>3, <1>5 DEF FileInv, AfterInv, ListInv, ListedInv, GoneInv
<1>10. LoopInv'
  BY <1>1 DEF FileInv, LoopInv, BufferFits, SizeCut
<1>11. CachedRight' /\ ForeignKept' /\ ZonesOwned'
  BY <1>1, <1>2, <1>3 DEF FileInv, CachedRight, ForeignKept, ZonesOwned
<1> QED BY <1>7, <1>8, <1>9, <1>10, <1>11 DEF FileInv

\* A page becomes up to date: with what was written, while the zones are the
\* file's, or else it is late.
LEMMA FilledStep ==
  ASSUME FileInv, NEW p \in Page, NEW v \in Val, NEW z \in Zone \cup {0},
         NEW isLate \in BOOLEAN, fill[p] # 0, Filled(p, v, z, isLate),
         Plain => isLate \/ (v = data[p] /\ z = i_data[p]),
         isLate => pc = "trunc" \/ ~Plain, ~Plain => isLate
  PROVE  FileInv'
<1>1. /\ UNCHANGED <<i_data, i_size, i_fop, list, head, end, listed, nlink, wb>>
      /\ UNCHANGED <<disk, used, other, handle>>
      /\ UNCHANGED <<pc, f_pos, size, pos, data, short, spilled, dropped>>
  BY DEF Filled, inode, chain, loop
<1>2. /\ Plain' = Plain /\ After' = After /\ HasList' = HasList /\ NoList' = NoList
      /\ Words' = Words /\ FileZones' = FileZones
  BY <1>1, SamePhase
<1> DEFINE f == [val |-> v, zone |-> z, dirty |-> FALSE]
<1>3. f \in Folio /\ f.val = v /\ f.zone = z /\ f.dirty = FALSE
  BY DEF Folio
<1>4. cache' = [cache EXCEPT ![p] = f] /\ fill' = [fill EXCEPT ![p] = 0]
  BY DEF Filled
<1> HIDE DEF f
<1>5. /\ cache' \in [Page -> Folio] /\ cache'[p] = f
      /\ fill' \in [Page -> Zone \cup {0, Unmapped}] /\ fill'[p] = 0
      /\ \A q \in Page \ {p} : cache'[q] = cache[q] /\ fill'[q] = fill[q]
      /\ late' = IF isLate THEN late \cup {p} ELSE late
  <2>1. /\ cache \in [Page -> Folio]
        /\ fill \in [Page -> Zone \cup {0, Unmapped}]
    BY DEF FileInv, Types
  <2>2. late' = IF isLate THEN late \cup {p} ELSE late
    BY DEF Filled
  <2> QED BY <1>3, <1>4, <2>1, <2>2
<1>6. ~Cached(p) /\ ~Unsaved(p) /\ pc # "gone"
  BY DEF FileInv, PageInv, GoneInv
<1>7. /\ ~Unsaved(p)'
      /\ \A q \in Page \ {p} : Cached(q)' = Cached(q) /\ Unsaved(q)' = Unsaved(q)
  BY <1>1, <1>3, <1>5, <1>6 DEF Cached, Unsaved
<1>8. Types' /\ PageInv'
  BY <1>1, <1>5, <1>7 DEF FileInv, Types, PageInv
<1>9. PlainInv'
  <2> SUFFICES ASSUME Plain PROVE PlainInv'
    BY <1>2 DEF PlainInv
  <2>1. \A q \in Page : Cached(q)' /\ q \notin late' => cache'[q].zone = i_data[q]
    BY <1>3, <1>5, <1>7 DEF FileInv, PlainInv
  <2>2. \A q \in Page : fill'[q] # 0 => /\ fill'[q] \in {Unmapped, i_data[q]}
                                        /\ disk[i_data[q]] = data[q]
    BY <1>5 DEF FileInv, PlainInv
  <2>3. pc # "trunc" => late' = {} /\ \A q \in Page : ~Unsaved(q)' => disk[i_data[q]] = data[q]
    BY <1>5, <1>6, <1>7 DEF FileInv, PlainInv
  <2> QED BY <1>1, <2>1, <2>2, <2>3 DEF FileInv, PlainInv
<1>10. AfterInv'
  BY <1>1, <1>2, <1>5, <1>7 DEF FileInv, AfterInv
<1>11. ListInv' /\ ListedInv' /\ GoneInv'
  BY <1>1, <1>2, <1>6 DEF FileInv, ListInv, ListedInv, GoneInv
<1>12. LoopInv'
  BY <1>1 DEF FileInv, LoopInv, BufferFits, SizeCut
<1>13. CachedRight'
  BY <1>1, <1>3, <1>5, <1>7 DEF FileInv, CachedRight
<1>14. ForeignKept' /\ ZonesOwned'
  BY <1>1, <1>2 DEF FileInv, ForeignKept, ZonesOwned
<1> QED BY <1>8, <1>9, <1>10, <1>11, <1>12, <1>13, <1>14 DEF FileInv

\* The three ways for a page to become up to date.
LEMMA ReadFillStep ==
  ASSUME FileInv, NEW p \in Page, ReadBehind(p) \/ ReadHole(p) \/ ReadEnd(p)
  PROVE  FileInv'
<1>1. fill[p] # 0 /\ pc # "gone"
  BY Constants DEF ReadBehind, ReadHole, ReadEnd, FileInv, GoneInv
<1>2. ~Plain <=> ZonesFreed
  BY <1>1 DEF Plain, ZonesFreed, FileInv, Types
<1>3. ZonesFreed \in BOOLEAN
  BY DEF ZonesFreed
<1>4. Plain => /\ i_data[p] \in Zone
               /\ fill[p] \in {Unmapped, i_data[p]} /\ disk[i_data[p]] = data[p]
  BY <1>1 DEF FileInv, PlainInv, Types
<1>5. CASE ReadBehind(p)
  <2>1. Plain => pc = "trunc"
    BY <1>5, Constants DEF ReadBehind, FileInv, PlainInv, Page
  <2> QED BY <1>1, <1>5, <2>1, FilledStep, Vals DEF ReadBehind
<1>6. CASE ReadHole(p)
  <2>1. ~Plain /\ ZonesFreed
    BY <1>2, <1>4, <1>6, Constants DEF ReadHole
  <2> DEFINE v == IF i_data[p] = 0 THEN Zeros ELSE Foreign
  <2>2. v \in Val
    BY Vals
  <2>3. Filled(p, v, 0, ZonesFreed)
    BY <1>6 DEF ReadHole
  <2> HIDE DEF v
  <2> QED BY <1>1, <1>3, <2>1, <2>2, <2>3, FilledStep
<1>7. CASE ReadEnd(p)
  <2>1. fill[p] \in Zone /\ disk[fill[p]] \in Val
    BY <1>7 DEF ReadEnd, FileInv, Types
  <2>2. Plain => fill[p] = i_data[p]
    BY <1>4, <2>1, Constants
  <2>3. Filled(p, disk[fill[p]], fill[p], ZonesFreed)
    BY <1>7 DEF ReadEnd
  <2> QED BY <1>1, <1>2, <1>3, <1>4, <2>1, <2>2, <2>3, FilledStep
<1> QED BY <1>5, <1>6, <1>7

LEMMA WritePageStep ==
  ASSUME FileInv, NEW t \in Task, NEW p \in Page, WritePage(t, p)
  PROVE  FileInv'
<1>1. /\ UNCHANGED <<i_data, i_size, i_fop, list, head, end, listed, nlink, fill, wb>>
      /\ UNCHANGED <<disk, used, other, handle>>
      /\ UNCHANGED <<pc, f_pos, size, pos, short, late, spilled, dropped>>
  BY DEF WritePage, Written, inode, chain, loop
<1>2. /\ pc = "idle" /\ Plain /\ ~After /\ ~HasList /\ Plain' /\ ~After' /\ ~HasList'
      /\ NoList' = NoList /\ FileZones' = FileZones /\ fill[p] = 0
  BY <1>1, SamePhase DEF WritePage, Unlocked, Plain, After, HasList
<1> DEFINE v == data[p][3] + 1
           f == [val |-> data'[p], zone |-> IF Cached(p) THEN cache[p].zone ELSE i_data[p],
                 dirty |-> TRUE]
<1>3. v \in 1 .. Versions[p] /\ v \in Nat
  <2> DEFINE n == data[p][3]
  <2>1. n \in 1 .. Versions[p] /\ n < Versions[p] /\ Versions[p] \in Nat
    BY Constants DEF WritePage, Written, FileInv, Types
  <2> HIDE DEF n
  <2>2. n + 1 \in 1 .. Versions[p] /\ n + 1 \in Nat
    BY <2>1
  <2> QED BY <2>2 DEF n
<1>4. /\ data' \in [Page -> Val]
      /\ data'[p] = Bytes(p, v) /\ data'[p][3] = v /\ data'[p] \in Val
      /\ \A q \in Page \ {p} : data'[q] = data[q]
  <2>1. data \in [Page -> Val] /\ data' = [data EXCEPT ![p] = Bytes(p, v)]
    BY DEF WritePage, Written, FileInv, Types
  <2> QED BY <1>3, <2>1, Vals
<1>5. late = {}
  BY <1>2 DEF FileInv, PlainInv
<1>6. i_data[p] \in Zone /\ f.zone = i_data[p]
  BY <1>2, <1>5 DEF FileInv, PlainInv, Types
<1>7. f \in Folio /\ f.val = data'[p] /\ f.dirty = TRUE
  BY <1>4, <1>6 DEF Folio
<1>8. cache' = [cache EXCEPT ![p] = f] /\ cache \in [Page -> Folio]
  BY DEF WritePage, Written, FileInv, Types
<1> HIDE DEF f, v
<1>9. /\ cache' \in [Page -> Folio] /\ cache'[p] = f
      /\ \A q \in Page \ {p} : cache'[q] = cache[q]
  BY <1>7, <1>8
<1>10. /\ Unsaved(p)' /\ Cached(p)'
       /\ \A q \in Page \ {p} : Unsaved(q)' = Unsaved(q) /\ Cached(q)' = Cached(q)
  BY <1>1, <1>7, <1>9, Folios DEF Unsaved, Cached
<1>11. Types'
  <2>1. \A q \in Page : data'[q][3] \in 1 .. Versions[q] /\ data'[q] = Bytes(q, data'[q][3])
    BY <1>3, <1>4 DEF FileInv, Types
  <2> QED BY <1>1, <1>4, <1>9, <2>1 DEF FileInv, Types
<1>12. PageInv'
  BY <1>1, <1>2, <1>5, <1>10 DEF FileInv, PageInv
<1>13. PlainInv'
  BY <1>1, <1>2, <1>4, <1>6, <1>9, <1>10 DEF FileInv, PlainInv
<1>14. AfterInv' /\ ListInv' /\ ListedInv' /\ GoneInv'
  BY <1>1, <1>2 DEF FileInv, AfterInv, ListInv, ListedInv, GoneInv
<1>15. LoopInv'
  BY <1>1 DEF FileInv, LoopInv, BufferFits, SizeCut
<1>16. CachedRight'
  BY <1>1, <1>4, <1>7, <1>9, <1>10 DEF FileInv, CachedRight
<1>17. ForeignKept' /\ ZonesOwned'
  BY <1>1, <1>2 DEF FileInv, ForeignKept, ZonesOwned
<1> QED BY <1>11, <1>12, <1>13, <1>14, <1>15, <1>16, <1>17 DEF FileInv

\* A page whose writeback begins is one that had to be written, and stays one.
LEMMA PickStep ==
  ASSUME FileInv, NEW p \in Page, WritebackPick(p)
  PROVE  FileInv'
<1>1. /\ UNCHANGED <<i_data, i_size, i_fop, list, head, end, listed, nlink, fill>>
      /\ UNCHANGED <<disk, used, other, handle>>
      /\ UNCHANGED <<pc, f_pos, size, pos, data, short, late, spilled, dropped>>
  BY DEF WritebackPick, inode, chain, loop, ghosts
<1>2. /\ Plain' = Plain /\ After' = After /\ HasList' = HasList /\ NoList' = NoList
      /\ Words' = Words /\ FileZones' = FileZones
  BY <1>1, SamePhase
<1> DEFINE f == [cache[p] EXCEPT !.dirty = FALSE]
<1>3. /\ f \in Folio /\ f.val = cache[p].val /\ f.zone = cache[p].zone
      /\ cache \in [Page -> Folio] /\ wb \in [Page -> {"no", "picked", "sent"}]
  BY Folios DEF FileInv, Types
<1>4. cache' = [cache EXCEPT ![p] = f] /\ wb' = [wb EXCEPT ![p] = "picked"]
  BY <1>3 DEF WritebackPick
<1> HIDE DEF f
<1>5. /\ cache' \in [Page -> Folio] /\ cache'[p] = f
      /\ wb' \in [Page -> {"no", "picked", "sent"}] /\ wb'[p] = "picked"
      /\ \A q \in Page \ {p} : cache'[q] = cache[q] /\ wb'[q] = wb[q]
  BY <1>3, <1>4
<1>6. Unsaved(p) /\ Cached(p) /\ p \notin late
  BY DEF WritebackPick, Unsaved, FileInv, PageInv
<1>7. cache[p].zone # 0
  <2>1. pc # "gone"
    BY <1>6 DEF FileInv, GoneInv
  <2>2. Plain \/ After
    BY <2>1 DEF FileInv, Types, Plain, After
  <2>3. CASE Plain
    BY <1>6, <2>3, Constants DEF FileInv, PlainInv, Types
  <2>4. CASE After
    BY <1>6, <2>4, Constants DEF FileInv, AfterInv
  <2> QED BY <2>2, <2>3, <2>4
<1>8. \A q \in Page : Unsaved(q)' = Unsaved(q) /\ Cached(q)' = Cached(q)
  <2>1. Unsaved(p)' /\ Cached(p)'
    BY <1>3, <1>5, <1>7, Folios DEF Unsaved, Cached
  <2> QED BY <1>5, <1>6, <2>1 DEF Unsaved, Cached
<1>9. \A q \in Page : cache'[q].zone = cache[q].zone /\ cache'[q].val = cache[q].val
  BY <1>3, <1>5
<1>10. Types' /\ PageInv'
  BY <1>1, <1>5, <1>8 DEF FileInv, Types, PageInv
<1>11. PlainInv'
  BY <1>1, <1>2, <1>8, <1>9 DEF FileInv, PlainInv
<1>12. AfterInv' /\ ListInv' /\ ListedInv' /\ GoneInv'
  BY <1>1, <1>2, <1>8, <1>9 DEF FileInv, AfterInv, ListInv, ListedInv, GoneInv
<1>13. LoopInv'
  BY <1>1 DEF FileInv, LoopInv, BufferFits, SizeCut
<1>14. CachedRight' /\ ForeignKept' /\ ZonesOwned'
  BY <1>1, <1>2, <1>8, <1>9 DEF FileInv, CachedRight, ForeignKept, ZonesOwned
<1> QED BY <1>10, <1>11, <1>12, <1>13, <1>14 DEF FileInv

\* A page that is not sent was behind i_size, which is 0 while the zones are
\* being freed and NP otherwise.
LEMMA SendStep ==
  ASSUME FileInv, NEW p \in Page, WritebackSend(p)
  PROVE  FileInv'
<1>1. /\ UNCHANGED <<i_data, i_size, i_fop, list, head, end, listed, nlink, cache, fill>>
      /\ UNCHANGED <<disk, used, other, handle>>
      /\ UNCHANGED <<pc, f_pos, size, pos, data, short, late, spilled, dropped>>
  BY DEF WritebackSend, inode, chain, loop, ghosts
<1>2. /\ Plain' = Plain /\ After' = After /\ HasList' = HasList /\ NoList' = NoList
      /\ Words' = Words /\ FileZones' = FileZones
  BY <1>1, SamePhase
<1>3. /\ wb' \in [Page -> {"no", "picked", "sent"}] /\ wb[p] = "picked"
      /\ wb'[p] = (IF in_file(p) THEN "sent" ELSE "no")
      /\ \A q \in Page \ {p} : wb'[q] = wb[q]
  <2>1. /\ wb \in [Page -> {"no", "picked", "sent"}] /\ wb[p] = "picked"
        /\ wb' = [wb EXCEPT ![p] = IF in_file(p) THEN "sent" ELSE "no"]
    BY DEF FileInv, Types, WritebackSend
  <2> QED BY <2>1
<1>4. \A q \in Page : /\ Cached(q)' = Cached(q) /\ (Unsaved(q)' => Unsaved(q))
                      /\ in_file(p) => Unsaved(q)' = Unsaved(q)
  BY <1>1, <1>3 DEF Cached, Unsaved
<1>5. Plain /\ pc # "trunc" => in_file(p)
  BY Constants DEF FileInv, PlainInv, in_file, Page
<1>6. Types' /\ PageInv'
  BY <1>1, <1>3, <1>4 DEF FileInv, Types, PageInv
<1>7. PlainInv'
  BY <1>1, <1>2, <1>4, <1>5 DEF FileInv, PlainInv
<1>8. AfterInv' /\ ListInv' /\ ListedInv' /\ GoneInv'
  BY <1>1, <1>2, <1>4 DEF FileInv, AfterInv, ListInv, ListedInv, GoneInv
<1>9. LoopInv'
  BY <1>1 DEF FileInv, LoopInv, BufferFits, SizeCut
<1>10. CachedRight' /\ ForeignKept' /\ ZonesOwned'
  BY <1>1, <1>2, <1>4 DEF FileInv, CachedRight, ForeignKept, ZonesOwned
<1> QED BY <1>6, <1>7, <1>8, <1>9, <1>10 DEF FileInv

\* The device writes to the file's own zone, or to one that was the file's
\* when the page had to be written and the zones were freed.
LEMMA EndStep ==
  ASSUME FileInv, NEW p \in Page, WritebackEnd(p)
  PROVE  FileInv'
<1>1. /\ UNCHANGED <<i_data, i_size, i_fop, list, head, end, listed, nlink, cache, fill>>
      /\ UNCHANGED <<used, other, handle>>
      /\ UNCHANGED <<pc, f_pos, size, pos, data, short, late, spilled, dropped>>
  BY DEF WritebackEnd, inode, chain, loop, ghosts
<1>2. /\ Plain' = Plain /\ After' = After /\ HasList' = HasList /\ NoList' = NoList
      /\ Words' = Words /\ FileZones' = FileZones
  BY <1>1, SamePhase
<1> DEFINE z == cache[p].zone
<1>3. /\ wb' \in [Page -> {"no", "picked", "sent"}]
      /\ wb'[p] = "no" /\ \A q \in Page \ {p} : wb'[q] = wb[q]
  <2>1. wb \in [Page -> {"no", "picked", "sent"}] /\ wb' = [wb EXCEPT ![p] = "no"]
    BY DEF FileInv, Types, WritebackEnd
  <2> QED BY <2>1
<1>4. Unsaved(p) /\ Cached(p) /\ p \notin late /\ pc # "gone" /\ fill[p] = 0
  <2>1. Unsaved(p)
    BY DEF WritebackEnd, Unsaved
  <2> QED BY <2>1 DEF FileInv, PageInv, GoneInv
<1>5. Plain \/ After
  BY <1>4 DEF FileInv, Types, Plain, After
<1>6. Plain => z = i_data[p] /\ cache[p].val = data[p]
  BY <1>4 DEF FileInv, PlainInv, CachedRight
<1>7. z \in Zone \ list /\ cache[p].val \in Val
  <2>1. cache[p].val \in Val
    BY Folios DEF FileInv, Types
  <2>2. CASE Plain
    BY <1>6, <2>1, <2>2 DEF FileInv, PlainInv, Types
  <2>3. CASE After
    BY <1>4, <2>1, <2>3 DEF FileInv, AfterInv
  <2> QED BY <1>5, <2>2, <2>3
<1>8. /\ disk' \in [Zone -> Val] /\ disk'[z] = cache[p].val
      /\ \A y \in Zone \ {z} : disk'[y] = disk[y]
  BY <1>7 DEF FileInv, Types, WritebackEnd
<1>9. \A q \in Page : /\ Cached(q)' = Cached(q) /\ (Unsaved(q)' => Unsaved(q))
                      /\ q # p => Unsaved(q)' = Unsaved(q)
  BY <1>1, <1>3 DEF Cached, Unsaved
<1>10. Types' /\ PageInv'
  BY <1>1, <1>3, <1>8, <1>9 DEF FileInv, Types, PageInv
<1>11. PlainInv'
  <2> SUFFICES ASSUME Plain PROVE PlainInv'
    BY <1>2 DEF PlainInv
  <2>1. disk'[i_data[p]] = data[p]
    BY <1>6, <1>8
  <2>2. \A q \in Page \ {p} : disk'[i_data[q]] = disk[i_data[q]]
    BY <1>6, <1>8 DEF FileInv, PlainInv, Types
  <2> QED BY <1>1, <1>2, <1>4, <1>9, <2>1, <2>2 DEF FileInv, PlainInv
<1>12. AfterInv' /\ ListedInv' /\ GoneInv'
  BY <1>1, <1>2, <1>9 DEF FileInv, AfterInv, ListedInv, GoneInv
<1>13. ListInv'
  BY <1>1, <1>2, <1>7, <1>8 DEF FileInv, Types, ListInv
<1>14. LoopInv'
  BY <1>1 DEF FileInv, LoopInv, BufferFits, SizeCut
<1>15. CachedRight' /\ ZonesOwned'
  BY <1>1, <1>2, <1>9 DEF FileInv, CachedRight, ZonesOwned
<1>16. ForeignKept'
  <2>1. CASE After
    <3>1. spilled # {}
      BY <1>4, <2>1 DEF FileInv, AfterInv
    <3> QED BY <1>1, <3>1 DEF ForeignKept
  <2>2. CASE Plain
    <3>1. z \notin other
      BY <1>6, <2>2 DEF FileInv, PlainInv
    <3> QED BY <1>1, <1>8, <3>1 DEF FileInv, Types, ForeignKept
  <2> QED BY <1>5, <2>1, <2>2
<1> QED BY <1>10, <1>11, <1>12, <1>13, <1>14, <1>15, <1>16 DEF FileInv

LEMMA ReclaimStep ==
  ASSUME FileInv, NEW p \in Page, Reclaim(p)
  PROVE  FileInv'
<1>1. /\ UNCHANGED <<i_data, i_size, i_fop, list, head, end, listed, nlink, fill, wb>>
      /\ UNCHANGED <<disk, used, other, handle>>
      /\ UNCHANGED <<pc, f_pos, size, pos, data, short, spilled, dropped>>
  BY DEF Reclaim, inode, chain, loop
<1>2. /\ Plain' = Plain /\ After' = After /\ HasList' = HasList /\ NoList' = NoList
      /\ Words' = Words /\ FileZones' = FileZones
  BY <1>1, SamePhase
<1>3. /\ cache' \in [Page -> Folio] /\ cache'[p] = NoPage
      /\ \A q \in Page \ {p} : cache'[q] = cache[q]
      /\ late' = late \ {p}
  BY Folios DEF Reclaim, FileInv, Types
<1>4. /\ ~Unsaved(p) /\ ~Unsaved(p)' /\ ~Cached(p)'
      /\ \A q \in Page \ {p} : Unsaved(q)' = Unsaved(q) /\ Cached(q)' = Cached(q)
  BY <1>1, <1>3, Folios DEF Reclaim, Unsaved, Cached
<1>5. Types' /\ PageInv'
  BY <1>1, <1>3, <1>4 DEF FileInv, Types, PageInv
<1>6. PlainInv'
  BY <1>1, <1>2, <1>3, <1>4 DEF FileInv, PlainInv
<1>7. AfterInv' /\ ListInv' /\ ListedInv' /\ GoneInv'
  BY <1>1, <1>2, <1>3, <1>4 DEF FileInv, AfterInv, ListInv, ListedInv, GoneInv
<1>8. LoopInv'
  BY <1>1 DEF FileInv, LoopInv, BufferFits, SizeCut
<1>9. CachedRight' /\ ForeignKept' /\ ZonesOwned'
  BY <1>1, <1>2, <1>3, <1>4 DEF FileInv, CachedRight, ForeignKept, ZonesOwned
<1> QED BY <1>5, <1>6, <1>7, <1>8, <1>9 DEF FileInv

LEMMA OtherTakesStep ==
  ASSUME FileInv, NEW z \in Zone, OtherTakes(z)
  PROVE  FileInv'
<1>1. /\ UNCHANGED <<i_data, i_size, i_fop, list, head, end, listed, nlink, cache, fill, wb>>
      /\ UNCHANGED <<handle, pc, f_pos, size, pos, data, short, late, spilled, dropped>>
  BY DEF OtherTakes, inode, chain, pages, loop, ghosts
<1>2. /\ Plain' = Plain /\ After' = After /\ HasList' = HasList /\ NoList' = NoList
      /\ Words' = Words /\ FileZones' = FileZones
  BY <1>1, SamePhase
<1>3. /\ disk' \in [Zone -> Val] /\ disk'[z] = Foreign /\ z \notin used
      /\ \A y \in Zone \ {z} : disk'[y] = disk[y]
      /\ used' = used \cup {z} /\ other' = other \cup {z}
  BY Vals DEF OtherTakes, FileInv, Types
<1>4. \A q \in Page : Unsaved(q)' = Unsaved(q) /\ Cached(q)' = Cached(q)
  BY <1>1 DEF Unsaved, Cached
<1>5. Types' /\ PageInv'
  BY <1>1, <1>3, <1>4 DEF FileInv, Types, PageInv
<1>6. PlainInv'
  <2>1. Plain => \A p \in Page : i_data[p] \in Zone \ {z}
    BY <1>3 DEF FileInv, Types, PlainInv
  <2> QED BY <1>1, <1>2, <1>3, <1>4, <2>1 DEF FileInv, PlainInv
<1>7. AfterInv' /\ ListedInv' /\ GoneInv'
  BY <1>1, <1>2, <1>4 DEF FileInv, AfterInv, ListedInv, GoneInv
<1>8. ListInv'
  BY <1>1, <1>2, <1>3 DEF FileInv, Types, ListInv
<1>9. LoopInv'
  BY <1>1 DEF FileInv, LoopInv, BufferFits, SizeCut
<1>10. CachedRight'
  BY <1>1, <1>4 DEF FileInv, CachedRight
<1>11. ForeignKept'
  BY <1>1, <1>3 DEF FileInv, Types, ForeignKept
<1>12. ZonesOwned'
  <2>1. list \subseteq used
    BY DEF FileInv, ListInv
  <2>2. FileZones \subseteq used
    <3>1. Plain \/ After \/ pc = "gone"
      BY DEF FileInv, Types, Plain, After
    <3>2. CASE Plain
      BY <3>2 DEF FileInv, PlainInv, FileZones
    <3>3. CASE After
      <4>1. \A p \in Page : i_data[p] \in {0, Minus1, ListWord, head, end}
        BY <3>3 DEF FileInv, AfterInv, Words
      <4>2. {head, end} \subseteq list
        BY <3>3 DEF FileInv, ListInv, HasList
      <4> QED BY <2>1, <4>1, <4>2, Constants DEF FileZones
    <3>4. CASE pc = "gone"
      BY <3>4, Constants DEF FileInv, GoneInv, FileZones
    <3> QED BY <3>1, <3>2, <3>3, <3>4
  <2> QED BY <1>1, <1>2, <1>3, <2>1, <2>2 DEF FileInv, ZonesOwned
<1> QED BY <1>5, <1>6, <1>7, <1>8, <1>9, <1>10, <1>11, <1>12 DEF FileInv

\* A new block of the list is a zone that nobody has.
LEMMA NewBlock ==
  ASSUME FileInv, NewListBlock, used # Zone
  PROVE  /\ end' \in Zone \ used /\ list' = list \cup {end'} /\ used' = used \cup {end'}
         /\ disk' \in [Zone -> Val] /\ disk'[end'] = ListBlock
         /\ \A y \in Zone \ {end'} : disk'[y] = disk[y]
         /\ other \subseteq used /\ used \subseteq Zone /\ list \subseteq used \ other
         /\ list' \subseteq used' \ other /\ \A z \in list' : disk'[z] = ListBlock
<1>1. used \subseteq Zone /\ other \subseteq used /\ disk \in [Zone -> Val]
      /\ list \subseteq used \ other /\ \A z \in list : disk[z] = ListBlock
  BY DEF FileInv, Types, ListInv
<1>2. end' \in Zone \ used
  BY <1>1, MinIn, Constants DEF NewListBlock
<1>3. /\ disk' \in [Zone -> Val] /\ disk'[end'] = ListBlock
      /\ \A y \in Zone \ {end'} : disk'[y] = disk[y]
  BY <1>1, <1>2, Vals DEF NewListBlock
<1> QED BY <1>1, <1>2, <1>3 DEF NewListBlock

\* What the steps of the loop that do not touch pages leave as it is: the file
\* is on its zones, whether the list grows or not.
LEMMA LoopFrame ==
  ASSUME FileInv, Plain, Plain', pc # "trunc", pc' # "trunc",
         UNCHANGED <<i_data, i_size, i_fop, nlink, cache, fill, wb, other, handle>>,
         UNCHANGED <<data, short, late, spilled>>,
         pc' # "gone", f_pos' \in 0 .. NP,
         \/ UNCHANGED <<used, disk>> /\ list' \in {list, {}}
         \/ used # Zone /\ NewListBlock
  PROVE  /\ Types' /\ PageInv' /\ PlainInv' /\ GoneInv' /\ CachedRight' /\ ForeignKept'
         /\ list' \subseteq used' \ other' /\ \A z \in list' : disk'[z] = ListBlock
         /\ other' \cap (FileZones' \cup list') = {}
<1>1. \A q \in Page : Unsaved(q)' = Unsaved(q) /\ Cached(q)' = Cached(q)
  BY DEF Unsaved, Cached
<1>2. /\ used' \subseteq Zone /\ used \subseteq used' /\ disk' \in [Zone -> Val]
      /\ list' \subseteq Zone /\ other \subseteq used' /\ other \subseteq used
      /\ list' \subseteq used' \ other /\ \A z \in list' : disk'[z] = ListBlock
      /\ list' \subseteq list \cup (Zone \ used)
      /\ \A z \in used \ list : disk'[z] = disk[z]
  <2>1. CASE UNCHANGED <<used, disk>> /\ list' \in {list, {}}
    BY <2>1 DEF FileInv, Types, ListInv
  <2>2. CASE used # Zone /\ NewListBlock
    BY <2>2, NewBlock
  <2> QED BY <2>1, <2>2
<1>3. FileZones' = FileZones
  BY DEF FileZones
<1>4. \A q \in Page : i_data[q] \in used \ list /\ i_data[q] \notin other
  BY DEF FileInv, PlainInv
<1>5. Types'
  BY <1>2 DEF FileInv, Types, Plain
<1>6. PageInv' /\ CachedRight' /\ GoneInv'
  BY <1>1 DEF FileInv, PageInv, CachedRight, GoneInv
<1>7. PlainInv'
  <2>1. \A q \in Page : i_data[q] \in used' \ (other \cup list')
    BY <1>2, <1>4
  <2>2. \A q \in Page : disk'[i_data[q]] = disk[i_data[q]]
    BY <1>2, <1>4
  <2> QED BY <1>1, <2>1, <2>2 DEF FileInv, PlainInv
<1>8. ForeignKept'
  <2>1. \A z \in other : disk'[z] = disk[z]
    BY <1>2 DEF FileInv, ListInv
  <2> QED BY <2>1 DEF FileInv, ForeignKept
<1>9. other' \cap (FileZones' \cup list') = {}
  BY <1>2, <1>3 DEF FileInv, ZonesOwned
<1> QED BY <1>2, <1>5, <1>6, <1>7, <1>8, <1>9

LEMMA BeginStep ==
  ASSUME FileInv, Begin
  PROVE  FileInv'
<1>1. /\ UNCHANGED <<i_data, i_size, i_fop, nlink, cache, fill, wb, other, handle>>
      /\ UNCHANGED <<data, short, late, spilled, dropped>>
      /\ f_pos' = 0 /\ pos' = 0 /\ size' = CutSize[i_size] /\ listed' = <<>>
      /\ i_fop = "plain" /\ pc = "idle"
  BY DEF Begin, pages, ghosts
<1>2. /\ Plain /\ list = {} /\ i_size = NP
  BY <1>1 DEF FileInv, Plain, NoList, ListInv, PlainInv
<1>3. size' \in 1 .. NP
  BY <1>1, <1>2, Cuts, Constants
<1>4. /\ pc' \in {"nozone", "read"} /\ Plain' /\ ~After' /\ ~NoList' /\ f_pos' \in 0 .. NP
      /\ HasList' <=> pc' = "read"
  BY <1>1, Constants DEF Begin, Plain, After, HasList, NoList
<1>5. \/ pc' = "nozone" /\ UNCHANGED <<used, disk>> /\ list' = {}
      \/ pc' = "read" /\ used # Zone /\ NewListBlock /\ head' = end'
  BY <1>2 DEF Begin
<1>6. /\ Types' /\ PageInv' /\ PlainInv' /\ GoneInv' /\ CachedRight' /\ ForeignKept'
      /\ list' \subseteq used' \ other' /\ \A z \in list' : disk'[z] = ListBlock
      /\ other' \cap (FileZones' \cup list') = {}
  BY <1>1, <1>2, <1>4, <1>5, LoopFrame
<1>7. ListInv'
  BY <1>4, <1>5, <1>6 DEF ListInv, NewListBlock
<1>8. AfterInv' /\ ListedInv'
  BY <1>1, <1>4 DEF AfterInv, ListedInv
<1>9. LoopInv'
  BY <1>1, <1>3, <1>4, Constants DEF LoopInv, BufferFits, SizeCut
<1>10. ZonesOwned'
  <2>1. dropped \/ used = other \cup FileZones \cup list
    BY DEF FileInv, ZonesOwned
  <2>2. FileZones' = FileZones
    BY <1>1 DEF FileZones
  <2> QED BY <1>1, <1>2, <1>5, <1>6, <2>1, <2>2 DEF ZonesOwned, NewListBlock
<1> QED BY <1>6, <1>7, <1>8, <1>9, <1>10 DEF FileInv

LEMMA ReadErrorStep ==
  ASSUME FileInv, ReadError
  PROVE  FileInv'
<1>1. /\ UNCHANGED <<i_data, i_size, i_fop, listed, nlink, cache, fill, wb, disk, used>>
      /\ UNCHANGED <<other, handle, f_pos, size, pos, data, short, late, spilled>>
      /\ pc = "read" /\ pc' = "idle" /\ list' = {} /\ dropped'
  BY DEF ReadError, pages, loop
<1>2. i_fop = "plain" /\ Plain /\ Plain' /\ ~After' /\ ~HasList'
  BY <1>1 DEF FileInv, Types, Plain, After, HasList
<1>3. f_pos' \in 0 .. NP
  BY <1>1 DEF FileInv, Types
<1>4. /\ Types' /\ PageInv' /\ PlainInv' /\ GoneInv' /\ CachedRight' /\ ForeignKept'
      /\ other' \cap (FileZones' \cup list') = {}
  BY <1>1, <1>2, <1>3, LoopFrame
<1>5. AfterInv' /\ ListInv' /\ ListedInv' /\ LoopInv'
  BY <1>1, <1>2 DEF AfterInv, ListInv, ListedInv, LoopInv, BufferFits, SizeCut
<1> QED BY <1>1, <1>4, <1>5 DEF FileInv, ZonesOwned

\* A chunk is linked; the next one, if there is one, finds an empty buffer.
LEMMA AppendStep ==
  ASSUME FileInv, AppendChunk
  PROVE  FileInv'
<1>1. /\ UNCHANGED <<i_data, i_size, i_fop, head, listed, nlink, cache, fill, wb, other>>
      /\ UNCHANGED <<handle, f_pos, data, short, late, spilled, dropped>>
      /\ pc = "append" /\ pos' = 0
      /\ size' = IF f_pos < i_size THEN CutSize[i_size - f_pos] ELSE size
  BY DEF AppendChunk, pages, ghosts, next_pos
<1>2. /\ Plain /\ HasList /\ i_size = NP /\ f_pos \in 0 .. NP /\ i_fop = "plain"
  BY <1>1 DEF FileInv, Types, Plain, HasList, PlainInv
<1>3. /\ pc' \in {"nozone", "read", "cut"} /\ Plain' /\ ~After' /\ ~NoList'
      /\ HasList' => pc' \in {"read", "cut"}
      /\ pc' = "read" => f_pos < NP
      /\ pc' = "cut" => f_pos = NP
  <2>1. /\ pc' \in {"nozone", "read", "cut"}
        /\ pc' = "read" => f_pos < i_size
        /\ pc' = "cut" => ~(f_pos < i_size)
    BY DEF AppendChunk
  <2> QED BY <1>1, <1>2, <2>1, Constants DEF Plain, After, HasList, NoList
<1>4. \/ UNCHANGED <<used, disk, list, end>>
      \/ used # Zone /\ NewListBlock
  BY DEF AppendChunk
<1>5. /\ Types' /\ PageInv' /\ PlainInv' /\ GoneInv' /\ CachedRight' /\ ForeignKept'
      /\ list' \subseteq used' \ other' /\ \A z \in list' : disk'[z] = ListBlock
      /\ other' \cap (FileZones' \cup list') = {}
  BY <1>1, <1>2, <1>3, <1>4, LoopFrame
<1>6. ListInv'
  <2>1. {head', end'} \subseteq list'
    BY <1>1, <1>2, <1>4 DEF FileInv, ListInv, NewListBlock
  <2> QED BY <1>3, <1>5, <2>1 DEF ListInv
<1>7. AfterInv' /\ ListedInv'
  BY <1>1, <1>2, <1>3 DEF FileInv, AfterInv, ListedInv
<1>8. LoopInv'
  <2>1. ASSUME pc' = "read" PROVE size' \in 1 .. (NP - f_pos)
    <3>1. NP - f_pos \in 1 .. NP
      BY <1>2, <1>3, <2>1, Rest, Constants
    <3>2. size' = CutSize[NP - f_pos]
      BY <1>1, <1>2, <1>3, <2>1
    <3> QED BY <3>1, <3>2, Cuts
  <2> QED BY <1>1, <1>2, <1>3, <2>1, Constants DEF LoopInv, BufferFits, SizeCut
<1>9. ZonesOwned'
  <2>1. dropped \/ used = other \cup FileZones \cup list
    BY DEF FileInv, ZonesOwned
  <2>2. FileZones' = FileZones
    BY <1>1 DEF FileZones
  <2> QED BY <1>1, <1>4, <1>5, <2>1, <2>2 DEF ZonesOwned, NewListBlock
<1> QED BY <1>5, <1>6, <1>7, <1>8, <1>9 DEF FileInv

\* What kernel_read returns is what was written last, and it is listed.
LEMMA ReadStep ==
  ASSUME FileInv, NEW r \in Page, Read(r)
  PROVE  FileInv'
<1>1. /\ UNCHANGED <<i_data, i_size, i_fop, list, head, end, nlink, fill, wb, disk, used>>
      /\ UNCHANGED <<other, handle, size, data, late, spilled, dropped>>
      /\ pc = "read" /\ r <= size /\ f_pos + r <= i_size /\ f_pos' = f_pos + r
      /\ pos' = pos + r
  BY DEF Read, chain
<1>2. /\ Plain /\ ~After /\ HasList /\ i_fop = "plain"
      /\ pc' \in {"bug", "append", "read"} /\ Plain' /\ ~After' /\ HasList' /\ ~NoList'
  BY <1>1 DEF Read, FileInv, Types, Plain, After, HasList, NoList
<1>3. /\ i_size = NP /\ f_pos \in 0 .. NP /\ r \in 1 .. NP /\ f_pos' \in 0 .. NP
      /\ NP \in Nat /\ late = {}
  BY <1>1, <1>2, Constants DEF FileInv, Types, PlainInv, Page
<1>4. \A p \in Page : i_data[p] \in Zone /\ disk[i_data[p]] \in Val
  BY <1>2 DEF FileInv, Types, PlainInv
<1>5. \A p \in Page : /\ FolioOf(p) \in Folio /\ FolioOf(p).val = data[p]
                      /\ FolioOf(p).zone = i_data[p]
                      /\ FolioOf(p).dirty = cache[p].dirty
  <2> SUFFICES ASSUME NEW p \in Page
               PROVE  /\ FolioOf(p) \in Folio /\ FolioOf(p).val = data[p]
                      /\ FolioOf(p).zone = i_data[p]
                      /\ FolioOf(p).dirty = cache[p].dirty
    OBVIOUS
  <2>1. CASE Cached(p)
    BY <1>2, <1>3, <2>1 DEF FileInv, Types, PlainInv, CachedRight, FolioOf
  <2>2. CASE ~Cached(p)
    <3>1. ~Unsaved(p)
      BY <2>2 DEF FileInv, PageInv
    <3>2. disk[i_data[p]] = data[p] /\ cache[p].dirty = FALSE
      BY <1>1, <1>2, <2>2, <3>1, Folios DEF FileInv, PlainInv, Cached
    <3> QED BY <1>4, <2>2, <3>2 DEF FolioOf, Folio
  <2> QED BY <2>1, <2>2
<1>6. /\ cache' \in [Page -> Folio]
      /\ \A p \in Page : cache'[p] = IF p \in PagesRead(r) THEN FolioOf(p) ELSE cache[p]
      /\ \A p \in PagesRead(r) : fill[p] = 0
  BY <1>5 DEF Read, FileInv, Types
<1>7. \A p \in Page : /\ Unsaved(p)' = Unsaved(p) /\ (Cached(p) => Cached(p)')
                      /\ fill[p] # 0 => Cached(p)' = Cached(p)
                      /\ Cached(p)' => cache'[p].val = data[p] /\ cache'[p].zone = i_data[p]
  <2> SUFFICES ASSUME NEW p \in Page
               PROVE  /\ Unsaved(p)' = Unsaved(p) /\ (Cached(p) => Cached(p)')
                      /\ fill[p] # 0 => Cached(p)' = Cached(p)
                      /\ Cached(p)' => cache'[p].val = data[p] /\ cache'[p].zone = i_data[p]
    OBVIOUS
  <2>1. Cached(p) => cache[p].val = data[p] /\ cache[p].zone = i_data[p]
    BY <1>2, <1>3 DEF FileInv, PlainInv, CachedRight
  <2>2. Cached(p) => FolioOf(p) = cache[p]
    BY DEF FolioOf
  <2>3. Unsaved(p)' = Unsaved(p)
    BY <1>1, <1>5, <1>6 DEF Unsaved
  <2> QED BY <1>5, <1>6, <2>1, <2>2, <2>3 DEF Cached
<1>8. listed' = [j \in 1 .. f_pos' |-> data[j]]
  <2>1. listed = [j \in 1 .. f_pos |-> data[j]]
    BY <1>2 DEF FileInv, ListedInv
  <2>2. listed' = listed \o [j \in 1 .. r |-> kernel_read(f_pos + j)]
    BY DEF Read
  <2>3. \A j \in 1 .. r : f_pos + j \in Page
    BY <1>1, <1>3 DEF Page
  <2>4. [j \in 1 .. r |-> kernel_read(f_pos + j)] = [j \in 1 .. r |-> data[f_pos + j]]
    BY <1>5, <2>3 DEF kernel_read
  <2>5. \A j \in 1 .. f_pos : j \in Page
    BY <1>3 DEF Page
  <2> DEFINE s == [j \in 1 .. f_pos |-> data[j]]
             u == [j \in 1 .. r |-> data[f_pos + j]]
  <2>6. s \in Seq(Val) /\ Len(s) = f_pos
    BY <1>3, <2>5 DEF FileInv, Types
  <2>7. u \in Seq(Val) /\ Len(u) = r
    BY <1>3, <2>3 DEF FileInv, Types
  <2>8. s \o u = [j \in 1 .. (f_pos + r) |-> data[j]]
    BY <1>3, <2>6, <2>7
  <2> QED BY <1>1, <2>1, <2>2, <2>4, <2>8
<1>9. Types' /\ PageInv'
  BY <1>1, <1>2, <1>3, <1>6, <1>7 DEF FileInv, Types, PageInv
<1>10. PlainInv'
  BY <1>1, <1>2, <1>3, <1>7 DEF FileInv, PlainInv
<1>11. AfterInv' /\ ListInv' /\ GoneInv'
  BY <1>1, <1>2 DEF FileInv, AfterInv, ListInv, GoneInv
<1>12. ListedInv'
  BY <1>1, <1>2, <1>8 DEF ListedInv
<1>13. LoopInv'
  <2>1. /\ size \in 1 .. NP /\ pos \in 0 .. (size - 1) /\ pos <= f_pos
        /\ f_pos - pos + size <= NP /\ (short \/ pos = 0)
    BY <1>1 DEF FileInv, LoopInv
  <2>2. short' = (short \/ (r < size /\ f_pos + r < i_size))
    BY DEF Read
  <2>3. BufferFits'
    <3>1. ASSUME pos + r > size PROVE short
      BY <1>1, <1>3, <2>1, <3>1
    <3>2. pc' = "bug" => pos + r > size
      BY <1>1 DEF Read
    <3> QED BY <2>2, <3>1, <3>2 DEF BufferFits
  <2>4. ASSUME pc' = "read"
        PROVE  /\ size' \in 1 .. NP /\ pos' \in 0 .. (size' - 1)
               /\ f_pos' - pos' + size' <= NP /\ pos' <= f_pos'
               /\ short' \/ pos' = 0
    <3>1. ~(pos + r > size) /\ pos + r # size
      BY <1>1, <2>4 DEF Read
    <3>2. pos + r < size
      BY <1>3, <2>1, <3>1
    <3>3. short'
      <4>1. r < size /\ f_pos + r < NP
        BY <1>3, <2>1, <3>2
      <4> QED BY <1>3, <2>2, <4>1
    <3> QED BY <1>1, <1>3, <2>1, <3>2, <3>3
  <2> QED BY <1>2, <2>3, <2>4 DEF LoopInv, SizeCut
<1>14. CachedRight'
  BY <1>1, <1>7 DEF CachedRight
<1>15. FileZones' = FileZones
  BY <1>1 DEF FileZones
<1>16. ForeignKept' /\ ZonesOwned'
  BY <1>1, <1>15 DEF FileInv, ForeignKept, ZonesOwned
<1> QED BY <1>9, <1>10, <1>11, <1>12, <1>13, <1>14, <1>16 DEF FileInv

\* The size is cut, and put back: no zone changes hands.
LEMMA SizeStep ==
  ASSUME FileInv, CutSizeToZero \/ SizeBack
  PROVE  FileInv'
<1>1. /\ UNCHANGED <<i_data, i_fop, list, head, end, listed, nlink, cache, fill, wb>>
      /\ UNCHANGED <<disk, used, other>>
      /\ UNCHANGED <<handle, f_pos, size, pos, data, short, late, spilled, dropped>>
      /\ \/ pc = "cut" /\ pc' = "trunc" /\ i_size' = 0
         \/ pc = "size" /\ pc' = "flag" /\ i_size' = f_pos
  BY DEF CutSizeToZero, SizeBack, chain, pages, loop, ghosts
<1>2. i_fop = "plain"
  BY <1>1 DEF FileInv, Types
<1>3. /\ Plain' = Plain /\ After' = After /\ HasList' = HasList /\ HasList /\ ~NoList'
      /\ FileZones' = FileZones
  BY <1>1, <1>2 DEF Plain, After, HasList, NoList, FileZones
<1>4. \A p \in Page : Cached(p)' = Cached(p) /\ Unsaved(p)' = Unsaved(p)
  BY <1>1 DEF Cached, Unsaved
<1>5. f_pos = NP
  BY <1>1, <1>2 DEF FileInv, ListedInv, After
<1>6. i_size' \in 0 .. NP
  BY <1>1, <1>5, Constants
<1>7. Types' /\ PageInv'
  BY <1>1, <1>2, <1>4, <1>6 DEF FileInv, Types, PageInv
<1>8. PlainInv'
  BY <1>1, <1>2, <1>3, <1>4 DEF FileInv, PlainInv, Plain
<1>9. AfterInv'
  <2>1. pc = "size" => Words' = Words
    BY <1>1 DEF Words
  <2> QED BY <1>1, <1>2, <1>3, <1>4, <1>5, <2>1 DEF FileInv, AfterInv, After
<1>10. ListInv' /\ ListedInv' /\ GoneInv'
  BY <1>1, <1>3, <1>5 DEF FileInv, ListInv, ListedInv, GoneInv
<1>11. LoopInv'
  BY <1>1 DEF LoopInv, BufferFits, SizeCut
<1>12. CachedRight' /\ ForeignKept' /\ ZonesOwned'
  BY <1>1, <1>3, <1>4 DEF FileInv, CachedRight, ForeignKept, ZonesOwned
<1> QED BY <1>7, <1>8, <1>9, <1>10, <1>11, <1>12 DEF FileInv

\* The zones go back to the bitmap, all of them and no block of the list.
LEMMA TruncateStep ==
  ASSUME FileInv, Truncate
  PROVE  FileInv'
<1>1. /\ UNCHANGED <<i_size, i_fop, list, head, end, listed, nlink, cache, fill, wb>>
      /\ UNCHANGED <<disk, other, handle>>
      /\ UNCHANGED <<f_pos, size, pos, data, short, late, dropped>>
      /\ pc = "trunc" /\ pc' = "size" /\ used' = used \ FileZones
      /\ i_data' = [p \in Page |-> 0] /\ spilled' = {p \in Page : Unsaved(p)}
  BY DEF Truncate, truncate, Unsaved, chain, pages, loop
<1>2. /\ i_fop = "plain" /\ Plain /\ HasList /\ ~Plain' /\ After' /\ HasList' /\ ~NoList'
  BY <1>1 DEF FileInv, Types, Plain, After, HasList, NoList
<1>3. FileZones' = {}
  BY <1>1, Constants DEF FileZones
<1>4. FileZones \subseteq used \ other /\ FileZones \cap list = {}
  BY <1>2 DEF FileInv, Types, PlainInv, FileZones
<1>5. \A p \in Page : Cached(p)' = Cached(p) /\ Unsaved(p)' = Unsaved(p)
  BY <1>1 DEF Cached, Unsaved
<1>6. Types' /\ PageInv'
  <2>1. used' \subseteq Zone /\ other \subseteq used'
    BY <1>1, <1>4 DEF FileInv, Types
  <2>2. i_data' \in [Page -> Int]
    BY <1>1
  <2> QED BY <1>1, <1>2, <1>5, <2>1, <2>2 DEF FileInv, Types, PageInv
<1>7. PlainInv'
  BY <1>2 DEF PlainInv
<1>8. AfterInv'
  <2>1. ASSUME NEW p \in Page, Unsaved(p) PROVE cache[p].zone \in Zone \ list
    BY <1>2, <2>1 DEF FileInv, Types, PageInv, PlainInv
  <2>2. i_data' = Words'
    BY <1>1 DEF Words
  <2> QED BY <1>1, <1>5, <2>1, <2>2 DEF AfterInv
<1>9. ListInv' /\ ListedInv' /\ GoneInv'
  BY <1>1, <1>2, <1>4 DEF FileInv, ListInv, ListedInv, GoneInv
<1>10. LoopInv'
  BY <1>1 DEF FileInv, LoopInv, BufferFits, SizeCut
<1>11. CachedRight'
  BY <1>1, <1>5 DEF FileInv, CachedRight
<1>12. ForeignKept'
  BY <1>1, <1>2 DEF FileInv, PlainInv, ForeignKept
<1>13. ZonesOwned'
  BY <1>1, <1>3, <1>4 DEF FileInv, ZonesOwned
<1> QED BY <1>6, <1>7, <1>8, <1>9, <1>10, <1>11, <1>12, <1>13 DEF FileInv

\* The words of the switch, and the new operations.
LEMMA SwitchStep ==
  ASSUME FileInv, SwitchInode \/ SetZones \/ SetInode
  PROVE  FileInv'
<1>1. /\ UNCHANGED <<i_size, list, head, end, listed, nlink, cache, fill, wb, disk>>
      /\ UNCHANGED <<used, other>>
      /\ UNCHANGED <<handle, f_pos, size, pos, data, short, late, spilled, dropped>>
  BY DEF SwitchInode, SetZones, SetInode, chain, pages, loop, ghosts
<1>2. pc \in {"flag", "zones", "ops"} /\ After /\ HasList /\ i_fop = "plain"
  BY DEF SwitchInode, SetZones, SetInode, After, HasList, FileInv, Types
<1>3. /\ i_data \in [Page -> Int] /\ {head, end} \subseteq list /\ list \subseteq Zone
  BY <1>2, Constants DEF FileInv, Types, ListInv
<1>4. i_data = Words
  BY <1>2 DEF FileInv, AfterInv
<1>5. i_data' = Words' /\ After' /\ HasList' /\ ~NoList' /\ ~Plain'
      /\ i_fop' \in {"plain", "chunked"} /\ pc' \in {"zones", "ops", "idle"}
      /\ (i_fop' = "chunked" => pc' = "idle")
  <2>1. CASE SwitchInode
    <3>1. pc = "flag" /\ pc' = "zones" /\ i_fop' = i_fop
          /\ i_data' = [p \in Page |-> IF p \in {1} \cup Triple THEN Minus1 ELSE i_data[p]]
      BY <2>1 DEF SwitchInode
    <3>2. i_data' = Words'
      BY <1>4, <3>1 DEF Words
    <3> QED BY <1>2, <3>1, <3>2 DEF After, HasList, NoList, Plain
  <2>2. CASE SetZones
    <3>1. pc = "zones" /\ pc' = "ops" /\ i_fop' = i_fop /\ list' = list
          /\ head' = head /\ end' = end
      BY <1>1, <2>2 DEF SetZones
    <3>2. \A p \in Page : i_data[p] = IF p \in {1} \cup Triple THEN Minus1 ELSE 0
      BY <1>4, <3>1 DEF Words
    <3>3. \A p \in {1} \cup Triple : p # 2 /\ p # 3 /\ p # 4
      BY Constants
    <3> DEFINE w(p) == CASE p \in {1} \cup Triple -> Minus1
                         [] p = 2 -> head
                         [] p = 3 -> ListWord
                         [] p = 4 -> end
                         [] OTHER -> 0
               x(p) == CASE p = 2 -> head [] p = 3 -> ListWord [] p = 4 -> end
                         [] OTHER -> i_data[p]
    <3>4. \A p \in Page : x(p) = w(p)
      BY <3>2, <3>3
    <3>5. i_data' = [p \in Page |-> x(p)]
      BY <2>2 DEF SetZones
    <3>6. Words' = [p \in Page |-> w(p)]
      BY <3>1 DEF Words
    <3> HIDE DEF w, x
    <3>7. i_data' = Words'
      BY <3>4, <3>5, <3>6
    <3> QED BY <1>2, <3>1, <3>7 DEF After, HasList, NoList, Plain
  <2>3. CASE SetInode
    <3>1. i_data[1] = Minus1
      BY <1>4, <2>3, Constants DEF SetInode, Words
    <3>2. i_fop' = "chunked" /\ pc' = "idle" /\ i_data' = i_data /\ pc = "ops"
      BY <2>3, <3>1 DEF SetInode, set_inode, inode_is_chunked
    <3> QED BY <1>1, <1>4, <3>2 DEF Words, After, HasList, NoList, Plain
  <2> QED BY <2>1, <2>2, <2>3
<1>6. \A p \in Page : /\ i_data[p] \in {0, Minus1, ListWord, head, end}
                      /\ i_data'[p] \in {0, Minus1, ListWord, head, end}
  BY <1>1, <1>4, <1>5 DEF Words
<1>7. i_data' \in [Page -> Int]
  <2>1. {0, Minus1, ListWord, head, end} \subseteq Int
    <3>1. head \in Nat /\ end \in Nat
      BY <1>3, Constants
    <3>2. Minus1 \in Int /\ ListWord \in Int
      BY DEF Minus1, ListWord
    <3> QED BY <3>1, <3>2
  <2>2. i_data' = [p \in Page |-> i_data'[p]]
    BY <1>5 DEF Words
  <2> QED BY <1>6, <2>1, <2>2
<1>8. FileZones \subseteq list /\ FileZones' \subseteq list
  BY <1>3, <1>6, Constants DEF FileZones
<1>9. \A p \in Page : Cached(p)' = Cached(p) /\ Unsaved(p)' = Unsaved(p)
  BY <1>1 DEF Cached, Unsaved
<1>10. Types' /\ PageInv'
  BY <1>1, <1>5, <1>7, <1>9 DEF FileInv, Types, PageInv
<1>11. PlainInv' /\ AfterInv'
  BY <1>1, <1>2, <1>5, <1>9 DEF FileInv, PlainInv, AfterInv
<1>12. ListInv' /\ ListedInv' /\ GoneInv'
  BY <1>1, <1>2, <1>5 DEF FileInv, ListInv, ListedInv, GoneInv
<1>13. LoopInv'
  BY <1>5 DEF LoopInv, BufferFits, SizeCut
<1>14. CachedRight' /\ ForeignKept'
  BY <1>1, <1>9 DEF FileInv, CachedRight, ForeignKept
<1>15. ZonesOwned'
  BY <1>1, <1>8 DEF FileInv, ZonesOwned
<1> QED BY <1>10, <1>11, <1>12, <1>13, <1>14, <1>15 DEF FileInv

\* An inode that goes, and the file with it when it has no name.
LEMMA EvictStep ==
  ASSUME FileInv, Evict
  PROVE  FileInv'
<1>1. /\ UNCHANGED <<i_size, head, end, listed, nlink, fill, wb, disk, other, handle>>
      /\ UNCHANGED <<f_pos, size, pos, data, short, spilled>>
      /\ pc = "idle" /\ \A t \in Task : handle[t] = "none"
      /\ \A p \in Page : fill[p] = 0 /\ wb[p] = "no"
      /\ cache' = [p \in Page |-> NoPage] /\ late' = {}
  BY DEF Evict, loop
<1>2. /\ cache' \in [Page -> Folio]
      /\ \A p \in Page : ~Unsaved(p)' /\ ~Cached(p)' /\ fill'[p] = 0
  BY <1>1, Folios DEF Cached, Unsaved
<1>3. inode_is_chunked <=> i_fop = "chunked"
  <2>1. CASE i_fop = "plain"
    BY <1>1, <2>1, Constants DEF FileInv, Types, PlainInv, Plain, inode_is_chunked
  <2>2. CASE i_fop = "chunked"
    BY <1>1, <2>2, Constants DEF FileInv, AfterInv, After, Words, inode_is_chunked
  <2> QED BY <2>1, <2>2 DEF FileInv, Types
<1>4. PageInv'
  BY <1>2 DEF PageInv
<1>5. CASE nlink = 1
  <2>1. UNCHANGED <<i_data, list, used, pc, dropped, i_fop>>
    BY <1>3, <1>5 DEF Evict, set_inode, FileInv, Types
  <2>2. /\ Plain' = Plain /\ After' = After /\ HasList' = HasList /\ NoList' = NoList
        /\ Words' = Words /\ FileZones' = FileZones
    BY <1>1, <2>1, SamePhase
  <2>3. Types'
    BY <1>1, <1>2, <2>1 DEF FileInv, Types
  <2>4. PlainInv'
    <3>1. Plain => \A p \in Page : ~Unsaved(p)
      BY <1>1, <1>5 DEF Plain, Evict, Unsaved
    <3> QED BY <1>1, <1>2, <2>1, <2>2, <3>1 DEF FileInv, PlainInv
  <2>5. AfterInv' /\ ListInv' /\ ListedInv'
    BY <1>1, <1>2, <2>1, <2>2 DEF FileInv, AfterInv, ListInv, ListedInv
  <2>6. GoneInv' /\ LoopInv'
    BY <1>1, <2>1 DEF GoneInv, LoopInv, BufferFits, SizeCut
  <2>7. CachedRight' /\ ForeignKept' /\ ZonesOwned'
    BY <1>1, <1>2, <2>1, <2>2 DEF FileInv, CachedRight, ForeignKept, ZonesOwned
  <2> QED BY <1>4, <2>3, <2>4, <2>5, <2>6, <2>7 DEF FileInv
<1>6. CASE nlink # 1
  <2>1. /\ used' = IF inode_is_chunked THEN used ELSE used \ FileZones
        /\ dropped' = (dropped \/ inode_is_chunked)
        /\ i_data' = [p \in Page |-> 0] /\ list' = {} /\ pc' = "gone"
        /\ i_fop' = i_fop
    BY <1>6 DEF Evict, truncate
  <2>2. ~Plain' /\ ~After' /\ ~HasList'
    BY <2>1 DEF Plain, After, HasList
  <2>3. FileZones' = {}
    BY <2>1, Constants DEF FileZones
  <2>4. FileZones \cap other = {}
    BY DEF FileInv, ZonesOwned
  <2>5. Types'
    <3>1. used' \subseteq Zone /\ other \subseteq used'
      BY <2>1, <2>4 DEF FileInv, Types
    <3>2. i_data' \in [Page -> Int]
      BY <2>1
    <3> QED BY <1>1, <1>2, <2>1, <3>1, <3>2 DEF FileInv, Types
  <2>6. PlainInv' /\ AfterInv' /\ ListInv' /\ ListedInv'
    BY <2>1, <2>2 DEF PlainInv, AfterInv, ListInv, ListedInv
  <2>7. GoneInv' /\ LoopInv'
    BY <1>1, <1>2, <1>6, <2>1 DEF FileInv, Types, GoneInv, LoopInv, BufferFits, SizeCut
  <2>8. CachedRight' /\ ForeignKept'
    BY <1>1, <1>2 DEF FileInv, CachedRight, ForeignKept
  <2>9. ZonesOwned'
    <3>1. other' \cap (FileZones' \cup list') = {}
      BY <1>1, <2>1, <2>3
    <3>2. CASE i_fop = "chunked"
      BY <1>3, <2>1, <3>1, <3>2 DEF ZonesOwned
    <3>3. CASE i_fop = "plain"
      <4>1. list = {}
        BY <1>1, <3>3 DEF FileInv, ListInv, NoList
      <4> QED BY <1>1, <1>3, <2>1, <2>3, <2>4, <3>1, <3>3, <4>1 DEF FileInv, ZonesOwned
    <3> QED BY <3>2, <3>3 DEF FileInv, Types
  <2> QED BY <1>4, <2>5, <2>6, <2>7, <2>8, <2>9 DEF FileInv
<1> QED BY <1>5, <1>6

-----------------------------------------------------------------------------
(* The theorems.                                                           *)

LEMMA FileStep == FileInv /\ [Next]_vars => FileInv'
<1> SUFFICES ASSUME FileInv, [Next]_vars PROVE FileInv'
  OBVIOUS
<1>1. CASE Chunker
  BY <1>1, BeginStep, ReadErrorStep, ReadStep, AppendStep, SizeStep, TruncateStep,
     SwitchStep DEF Chunker
<1>2. CASE \E t \in Task : \/ Open(t) \/ Close(t) \/ Oops(t)
                           \/ \E p \in Page : ReadBegin(t, p) \/ WritePage(t, p)
  BY <1>2, HandleStep, ReadMapStep, WritePageStep
<1>3. CASE \E p \in Page : ReadBehind(p) \/ ReadHole(p) \/ ReadMap(p) \/ ReadEnd(p)
  BY <1>3, ReadMapStep, ReadFillStep
<1>4. CASE \E p \in Page : \/ WritebackPick(p) \/ WritebackSend(p) \/ WritebackEnd(p)
                           \/ Reclaim(p)
  BY <1>4, PickStep, SendStep, EndStep, ReclaimStep
<1>5. CASE \E z \in Zone : OtherTakes(z)
  BY <1>5, OtherTakesStep
<1>6. CASE Unlink
  BY <1>6, HandleStep
<1>7. CASE Evict
  BY <1>7, EvictStep
<1>8. CASE UNCHANGED vars
  <2>1. /\ UNCHANGED <<i_data, i_size, i_fop, list, head, end, listed, nlink, cache>>
        /\ UNCHANGED <<fill, wb, disk, used>>
        /\ UNCHANGED <<other, handle, pc, f_pos, size, pos, data, short, late>>
        /\ UNCHANGED <<spilled, dropped>>
    BY <1>8 DEF vars
  <2>2. /\ Plain' = Plain /\ After' = After /\ HasList' = HasList /\ NoList' = NoList
        /\ Words' = Words /\ FileZones' = FileZones
    BY <2>1, SamePhase
  <2>3. \A p \in Page : Cached(p)' = Cached(p) /\ Unsaved(p)' = Unsaved(p)
    BY <2>1 DEF Cached, Unsaved
  <2>4. Types' /\ PageInv' /\ PlainInv' /\ AfterInv' /\ ListInv' /\ ListedInv'
    BY <2>1, <2>2, <2>3 DEF FileInv, Types, PageInv, PlainInv, AfterInv, ListInv, ListedInv
  <2>5. GoneInv' /\ LoopInv' /\ CachedRight' /\ ForeignKept' /\ ZonesOwned'
    BY <2>1, <2>2, <2>3 DEF FileInv, GoneInv, LoopInv, SizeCut, BufferFits, CachedRight,
            ForeignKept, ZonesOwned
  <2> QED BY <2>4, <2>5 DEF FileInv
<1> QED BY <1>1, <1>2, <1>3, <1>4, <1>5, <1>6, <1>7, <1>8 DEF Next

LEMMA FileAlways == Spec => []FileInv
  BY FileInit, FileStep, PTL DEF Spec

\* A file that has become a chunked file while it was read, written back and
\* its zones were taken by others lists what was written to it last.
THEOREM SwitchCorrect == Spec => []SwitchedRight
<1>1. FileInv => SwitchedRight
  <2> SUFFICES ASSUME FileInv, i_fop = "chunked", pc = "idle" PROVE SwitchedRight
    BY DEF SwitchedRight
  <2>1. After /\ HasList
    BY DEF After, HasList
  <2>2. listed = [j \in 1 .. NP |-> data[j]] /\ data \in [1 .. NP -> Val]
    BY <2>1 DEF FileInv, ListedInv, Types, Page
  <2>3. listed = data
    BY <2>2
  <2> QED BY <2>1, <2>3 DEF FileInv, AfterInv, ListInv, SwitchedRight
<1> QED BY <1>1, FileAlways, PTL

\* A task that had the file open reads from the page cache what was written
\* last, except from a page whose read met the i_size of 0 or the disk after
\* the zones had been freed.
THEOREM CacheCorrect == Spec => []CachedRight
<1>1. FileInv => CachedRight
  BY DEF FileInv
<1> QED BY <1>1, FileAlways, PTL

\* cominix_writepages does not write into a file that took a zone of this one,
\* unless a page was dirty or being written when the chunker freed the zones.
THEOREM WritebackCorrect == Spec => []ForeignKept
<1>1. FileInv => ForeignKept
  BY DEF FileInv
<1> QED BY <1>1, FileAlways, PTL

\* No zone has two files, and only a chunker that gives up or a removed
\* chunked file loses one.
THEOREM ZonesCorrect == Spec => []ZonesOwned
<1>1. FileInv => ZonesOwned
  BY DEF FileInv
<1> QED BY <1>1, FileAlways, PTL

\* The loop of chunk_and_replace fills the buffer of a chunk exactly, unless a
\* kernel_read returned less than it could.
THEOREM BufferCorrect == Spec => []BufferFits
<1>1. FileInv => BufferFits
  BY DEF FileInv, LoopInv
<1> QED BY <1>1, FileAlways, PTL

=============================================================================
