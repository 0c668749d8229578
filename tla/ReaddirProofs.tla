--------------------------- MODULE ReaddirProofs ----------------------------
(***************************************************************************)
(* Proofs about Readdir: for pages and directories of every size, whatever *)
(* is added and removed between the calls.                                 *)
(***************************************************************************)
EXTENDS Readdir, FiniteSetTheorems, SequenceTheorems, TLAPS

LEMMA Sizes ==
  /\ PageSlots \in Nat /\ PageSlots >= 2
  /\ MaxSlots \in Nat /\ MaxSlots >= 2
  BY DirectoryAssumption, ReaddirAssumption

\* A slot is whatever has a name and an inode number.
AnySlot == [name : Name \cup {Dot, DotDot, ""}, ino : Nat]

-----------------------------------------------------------------------------
(* The pages and last_byte of dir.c come by every slot once.               *)

LEMMA ScanEnd ==
  ASSUME NEW len \in Nat, NEW p, p = PageSlots,
         NEW n, n = (len + p - 1) \div p - 1
  PROVE  n * p + (IF n = len \div p THEN len % p ELSE p) = len
<1> DEFINE q == len \div p
           r == len % p
<1>0. p \in Nat /\ p >= 2 /\ q = len \div p /\ r = len % p
  BY Sizes
<1> HIDE DEF q, r
<1>1. q \in Nat /\ r \in Nat /\ r < p /\ len = p * q + r
  <2>1. q \in Int /\ r \in Int /\ 0 <= r /\ r < p
    BY <1>0
  <2>2. len = p * q + r
    BY <1>0, <2>1, SMT
  <2>3. q >= 0
    BY <1>0, Z3
  <2> QED BY <2>1, <2>2, <2>3
<1> DEFINE m == (len + p - 1) \div p
<1>2. m \in Int /\ p * m <= len + p - 1 /\ len + p - 1 < p * m + p
  <2>1. m = (len + p - 1) \div p
    OBVIOUS
  <2> HIDE DEF m
  <2>2. m \in Int
    BY <1>0, <2>1
  <2>3. p * m <= len + p - 1 /\ len + p - 1 < p * m + p
    BY <1>0, <2>1, <2>2, SMT
  <2> QED BY <2>2, <2>3
<1>3. n = m - 1
  OBVIOUS
<1> HIDE DEF m
<1>4. CASE r = 0
  <2>1. m = q
    <3>1. ~ (m < q)
      BY <1>0, <1>1, <1>2, <1>4, Z3
    <3>2. ~ (q < m)
      BY <1>0, <1>1, <1>2, <1>4, Z3
    <3> QED BY <1>0, <1>1, <1>2, <3>1, <3>2
  <2>2. n # q /\ n * p + p = p * q
    BY <1>0, <1>1, <1>3, <2>1, Z3
  <2> QED BY <1>0, <1>1, <1>4, <2>2
<1>5. CASE r # 0
  <2>1. m = q + 1
    <3>1. ~ (m < q + 1)
      BY <1>0, <1>1, <1>2, <1>5, Z3
    <3>2. ~ (q + 1 < m)
      BY <1>0, <1>1, <1>2, <1>5, Z3
    <3> QED BY <1>0, <1>1, <1>2, <3>1, <3>2
  <2>2. n = q /\ n * p = p * q
    BY <1>0, <1>1, <1>3, <2>1, Z3
  <2> QED BY <1>0, <1>1, <2>2
<1> QED BY <1>4, <1>5

LEMMA ScanAll ==
  ASSUME NEW s, Len(s) \in Nat, NEW bad
  PROVE  Scan(s, bad) = {i \in 1 .. Len(s) : PageOf(i) \notin bad}
<1> DEFINE n == dir_pages(s) - 1
           len == Len(s)
<1>1. len \in Nat /\ n = (len + PageSlots - 1) \div PageSlots - 1
  BY DEF dir_pages
<1>2. last_byte(s, n) = IF n = len \div PageSlots THEN len % PageSlots ELSE PageSlots
  BY DEF last_byte
<1>3. Scan(s, bad) = {i \in 1 .. (n * PageSlots + last_byte(s, n)) : PageOf(i) \notin bad}
  BY DEF Scan
<1> HIDE DEF n, len
<1>4. n * PageSlots + last_byte(s, n) = len
  BY <1>1, <1>2, ScanEnd
<1> QED BY <1>3, <1>4 DEF len

-----------------------------------------------------------------------------
(* One call.                                                               *)

\* ctx->pos moves at most to the slot where the call stops, and exactly there
\* when every page could be read.
LEMMA PosMoves ==
  ASSUME Len(dir) \in Nat, pos \in Nat, NEW bad, NEW stop \in 1 .. (Len(dir) + 1),
         NEW to, to = readdir_pos(dir, pos, stop, bad)
  PROVE  /\ to \in Nat /\ pos <= to
         /\ to <= pos \/ to <= stop - 1
         /\ bad = {} => stop - 1 <= to
<1> DEFINE P == Passed(dir, pos, stop, bad)
           I == (pos + 1) .. (stop - 1)
<1>1. P = {i \in 1 .. Len(dir) : PageOf(i) \notin bad /\ i > pos /\ i < stop}
  BY ScanAll DEF Passed
<1>2. P \in SUBSET I /\ (bad = {} => P = I)
  BY <1>1
<1>3. IsFiniteSet(I)
      /\ Cardinality(I) = IF pos + 1 > stop - 1 THEN 0 ELSE (stop - 1) - (pos + 1) + 1
  <2>1. pos + 1 \in Int /\ stop - 1 \in Int
    OBVIOUS
  <2> QED BY <2>1, FS_Interval
<1>4. IsFiniteSet(P) /\ Cardinality(P) <= Cardinality(I)
  BY <1>2, <1>3, FS_Subset
<1>5. Cardinality(P) \in Nat
  BY <1>4, FS_CardinalityType
<1>6. to = pos + Cardinality(P)
  BY DEF readdir_pos
<1>7. bad = {} => Cardinality(P) = Cardinality(I)
  BY <1>2
<1> DEFINE c == Cardinality(P)
           d == Cardinality(I)
<1>8. c \in Nat /\ c <= d /\ to = pos + c /\ (bad = {} => c = d)
      /\ d = IF pos + 1 > stop - 1 THEN 0 ELSE (stop - 1) - (pos + 1) + 1
  BY <1>3, <1>4, <1>5, <1>6, <1>7
<1> HIDE DEF c, d, P, I
<1> QED BY <1>8

\* What a call returns of a slot that holds an entry: the slot, when it lies
\* between ctx->pos and the place where the call stops and its page is read.
LEMMA Returned ==
  ASSUME Len(dir) \in Nat, NEW bad, NEW stop,
         NEW i \in 1 .. Len(dir), dir[i].ino # 0
  PROVE  i \in emitted(dir, pos, stop, bad) <=>
           PageOf(i) \notin bad /\ i > pos /\ i < stop
  BY ScanAll DEF emitted, Passed, Used

\* A call that returns nothing has come to the end of the directory.
LEMMA EndOfList ==
  ASSUME Len(dir) \in Nat, NEW bad, NEW stop \in Stops(dir, pos, bad)
  PROVE  /\ stop \in 1 .. (Len(dir) + 1)
         /\ emitted(dir, pos, stop, bad) = {} => stop = Len(dir) + 1
  BY ScanAll DEF Stops, Used

-----------------------------------------------------------------------------
(* The inductive invariant.                                                *)

\* The directory is an array of slots within its bound.
Types ==
  /\ dir \in Seq(AnySlot) /\ Len(dir) <= MaxSlots
  /\ pos \in Nat /\ ended \in BOOLEAN
  /\ seen \in [Slots -> 0 .. 2]

\* The slots that have not changed hold entries.
StableUsed == \A i \in stable : i \in 1 .. Len(dir) /\ dir[i].ino # 0

\* As long as every page could be read, what is behind ctx->pos has not been
\* returned.
NotYet == failed = {} => \A i \in stable : i > pos => seen[i] = 0

ListInv == Types /\ StableUsed /\ NotYet /\ ListedOnce /\ ListedAll

LEMMA CommitType ==
  ASSUME NEW s \in Seq(AnySlot), NEW i, NEW slot \in AnySlot, NEW how
  PROVE  Commit(s, i, slot, how).dir \in Seq(AnySlot)
<1>1. CASE how = "prepare"
  BY <1>1 DEF Commit, Unchanged
<1>2. CASE how # "prepare" /\ i > Len(s)
  BY <1>2 DEF Commit
<1>3. CASE how # "prepare" /\ ~ (i > Len(s))
  <2>1. s \in [1 .. Len(s) -> AnySlot] /\ Len(s) \in Nat
    BY LenProperties
  <2> DEFINE t == [s EXCEPT ![i] = slot]
  <2>2. t \in [1 .. Len(s) -> AnySlot]
    <3>1. \A f, D, R : f \in [D -> R] /\ slot \in R => [f EXCEPT ![i] = slot] \in [D -> R]
      OBVIOUS
    <3> QED BY <2>1, <3>1
  <2>3. t \in Seq(AnySlot)
    BY <2>1, <2>2, SeqDef
  <2> QED BY <1>3, <2>3 DEF Commit
<1> QED BY <1>1, <1>2, <1>3

LEMMA ListInit == Init => ListInv
<1> SUFFICES ASSUME Init PROVE ListInv
  OBVIOUS
<1>1. dir = <<Slot(Dot, 1), Slot(DotDot, 1)>>
  BY DEF Init, make_empty
<1>2. Slot(Dot, 1) \in AnySlot /\ Slot(DotDot, 1) \in AnySlot
      /\ Slot(Dot, 1).ino # 0 /\ Slot(DotDot, 1).ino # 0
  BY DEF Slot, AnySlot, Dot, DotDot
<1>3. dir \in Seq(AnySlot) /\ Len(dir) = 2 /\ dir[1].ino # 0 /\ dir[2].ino # 0
  BY <1>1, <1>2
<1>4. Types
  <2>1. seen \in [Slots -> 0 .. 2]
    BY DEF Init
  <2> QED BY <1>3, <2>1, Sizes DEF Init, Types
<1>5. StableUsed
  BY <1>3 DEF Init, StableUsed
<1>6. NotYet /\ ListedOnce /\ ListedAll
  BY Sizes DEF Init, NotYet, ListedOnce, ListedAll, Slots
<1> QED BY <1>4, <1>5, <1>6 DEF ListInv

\* Another task changes the directory.
LEMMA ChangeStep ==
  ASSUME ListInv, NEW d \in Seq(AnySlot), Change(d)
  PROVE  ListInv'
<1> USE DEF ListInv
<1>1. /\ dir' = d /\ Len(d) <= MaxSlots /\ pos' = pos /\ ended' = ended
      /\ failed' = failed /\ stable' = stable \cap Same(dir, d)
      /\ seen' = [i \in Slots |-> IF i \in stable' THEN seen[i] ELSE 0]
  BY DEF Change
<1>2. \A i \in stable' : i \in stable /\ i \in 1 .. Len(d) /\ d[i] = dir[i]
  BY <1>1 DEF Same
<1>3. \A i \in stable' : i \in Slots /\ seen'[i] = seen[i]
  <2> SUFFICES ASSUME NEW i \in stable' PROVE i \in Slots /\ seen'[i] = seen[i]
    OBVIOUS
  <2>1. i \in Slots
    <3>1. Len(d) \in Nat /\ Len(d) <= MaxSlots /\ i \in 1 .. Len(d)
      BY <1>1, <1>2
    <3> QED BY <3>1, Sizes DEF Slots
  <2> QED BY <1>1, <2>1
<1>4. Types'
  <2>1. seen' \in [Slots -> 0 .. 2]
    BY <1>1 DEF Types
  <2> QED BY <1>1, <2>1 DEF Types
<1>5. StableUsed'
  BY <1>1, <1>2 DEF StableUsed
<1>6. NotYet' /\ ListedOnce' /\ ListedAll'
  BY <1>1, <1>2, <1>3 DEF NotYet, ListedOnce, ListedAll
<1> QED BY <1>4, <1>5, <1>6

LEMMA AddRemoveStep ==
  ASSUME ListInv, NEW n \in Name, Add(n) \/ Remove(n)
  PROVE  ListInv'
<1>0. dir \in Seq(AnySlot)
  BY DEF ListInv, Types
<1>1. CASE Add(n)
  <2>1. add_link(dir, n, 2, {}, "ok").dir \in Seq(AnySlot)
    <3>1. Slot(n, 2) \in AnySlot
      BY DEF Slot, AnySlot
    <3>2. \A k : Commit(dir, k, Slot(n, 2), "ok").dir \in Seq(AnySlot)
      BY <1>0, <3>1, CommitType
    <3> QED BY <1>0, <3>2 DEF add_link, Unchanged
  <2> QED BY <1>1, <2>1, ChangeStep DEF Add
<1>2. CASE Remove(n)
  <2>1. FreeSlot \in AnySlot
    BY DEF FreeSlot, Slot, AnySlot
  <2>2. delete_entry(dir, find_entry(dir, n, {}), "ok").dir \in Seq(AnySlot)
    BY <1>0, <2>1, CommitType DEF delete_entry
  <2> QED BY <1>2, <2>2, ChangeStep DEF Remove
<1> QED BY <1>1, <1>2

LEMMA ReaddirStep ==
  ASSUME ListInv, NEW bad, Readdir(bad)
  PROVE  ListInv'
<1> USE DEF ListInv
<1>0. Len(dir) \in Nat /\ pos \in Nat
  BY DEF Types
<1>1. PICK stop \in Stops(dir, pos, bad) :
        /\ pos' = readdir_pos(dir, pos, stop, bad)
        /\ ended' = (emitted(dir, pos, stop, bad) = {})
        /\ seen' = [i \in Slots |->
                      IF i \in emitted(dir, pos, stop, bad) \cap stable /\ seen[i] < 2
                      THEN seen[i] + 1 ELSE seen[i]]
  BY DEF Readdir
<1>2. dir' = dir /\ stable' = stable /\ failed' = failed \cup bad
  BY DEF Readdir
<1>3. /\ stop \in 1 .. (Len(dir) + 1)
      /\ emitted(dir, pos, stop, bad) = {} => stop = Len(dir) + 1
  BY <1>0, EndOfList
<1>4. /\ pos' \in Nat /\ pos <= pos' /\ (pos' <= pos \/ pos' <= stop - 1)
      /\ bad = {} => stop - 1 <= pos'
  BY <1>0, <1>1, <1>3, PosMoves
<1>5. \A i \in stable : /\ i \in Slots /\ i \in Nat /\ seen[i] \in 0 .. 2
                        /\ i \in emitted(dir, pos, stop, bad) <=>
                             PageOf(i) \notin bad /\ i > pos /\ i < stop
                        /\ i \in 1 .. Len(dir)
  <2> SUFFICES ASSUME NEW i \in stable
               PROVE  /\ i \in Slots /\ i \in Nat /\ seen[i] \in 0 .. 2
                      /\ i \in emitted(dir, pos, stop, bad) <=>
                           PageOf(i) \notin bad /\ i > pos /\ i < stop
                      /\ i \in 1 .. Len(dir)
    OBVIOUS
  <2>1. i \in 1 .. Len(dir) /\ dir[i].ino # 0
    BY DEF StableUsed
  <2>2. i \in Slots /\ i \in Nat
    BY <1>0, <2>1, Sizes DEF Slots, Types
  <2>3. i \in emitted(dir, pos, stop, bad) <=>
          PageOf(i) \notin bad /\ i > pos /\ i < stop
    BY <1>0, <2>1, Returned
  <2> QED BY <2>1, <2>2, <2>3 DEF Types
<1>6. \A i \in stable :
        seen'[i] = IF PageOf(i) \notin bad /\ i > pos /\ i < stop /\ seen[i] < 2
                   THEN seen[i] + 1 ELSE seen[i]
  BY <1>1, <1>5
<1>7. Types'
  <2>1. seen' \in [Slots -> 0 .. 2]
    BY <1>1 DEF Types
  <2>2. ended' \in BOOLEAN
    BY <1>1
  <2> QED BY <1>2, <1>4, <2>1, <2>2 DEF Types
<1>8. StableUsed'
  BY <1>2 DEF StableUsed
<1>9. NotYet' /\ ListedOnce'
  <2> SUFFICES ASSUME failed' = {}, NEW i \in stable
               PROVE  (i > pos' => seen'[i] = 0) /\ seen'[i] <= 1
    BY <1>2 DEF NotYet, ListedOnce
  <2>1. failed = {} /\ bad = {}
    BY <1>2
  <2>2. (i > pos => seen[i] = 0) /\ seen[i] <= 1
    BY <2>1 DEF NotYet, ListedOnce
  <2> QED BY <1>0, <1>3, <1>4, <1>5, <1>6, <2>1, <2>2
<1>10. ListedAll'
  <2> SUFFICES ASSUME NEW i \in stable, i <= pos' \/ ended', PageOf(i) \notin failed'
               PROVE  seen'[i] >= 1
    BY <1>2 DEF ListedAll
  <2>1. PageOf(i) \notin failed /\ PageOf(i) \notin bad
    BY <1>2
  <2>2. CASE i <= pos
    <3>1. seen[i] >= 1
      BY <2>1, <2>2 DEF ListedAll
    <3> QED BY <1>5, <1>6, <3>1
  <2>3. CASE ~ (i <= pos)
    <3>1. i < stop
      <4>1. CASE i <= pos'
        BY <1>0, <1>3, <1>4, <1>5, <2>3, <4>1
      <4>2. CASE ended'
        <5>1. stop = Len(dir) + 1
          BY <1>1, <1>3, <4>2
        <5> QED BY <1>0, <1>5, <5>1
      <4> QED BY <4>1, <4>2
    <3> QED BY <1>0, <1>5, <1>6, <2>1, <2>3, <3>1
  <2> QED BY <2>2, <2>3
<1> QED BY <1>7, <1>8, <1>9, <1>10

LEMMA RewindStep == ListInv /\ Rewind => ListInv'
<1> USE DEF ListInv
<1> SUFFICES ASSUME ListInv, Rewind PROVE ListInv'
  OBVIOUS
<1>1. /\ pos' = 0 /\ ended' = FALSE /\ failed' = {} /\ dir' = dir
      /\ stable' = Used(dir, {}) /\ seen' = [i \in Slots |-> 0]
  BY DEF Rewind
<1>2. \A i \in stable' : i \in 1 .. Len(dir) /\ dir[i].ino # 0
  BY <1>1, ScanAll DEF Used, Types
<1>3. \A i \in stable' : i \in Slots /\ i > 0 /\ ~ (i <= 0)
  BY <1>2, Sizes DEF Slots, Types
<1>4. Types'
  <2>1. seen' \in [Slots -> 0 .. 2]
    BY <1>1
  <2> QED BY <1>1, <2>1 DEF Types
<1>5. StableUsed'
  BY <1>1, <1>2 DEF StableUsed
<1>6. NotYet' /\ ListedOnce' /\ ListedAll'
  BY <1>1, <1>3 DEF NotYet, ListedOnce, ListedAll
<1> QED BY <1>4, <1>5, <1>6

LEMMA ListAlways == Spec => []ListInv
<1>1. ListInv /\ [Next]_vars => ListInv'
  <2> SUFFICES ASSUME ListInv, [Next]_vars PROVE ListInv'
    OBVIOUS
  <2>1. CASE UNCHANGED vars
    BY <2>1 DEF vars, ListInv, Types, StableUsed, NotYet, ListedOnce, ListedAll
  <2>2. CASE Next
    BY <2>2, AddRemoveStep, ReaddirStep, RewindStep DEF Next
  <2> QED BY <2>1, <2>2
<1> QED BY <1>1, ListInit, PTL DEF Spec

-----------------------------------------------------------------------------
\* cominix_readdir returns no entry twice that is there during the whole list,
\* as long as every page can be read: for pages of any size, any number of
\* calls that stop anywhere, and whatever is added and removed between them.
THEOREM ListedOnceCorrect == Spec => []ListedOnce
<1>1. ListInv => ListedOnce
  BY DEF ListInv
<1> QED BY <1>1, ListAlways, PTL

\* Nor does it leave one out: when the list has passed an entry or has ended,
\* the entry has been returned, unless its own page could not be read.
THEOREM ListedAllCorrect == Spec => []ListedAll
<1>1. ListInv => ListedAll
  BY DEF ListInv
<1> QED BY <1>1, ListAlways, PTL

=============================================================================
