---------------------------- MODULE NameiProofs -----------------------------
(***************************************************************************)
(* Proofs about Namei: for any number of inodes and names, directories and *)
(* pages of every size, and any number of failing steps.                   *)
(*                                                                         *)
(* The first half is about the slots of the directories (NameiInv): their  *)
(* form, their names and what a rename leaves.  The second half is about   *)
(* the links (LinkInv): it sees a directory as the places at that lead to  *)
(* inodes, and shows for each operation which places it changes and that   *)
(* the counts and the tree follow.                                         *)
(***************************************************************************)
EXTENDS Namei, FiniteSetTheorems, NaturalsInduction, WellFoundedInduction,
        SequenceTheorems, TLAPS

LEMMA Sizes ==
  /\ PageSlots \in Nat /\ PageSlots >= 2
  /\ MaxSlots \in Nat /\ MaxSlots >= 2 /\ MaxFaults \in Nat
  /\ MaxLinks \in Nat /\ LinkWrap \in Nat /\ 2 < LinkWrap
  /\ Ino \subseteq Nat \ {0} /\ Root \in Ino /\ Fresh \notin Nat
  /\ Dot \notin Name /\ DotDot \notin Name /\ Dot # DotDot
  BY DirectoryAssumption, NameiAssumption DEF Dot, DotDot, Fresh

LEMMA MinIn ==
  ASSUME NEW S, S \subseteq Nat, S # {}
  PROVE  Min(S) \in S /\ \A y \in S : Min(S) <= y
<1> DEFINE R == OpToRel(<, Nat)
<1>1. IsWellFoundedOn(R, Nat)
  BY NatLessThanWellFounded, Zenon
<1>2. PICK x \in S : \A y \in S : ~ (<<y, x>> \in R)
  BY <1>1, WFMin, Zenon
<1>3. ASSUME NEW y \in S PROVE x <= y
  <2>1. x \in Nat /\ y \in Nat
    BY <1>3
  <2>2. ~ (y < x)
    BY <1>2, <1>3, <2>1, Zenon DEF OpToRel
  <2> QED BY <2>1, <2>2
<1> HIDE DEF R
<1>4. \A y \in S : x <= y
  BY <1>3
<1>5. PICK m : m = Min(S)
  OBVIOUS
<1>6. m \in S /\ \A y \in S : m <= y
  BY <1>4, <1>5, Zenon DEF Min
<1> QED BY <1>5, <1>6

-----------------------------------------------------------------------------
(* The pages and last_byte of dir.c come by every slot once.               *)

LEMMA ScanEnd ==
  ASSUME NEW len \in Nat, NEW p, p = PageSlots,
         NEW n, n = (len + p - 1) \div p - 1
  PROVE  n * p + (IF n = len \div p THEN len % p ELSE p) = len
<1> DEFINE q == len \div p
           r == len % p
<1>0. p \in Nat /\ p >= 2 /\ q = len \div p /\ r = len % p
  BY Sizes
<1> HIDE DEF q, r
<1>1. q \in Nat /\ r \in Nat /\ r < p /\ len = p * q + r
  <2>1. q \in Int /\ r \in Int /\ 0 <= r /\ r < p
    BY <1>0
  <2>2. len = p * q + r
    BY <1>0, <2>1, SMT
  <2>3. q >= 0
    BY <1>0, Z3
  <2> QED BY <2>1, <2>2, <2>3
<1> DEFINE m == (len + p - 1) \div p
<1>2. m \in Int /\ p * m <= len + p - 1 /\ len + p - 1 < p * m + p
  <2>1. m = (len + p - 1) \div p
    OBVIOUS
  <2> HIDE DEF m
  <2>2. m \in Int
    BY <1>0, <2>1
  <2>3. p * m <= len + p - 1 /\ len + p - 1 < p * m + p
    BY <1>0, <2>1, <2>2, SMT
  <2> QED BY <2>2, <2>3
<1>3. n = m - 1
  OBVIOUS
<1> HIDE DEF m
<1>4. CASE r = 0
  <2>1. m = q
    <3>1. ~ (m < q)
      BY <1>0, <1>1, <1>2, <1>4, Z3
    <3>2. ~ (q < m)
      BY <1>0, <1>1, <1>2, <1>4, Z3
    <3> QED BY <1>0, <1>1, <1>2, <3>1, <3>2
  <2>2. n # q /\ n * p + p = p * q
    BY <1>0, <1>1, <1>3, <2>1, Z3
  <2> QED BY <1>0, <1>1, <1>4, <2>2
<1>5. CASE r # 0
  <2>1. m = q + 1
    <3>1. ~ (m < q + 1)
      BY <1>0, <1>1, <1>2, <1>5, Z3
    <3>2. ~ (q + 1 < m)
      BY <1>0, <1>1, <1>2, <1>5, Z3
    <3> QED BY <1>0, <1>1, <1>2, <3>1, <3>2
  <2>2. n = q /\ n * p = p * q
    BY <1>0, <1>1, <1>3, <2>1, Z3
  <2> QED BY <1>0, <1>1, <2>2
<1> QED BY <1>4, <1>5

LEMMA ScanAll ==
  ASSUME NEW s, Len(s) \in Nat, NEW bad
  PROVE  Scan(s, bad) = {i \in 1 .. Len(s) : PageOf(i) \notin bad}
<1> DEFINE n == dir_pages(s) - 1
           len == Len(s)
<1>1. len \in Nat /\ n = (len + PageSlots - 1) \div PageSlots - 1
  BY DEF dir_pages
<1>2. last_byte(s, n) = IF n = len \div PageSlots THEN len % PageSlots ELSE PageSlots
  BY DEF last_byte
<1>3. Scan(s, bad) = {i \in 1 .. (n * PageSlots + last_byte(s, n)) : PageOf(i) \notin bad}
  BY DEF Scan
<1> HIDE DEF n, len
<1>4. n * PageSlots + last_byte(s, n) = len
  BY <1>1, <1>2, ScanEnd
<1> QED BY <1>3, <1>4 DEF len
-----------------------------------------------------------------------------
(* One directory.                                                          *)

AnySlot == [name : Name \cup {Dot, DotDot, ""}, ino : Ino \cup {0}]

\* The slots s of directory d: it begins with the entries . and .., what follows
\* has other names, and it does not hold itself under one of those.
DirOK(d, s) ==
  /\ s \in Seq(AnySlot) /\ 2 <= Len(s) /\ Len(s) <= MaxSlots
  /\ d # 0 /\ s[1].name = Dot /\ s[1].ino = d
  /\ s[2].name = DotDot /\ s[2].ino # 0
  /\ \A j \in 1 .. Len(s) : s[j].name \in Name => s[j].ino # d
  /\ \A j \in 3 .. Len(s) : s[j].ino # 0 => s[j].name \in Name

\* Slot j of s holds an entry.
Holds(s, j) == j \in 1 .. Len(s) /\ s[j].ino # 0

Unique(s) ==
  \A j, k \in 1 .. Len(s) : Holds(s, j) /\ Holds(s, k) /\ s[j].name = s[k].name => j = k

\* t is s with x in slot j, which may be the one behind the end.
Put(s, t, j, x) ==
  /\ j \in 1 .. (Len(s) + 1)
  /\ Len(t) = IF j > Len(s) THEN j ELSE Len(s)
  /\ t[j] = x
  /\ \A k \in 1 .. Len(s) : k # j => t[k] = s[k]

LEMMA UsedSlots ==
  ASSUME NEW s \in Seq(AnySlot), NEW bad
  PROVE  /\ \A j \in Used(s, bad) : Holds(s, j)
         /\ \A j : Holds(s, j) => j \in Used(s, {})
<1>1. Len(s) \in Nat
  OBVIOUS
<1> QED BY <1>1, ScanAll DEF Used, Holds

LEMMA FindEntry ==
  ASSUME NEW s \in Seq(AnySlot), NEW n, NEW bad, NEW e, e = find_entry(s, n, bad)
  PROVE  /\ e # 0 => Holds(s, e) /\ s[e].name = n
         /\ e = 0 /\ bad = {} => \A j : Holds(s, j) => s[j].name # n
<1> DEFINE hits == {i \in Scan(s, bad) : s[i].ino # 0 /\ s[i].name = n}
<1>0. Len(s) \in Nat
  OBVIOUS
<1>1. hits = {i \in 1 .. Len(s) : PageOf(i) \notin bad /\ s[i].ino # 0 /\ s[i].name = n}
  BY <1>0, ScanAll
<1>2. e = IF hits = {} THEN 0 ELSE Min(hits)
  BY DEF find_entry
<1> HIDE DEF hits
<1>3. hits # {} => Min(hits) \in hits
  <2>1. hits \subseteq Nat
    BY <1>0, <1>1
  <2> QED BY <2>1, MinIn
<1>4. ASSUME e # 0 PROVE Holds(s, e) /\ s[e].name = n
  BY <1>0, <1>1, <1>2, <1>3, <1>4 DEF Holds
<1>5. ASSUME e = 0, bad = {}, NEW j, Holds(s, j) PROVE s[j].name # n
  <2>1. hits = {}
    BY <1>0, <1>1, <1>2, <1>3, <1>5
  <2> QED BY <1>0, <1>1, <1>5, <2>1 DEF Holds
<1> QED BY <1>4, <1>5

\* What the directory says of a name.
LEMMA ByName ==
  ASSUME NEW s \in Seq(AnySlot), NEW n, NEW bad, NEW i, i = inode_by_name(s, n, bad)
  PROVE  /\ i \in Ino \cup {0}
         /\ i # 0 => \E j \in 1 .. Len(s) : Holds(s, j) /\ s[j].name = n /\ s[j].ino = i
         /\ i = 0 /\ bad = {} => \A j : Holds(s, j) => s[j].name # n
<1> DEFINE e == find_entry(s, n, bad)
<1>1. /\ e # 0 => Holds(s, e) /\ s[e].name = n
      /\ e = 0 /\ bad = {} => \A j : Holds(s, j) => s[j].name # n
  BY FindEntry
<1>2. i = IF e = 0 THEN 0 ELSE s[e].ino
  BY DEF inode_by_name
<1> HIDE DEF e
<1>3. CASE e = 0
  BY <1>1, <1>2, <1>3
<1>4. CASE e # 0
  <2>1. e \in 1 .. Len(s) /\ s[e] \in AnySlot /\ i = s[e].ino /\ i # 0
    BY <1>1, <1>2, <1>4 DEF Holds
  <2> QED BY <1>1, <1>4, <2>1 DEF AnySlot
<1> QED BY <1>3, <1>4

\* A search for another name than . and .. finds no slot of those two, and not
\* the directory itself.
LEMMA NotDots ==
  ASSUME NEW d, NEW s, DirOK(d, s), NEW j, Holds(s, j), s[j].name \in Name
  PROVE  j \in 3 .. Len(s) /\ s[j].ino # d /\ s[j].ino \in Ino
<1>1. s \in Seq(AnySlot) /\ Len(s) \in Nat /\ j \in 1 .. Len(s) /\ s[j].ino # 0
  BY DEF DirOK, Holds
<1>2. j # 1 /\ j # 2
  <2>1. s[1].name \notin Name /\ s[2].name \notin Name
    BY Sizes DEF DirOK
  <2> QED BY <2>1
<1>3. s[j].ino # d
  BY <1>1 DEF DirOK
<1>4. s[j].ino \in Ino
  <2>1. s[j] \in AnySlot
    BY <1>1
  <2> QED BY <1>1, <2>1 DEF AnySlot
<1> QED BY <1>1, <1>2, <1>3, <1>4

LEMMA PutOK ==
  ASSUME NEW d, NEW s, DirOK(d, s), NEW j \in 1 .. (Len(s) + 1), NEW x \in AnySlot,
         j # 1, j = 2 => x.name = DotDot /\ x.ino # 0,
         j > 2 => x.ino = 0 \/ x.name \in Name,
         j > Len(s) => Len(s) < MaxSlots, x.name \in Name => x.ino # d,
         NEW t, t = IF j > Len(s) THEN Append(s, x) ELSE [s EXCEPT ![j] = x]
  PROVE  DirOK(d, t) /\ Put(s, t, j, x)
<1>1. s \in Seq(AnySlot) /\ Len(s) \in Nat /\ 2 <= Len(s) /\ Len(s) <= MaxSlots
  BY DEF DirOK
<1>2. t \in Seq(AnySlot) /\ Len(t) = (IF j > Len(s) THEN j ELSE Len(s))
  <2>1. CASE j > Len(s)
    BY <1>1, <2>1
  <2>2. CASE ~ (j > Len(s))
    BY <1>1, <2>2
  <2> QED BY <2>1, <2>2
<1>3. t[j] = x /\ \A k \in 1 .. Len(s) : k # j => t[k] = s[k]
  <2>1. CASE j > Len(s)
    BY <1>1, <2>1
  <2>2. CASE ~ (j > Len(s))
    BY <1>1, <2>2
  <2> QED BY <2>1, <2>2
<1>4. Put(s, t, j, x)
  BY <1>1, <1>2, <1>3 DEF Put
<1>5. /\ d # 0 /\ t[1].name = Dot /\ t[1].ino = d
      /\ t[2].name = DotDot /\ t[2].ino # 0
  <2>1. t[1] = s[1] /\ (j # 2 => t[2] = s[2])
    BY <1>1, <1>3
  <2>2. j = 2 => t[2] = x
    BY <1>3
  <2> QED BY <2>1, <2>2 DEF DirOK
<1>6. ASSUME NEW k \in 1 .. Len(t), t[k].name \in Name PROVE t[k].ino # d
  <2>1. CASE k = j
    BY <1>3, <1>6, <2>1
  <2>2. CASE k # j
    <3>1. k \in 1 .. Len(s) /\ t[k] = s[k]
      BY <1>1, <1>2, <1>3, <2>2
    <3> QED BY <1>6, <3>1 DEF DirOK
  <2> QED BY <2>1, <2>2
<1>8. ASSUME NEW k \in 3 .. Len(t), t[k].ino # 0 PROVE t[k].name \in Name
  <2>1. CASE k = j
    BY <1>3, <1>8, <2>1
  <2>2. CASE k # j
    <3>1. k \in 3 .. Len(s) /\ t[k] = s[k]
      BY <1>1, <1>2, <1>3, <2>2
    <3> QED BY <1>8, <3>1 DEF DirOK
  <2> QED BY <2>1, <2>2
<1>7. 2 <= Len(t) /\ Len(t) <= MaxSlots
  BY <1>1, <1>2, Sizes
<1> HIDE DEF Put
<1> QED BY <1>2, <1>4, <1>5, <1>6, <1>7, <1>8 DEF DirOK

\* The names stay unique when the slot is freed, or gets a name that no other
\* slot has.
LEMMA PutUnique ==
  ASSUME NEW s, NEW t, NEW j, NEW x, Len(s) \in Nat, Put(s, t, j, x), Unique(s),
         x.ino = 0 \/ \A k : k # j /\ Holds(s, k) => s[k].name # x.name
  PROVE  Unique(t)
<1> SUFFICES ASSUME NEW k \in 1 .. Len(t), NEW l \in 1 .. Len(t), k # l,
                    t[k].ino # 0, t[l].ino # 0, t[k].name = t[l].name
             PROVE  FALSE
  BY DEF Unique, Holds
<1>1. ASSUME NEW m \in 1 .. Len(t), m # j PROVE m \in 1 .. Len(s) /\ t[m] = s[m]
  BY <1>1 DEF Put
<1>2. CASE k # j /\ l # j
  <2>1. k \in 1 .. Len(s) /\ l \in 1 .. Len(s) /\ t[k] = s[k] /\ t[l] = s[l]
    BY <1>1, <1>2
  <2> QED BY <2>1 DEF Unique, Holds
<1>3. CASE k = j
  <2>1. l \in 1 .. Len(s) /\ t[l] = s[l] /\ t[k] = x
    BY <1>1, <1>3 DEF Put
  <2> QED BY <1>3, <2>1 DEF Holds
<1>4. CASE l = j
  <2>1. k \in 1 .. Len(s) /\ t[k] = s[k] /\ t[l] = x
    BY <1>1, <1>4 DEF Put
  <2> QED BY <1>4, <2>1 DEF Holds
<1> QED BY <1>2, <1>3, <1>4

\* The two outcomes of a change: nothing and an error, or the slot is written,
\* with or without an error.
Changed(d, s, r, j, x) ==
  /\ DirOK(d, r.dir) /\ r.err \in BOOLEAN
  /\ (r.dir = s /\ r.err) \/ Put(s, r.dir, j, x)

\* Slot j of directory d is written with x, which makes S to T.
Written(S, T, d, j, x) ==
  /\ S \in [Ino -> Seq(AnySlot)] /\ d \in Ino
  /\ T = [S EXCEPT ![d] = T[d]] /\ DirOK(d, T[d]) /\ Put(S[d], T[d], j, x)

\* The change may also have failed before the slot was written.
Tried(S, T, d, j, x, err) == (T = S /\ err) \/ Written(S, T, d, j, x)

LEMMA TriedOne ==
  ASSUME NEW S \in [Ino -> Seq(AnySlot)], NEW d \in Ino, NEW j, NEW x, NEW r,
         Changed(d, S[d], r, j, x)
  PROVE  Tried(S, [S EXCEPT ![d] = r.dir], d, j, x, r.err)
<1> DEFINE T == [S EXCEPT ![d] = r.dir]
<1>1. T[d] = r.dir /\ T = [S EXCEPT ![d] = T[d]]
  OBVIOUS
<1>2. CASE r.dir = S[d] /\ r.err
  <2>1. T = S
    BY <1>2
  <2> QED BY <1>2, <2>1 DEF Tried
<1>3. CASE Put(S[d], r.dir, j, x)
  <2>1. Written(S, T, d, j, x)
    <3> HIDE DEF T
    <3> QED BY <1>1, <1>3 DEF Written, Changed
  <2> QED BY <2>1 DEF Tried
<1> QED BY <1>2, <1>3 DEF Changed

LEMMA Committed ==
  ASSUME NEW d, NEW s, DirOK(d, s), NEW j \in 1 .. (Len(s) + 1), NEW x \in AnySlot,
         j # 1, j = 2 => x.name = DotDot /\ x.ino # 0,
         j > 2 => x.ino = 0 \/ x.name \in Name,
         j > Len(s) => Len(s) < MaxSlots, x.name \in Name => x.ino # d,
         NEW how, NEW r, r = Commit(s, j, x, how)
  PROVE  Changed(d, s, r, j, x)
<1> DEFINE t == IF j > Len(s) THEN Append(s, x) ELSE [s EXCEPT ![j] = x]
<1>1. DirOK(d, t) /\ Put(s, t, j, x)
  BY PutOK
<1>2. r = IF how = "prepare" THEN [dir |-> s, err |-> TRUE] ELSE [dir |-> t, err |-> how = "sync"]
  BY DEF Commit, Unchanged
<1> HIDE DEF t
<1>3. CASE how = "prepare"
  <2>1. r.dir = s /\ r.err = TRUE
    BY <1>2, <1>3
  <2> QED BY <2>1 DEF Changed
<1>4. CASE how # "prepare"
  <2>1. r.dir = t /\ r.err = (how = "sync")
    BY <1>2, <1>4
  <2>2. r.err \in BOOLEAN
    BY <2>1
  <2> QED BY <1>1, <2>1, <2>2 DEF Changed
<1> QED BY <1>3, <1>4

Room(s) == Len(s) < MaxSlots \/ \E j \in DOMAIN s : s[j].ino = 0

\* cominix_add_link never touches an entry.
LEMMA AddLink ==
  ASSUME NEW d, NEW s, DirOK(d, s), NEW n \in Name, NEW i \in Ino, i # d, Room(s),
         NEW bad, NEW how, NEW r, r = add_link(s, n, i, bad, how)
  PROVE  \E j \in 3 .. (Len(s) + 1) : ~ Holds(s, j) /\ Changed(d, s, r, j, Slot(n, i))
<1> DEFINE T == {j \in 1 .. (Len(s) + 1) : j = Len(s) + 1 \/ s[j].ino = 0 \/ s[j].name = n}
           stop == Min(T)
           no == (\E m \in bad : m <= PageOf(stop)) \/ (stop <= Len(s) /\ s[stop].ino # 0)
<1>0. s \in Seq(AnySlot) /\ Len(s) \in Nat /\ 2 <= Len(s)
  BY DEF DirOK
<1>1. stop \in T /\ \A y \in T : stop <= y
  <2>1. T \subseteq Nat /\ Len(s) + 1 \in T
    BY <1>0
  <2> HIDE DEF T
  <2> QED BY <2>1, MinIn
<1>2. r = IF no THEN [dir |-> s, err |-> TRUE] ELSE Commit(s, stop, Slot(n, i), how)
  BY DEF add_link, Unchanged
<1>3. Slot(n, i) \in AnySlot /\ Slot(n, i).ino = i /\ Slot(n, i).name = n
  BY DEF Slot, AnySlot
<1>4. s[1].ino # 0 /\ s[2].ino # 0 /\ s[1].name # n /\ s[2].name # n
  BY Sizes DEF DirOK
<1> HIDE DEF stop, no
<1>5. stop \in 3 .. (Len(s) + 1)
  <2>1. 1 \notin T /\ 2 \notin T
    BY <1>0, <1>4
  <2> QED BY <1>0, <1>1, <2>1
<1>6. CASE no
  <2>1. r.dir = s /\ r.err = TRUE
    BY <1>2, <1>6
  <2>2. Changed(d, s, r, Len(s) + 1, Slot(n, i))
    BY <2>1 DEF Changed
  <2> QED BY <1>0, <2>2 DEF Holds
<1>7. CASE ~no
  <2>1. ~ Holds(s, stop)
    BY <1>0, <1>5, <1>7 DEF no, Holds
  <2>2. stop > Len(s) => Len(s) < MaxSlots
    <3>1. stop > Len(s) => ~ \E j \in DOMAIN s : s[j].ino = 0
      BY <1>0, <1>1
    <3> QED BY <3>1 DEF Room
  <2>3. stop \in 1 .. (Len(s) + 1) /\ stop # 1 /\ stop # 2
    BY <1>0, <1>5
  <2>4. r = Commit(s, stop, Slot(n, i), how)
    BY <1>2, <1>7
  <2>5. Changed(d, s, r, stop, Slot(n, i))
    BY <1>3, <2>2, <2>3, <2>4, Committed
  <2> QED BY <1>5, <2>1, <2>5
<1> QED BY <1>6, <1>7

LEMMA DeleteEntry ==
  ASSUME NEW d \in Ino, NEW s, DirOK(d, s), NEW j \in 3 .. Len(s), NEW how,
         NEW r, r = delete_entry(s, j, how)
  PROVE  Changed(d, s, r, j, FreeSlot)
<1>1. FreeSlot \in AnySlot /\ FreeSlot.ino # d /\ FreeSlot.ino = 0
  BY Sizes DEF FreeSlot, Slot, AnySlot
<1>2. Len(s) \in Nat
  BY DEF DirOK
<1>3. j \in 1 .. (Len(s) + 1) /\ j # 1 /\ j # 2 /\ ~ (j > Len(s))
  BY <1>2
<1> QED BY <1>1, <1>3, Committed DEF delete_entry

LEMMA SetLink ==
  ASSUME NEW d, NEW s, DirOK(d, s), NEW j, Holds(s, j), j # 1, NEW i \in Ino, i # d,
         NEW how, NEW r, r = set_link(s, j, i, how)
  PROVE  Changed(d, s, r, j, Slot(s[j].name, i))
<1>1. s \in Seq(AnySlot) /\ Len(s) \in Nat /\ j \in 1 .. Len(s)
  BY DEF DirOK, Holds
<1>2. s[j] \in AnySlot /\ i # 0
  BY <1>1, Sizes
<1>3. Slot(s[j].name, i) \in AnySlot /\ Slot(s[j].name, i).ino = i
      /\ Slot(s[j].name, i).name = s[j].name
  BY <1>2 DEF Slot, AnySlot
<1>4. j \in 1 .. (Len(s) + 1) /\ ~ (j > Len(s))
  BY <1>1
<1>5. (j = 2 => s[j].name = DotDot) /\ (j > 2 => s[j].name \in Name)
  BY <1>1 DEF DirOK, Holds
<1> QED BY <1>2, <1>3, <1>4, <1>5, Committed DEF set_link

LEMMA MakeEmpty ==
  ASSUME NEW i \in Ino, NEW p \in Ino, NEW how, NEW r, r = make_empty(i, p, how)
  PROVE  /\ r.err \in BOOLEAN
         /\ ~ r.err => /\ DirOK(i, r.dir) /\ Unique(r.dir)
                      /\ Len(r.dir) = 2 /\ r.dir[2].ino = p
<1> DEFINE s == <<Slot(Dot, i), Slot(DotDot, p)>>
<1>1. Slot(Dot, i) \in AnySlot /\ Slot(DotDot, p) \in AnySlot
  BY DEF Slot, AnySlot
<1>2. s \in Seq(AnySlot) /\ Len(s) = 2 /\ s[1] = Slot(Dot, i) /\ s[2] = Slot(DotDot, p)
  BY <1>1
<1> HIDE DEF s
<1>3. DirOK(i, s) /\ s[2].ino = p
  BY <1>2, Sizes DEF DirOK, Slot
<1>4. Unique(s)
  <2>1. s[1].name # s[2].name
    BY <1>2, Sizes DEF Slot
  <2> QED BY <1>2, <2>1 DEF Unique
<1>5. r = IF how = "prepare" THEN [dir |-> <<>>, err |-> TRUE]
          ELSE [dir |-> s, err |-> how = "sync"]
  BY DEF make_empty, Unchanged, s
<1>6. CASE how = "prepare"
  <2>1. r.err = TRUE
    BY <1>5, <1>6
  <2> QED BY <2>1
<1>7. CASE how # "prepare"
  <2>1. r.dir = s /\ r.err = (how = "sync")
    BY <1>5, <1>7
  <2>2. r.err \in BOOLEAN
    BY <2>1
  <2> QED BY <1>2, <1>3, <1>4, <2>1, <2>2
<1> QED BY <1>6, <1>7

-----------------------------------------------------------------------------
(* The inductive invariant.                                                *)

Types ==
  /\ kind \in [Ino -> {"free", "file", "dir"}]
  /\ nlink \in [Ino -> 0 .. (LinkWrap - 1)]
  /\ dead \subseteq Ino /\ tmp \subseteq Ino /\ torn \subseteq Ino
  /\ dcache \in [Ino -> [Name -> Ino \cup {0, Fresh}]]
  /\ blind \subseteq Ino /\ lost \subseteq Ino /\ faults \in 0 .. MaxFaults

\* S holds the slots of every inode: those of a directory are well formed, and
\* nothing else has slots.
Formed(S, kinds) ==
  /\ S \in [Ino -> Seq(AnySlot)]
  /\ \A d \in Ino : IF kinds[d] = "dir" THEN DirOK(d, S[d]) ELSE S[d] = <<>>

Slotted == Formed(slots, kind)

Single == \A d \in Ino : kind[d] = "dir" /\ d \notin blind => Unique(slots[d])

\* A dentry does not lead from a directory to itself, and one that is negative
\* though the name is there is the business of blind.
Dentry == \A d \in Ino, n \in Name :
            dcache[d][n] # d /\ (dcache[d][n] = 0 => d \in blind)

NameiInv == Types /\ Slotted /\ Single /\ Dentry /\ RenameKeeps

-----------------------------------------------------------------------------
(* What the steps have in common.                                          *)

LEMMA Wrap == ASSUME NEW x \in Int
              PROVE  inc(x) \in 0 .. (LinkWrap - 1) /\ dec(x) \in 0 .. (LinkWrap - 1)
  BY Sizes DEF inc, dec

LEMMA FreshInode ==
  ASSUME Types, \E i \in Ino : kind[i] = "free"
  PROVE  NewIno \in Ino /\ kind[NewIno] = "free"
<1> DEFINE S == {i \in Ino : kind[i] = "free"}
<1>1. S \subseteq Nat /\ S # {}
  BY Sizes
<1>2. Min(S) \in S
  <2> HIDE DEF S
  <2> QED BY <1>1, MinIn
<1> QED BY <1>2 DEF NewIno

\* One directory is changed.
LEMMA FormedOne ==
  ASSUME NEW S, NEW K, Formed(S, K), NEW d \in Ino, K[d] = "dir", NEW t, DirOK(d, t)
  PROVE  Formed([S EXCEPT ![d] = t], K)
<1>1. t \in Seq(AnySlot)
  BY DEF DirOK
<1> QED BY <1>1 DEF Formed

\* An inode that is no directory gets another kind.
LEMMA FormedKind ==
  ASSUME NEW S, NEW K \in [Ino -> {"free", "file", "dir"}], Formed(S, K), NEW i \in Ino,
         K[i] # "dir", NEW x, x # "dir"
  PROVE  Formed(S, [K EXCEPT ![i] = x])
  BY DEF Formed

LEMMA LiveDir ==
  ASSUME Slotted, NEW d \in Ino, Live(d)
  PROVE  kind[d] = "dir" /\ DirOK(d, slots[d]) /\ slots[d] \in Seq(AnySlot)
  BY DEF Slotted, Formed, Live

\* What a name of Name leads to is not the directory it is in.
LEMMA NamedOK ==
  ASSUME Slotted, NEW d \in Ino, NEW n \in Name, NEW bad, NEW i,
         i = inode_by_name(slots[d], n, bad)
  PROVE  i \in Ino \cup {0} /\ i # d
<1>1. slots[d] \in Seq(AnySlot)
  BY DEF Slotted, Formed
<1>2. /\ i \in Ino \cup {0}
      /\ i # 0 => \E j \in 1 .. Len(slots[d]) :
                    Holds(slots[d], j) /\ slots[d][j].name = n /\ slots[d][j].ino = i
  BY <1>1, ByName
<1>3. CASE i = 0
  BY <1>3, Sizes
<1>4. CASE i # 0
  <2>1. PICK j \in 1 .. Len(slots[d]) :
               Holds(slots[d], j) /\ slots[d][j].name = n /\ slots[d][j].ino = i
    BY <1>2, <1>4
  <2>2. kind[d] = "dir"
    BY <2>1 DEF Slotted, Formed
  <2>3. DirOK(d, slots[d])
    BY <2>2 DEF Slotted, Formed
  <2> QED BY <1>2, <2>1, <2>3, NotDots
<1> QED BY <1>3, <1>4

LEMMA LookupOK ==
  ASSUME Types, Slotted, Dentry, NEW d \in Ino, NEW n \in Name, NEW i, i = Lookup(d, n)
  PROVE  /\ i \in Ino \cup {0} /\ i # d
         /\ i = 0 /\ d \notin blind => \A j : Holds(slots[d], j) => slots[d][j].name # n
<1>1. CASE dcache[d][n] # Fresh
  <2>1. i = dcache[d][n]
    BY <1>1 DEF Lookup
  <2> QED BY <1>1, <2>1 DEF Types, Dentry
<1>2. CASE dcache[d][n] = Fresh
  <2>1. i = inode_by_name(slots[d], n, {})
    BY <1>2 DEF Lookup
  <2>2. slots[d] \in Seq(AnySlot)
    BY DEF Slotted, Formed
  <2>3. i = 0 => \A j : Holds(slots[d], j) => slots[d][j].name # n
    BY <2>1, <2>2, ByName
  <2> QED BY <2>1, <2>3, NamedOK
<1> QED BY <1>1, <1>2

LEMMA DentriesOK ==
  ASSUME Types, NEW c \in [Ino -> [Name -> Ino \cup {0, Fresh}]],
         \A d \in Ino, n \in Name : c[d][n] # d, Dentries(c)
  PROVE  /\ dcache' \in [Ino -> [Name -> Ino \cup {0, Fresh}]]
         /\ blind' \subseteq Ino /\ blind \subseteq blind'
         /\ Dentry'
<1>1. \A d \in Ino, n \in Name :
        dcache'[d][n] = IF c[d][n] = inode_by_name(slots'[d], n, {}) THEN Fresh ELSE c[d][n]
  BY DEF Dentries, Differing
<1>2. dcache' = [d \in Ino |-> [n \in Name |-> dcache'[d][n]]]
  BY DEF Dentries, Differing
<1>3. \A d \in Ino, n \in Name : dcache'[d][n] \in Ino \cup {0, Fresh} /\ dcache'[d][n] # d
  <2> SUFFICES ASSUME NEW d \in Ino, NEW n \in Name
               PROVE  dcache'[d][n] \in Ino \cup {0, Fresh} /\ dcache'[d][n] # d
    OBVIOUS
  <2>1. dcache'[d][n] = Fresh \/ dcache'[d][n] = c[d][n]
    BY <1>1
  <2>2. c[d][n] \in Ino \cup {0, Fresh} /\ c[d][n] # d /\ Fresh # d
    BY Sizes
  <2> QED BY <2>1, <2>2
<1>4. dcache' \in [Ino -> [Name -> Ino \cup {0, Fresh}]]
  BY <1>2, <1>3
<1>5. blind' = blind \cup {d \in Ino : \E n \in Name : dcache'[d][n] = 0}
  BY DEF Dentries
<1> QED BY <1>3, <1>4, <1>5 DEF Types, Dentry

LEMMA OutcomeOK ==
  ASSUME Types, NEW w, NEW rd, NEW f \in Fault(w, rd), NEW wrote, NEW err,
         NEW is, is \subseteq Ino \cup {0}, NEW ds \in SUBSET Ino,
         Outcome(f, wrote, err, is, ds)
  PROVE  torn' \subseteq Ino /\ faults' \in 0 .. MaxFaults
<1>1. torn' \subseteq Ino
  BY DEF Outcome, Types
<1>2. faults' \in 0 .. MaxFaults
  BY Sizes DEF Outcome, Fault, Types
<1> QED BY <1>1, <1>2

\* cominix_add_link in a directory whose dentry of the name is negative.
LEMMA Added ==
  ASSUME Types, Slotted, Single, Dentry, NEW d \in Ino, NEW n \in Name, CanCreate(d, n),
         NEW i \in Ino, i # d, NEW bad, NEW how,
         NEW r, r = add_link(slots[d], n, i, bad, how)
  PROVE  /\ DirOK(d, r.dir) /\ r.err \in BOOLEAN
         /\ d \notin blind => Unique(r.dir)
         /\ \E j \in 3 .. (Len(slots[d]) + 1) :
              ~ Holds(slots[d], j) /\ Changed(d, slots[d], r, j, Slot(n, i))
<1>1. DirOK(d, slots[d]) /\ kind[d] = "dir" /\ Len(slots[d]) \in Nat
  BY LiveDir DEF CanCreate
<1>2. Room(slots[d])
  BY DEF CanCreate, Room
<1>3. PICK j \in 3 .. (Len(slots[d]) + 1) :
             ~ Holds(slots[d], j) /\ Changed(d, slots[d], r, j, Slot(n, i))
  BY <1>1, <1>2, AddLink
<1>4. ASSUME d \notin blind PROVE Unique(r.dir)
  <2>1. \A k : Holds(slots[d], k) => slots[d][k].name # n
    BY <1>4, LookupOK DEF CanCreate, Negative
  <2>2. Slot(n, i).name = n
    BY DEF Slot
  <2>3. Unique(slots[d])
    BY <1>1, <1>4 DEF Single
  <2> QED BY <1>1, <1>3, <2>1, <2>2, <2>3, PutUnique DEF Changed
<1> QED BY <1>3, <1>4 DEF Changed

\* cominix_unlink and cominix_rmdir of a name.
LEMMA RemovedOK ==
  ASSUME Types, Slotted, NEW d \in Ino, NEW n \in Name, Live(d), NEW f,
         NEW r, r = Removed(d, n, f)
  PROVE  /\ DirOK(d, r.dir) /\ r.err \in BOOLEAN
         /\ Unique(slots[d]) => Unique(r.dir)
<1> DEFINE e == find_entry(slots[d], n, Bad(f, 1))
<1>1. DirOK(d, slots[d]) /\ slots[d] \in Seq(AnySlot) /\ Len(slots[d]) \in Nat
  BY LiveDir
<1>2. e # 0 => Holds(slots[d], e) /\ slots[d][e].name = n
  BY <1>1, FindEntry
<1>3. r = IF e = 0 THEN [dir |-> slots[d], err |-> TRUE]
          ELSE delete_entry(slots[d], e, How(f, 2))
  BY DEF Removed, Unchanged
<1> HIDE DEF e
<1>4. CASE e = 0
  <2>1. r.dir = slots[d] /\ r.err = TRUE
    BY <1>3, <1>4
  <2> QED BY <1>1, <2>1
<1>5. CASE e # 0
  <2>1. e \in 3 .. Len(slots[d])
    BY <1>1, <1>2, <1>5, NotDots
  <2>2. Changed(d, slots[d], r, e, FreeSlot)
    BY <1>1, <1>3, <1>5, <2>1, DeleteEntry
  <2>3. FreeSlot.ino = 0
    BY DEF FreeSlot, Slot
  <2> QED BY <1>1, <2>2, <2>3, PutUnique DEF Changed
<1> QED BY <1>4, <1>5

-----------------------------------------------------------------------------
(* The operations.                                                         *)

\* The parts of the invariant that are the same for every operation.
LEMMA Conclude ==
  ASSUME Types, Single, blind \subseteq blind', RenameKeeps,
         kind' \in [Ino -> {"free", "file", "dir"}],
         nlink' \in [Ino -> 0 .. (LinkWrap - 1)],
         dead' \subseteq Ino, tmp' \subseteq Ino, torn' \subseteq Ino,
         dcache' \in [Ino -> [Name -> Ino \cup {0, Fresh}]],
         blind' \subseteq Ino, lost' = lost, faults' \in 0 .. MaxFaults,
         Formed(slots', kind'), Dentry',
         \A d \in Ino : kind'[d] = "dir" /\ d \notin blind =>
           (kind[d] = "dir" /\ slots'[d] = slots[d]) \/ Unique(slots'[d])
  PROVE  NameiInv'
<1>1. Types'
  BY DEF Types
<1>2. Single'
  BY DEF Single
<1> QED BY <1>1, <1>2 DEF NameiInv, Slotted, RenameKeeps

LEMMA MknodStep ==
  ASSUME NameiInv, NEW d \in Ino, NEW n \in Name, Mknod(d, n)
  PROVE  NameiInv'
<1> DEFINE i == NewIno
<1>0. Types /\ Slotted /\ Single /\ Dentry /\ RenameKeeps
  BY DEF NameiInv
<1>1. CanCreate(d, n) /\ i \in Ino /\ kind[i] = "free" /\ kind[d] = "dir" /\ i # d
  BY <1>0, FreshInode DEF Mknod, CanCreate, Live
<1> HIDE DEF i
<1>a. PICK f \in Fault({1}, {1}) :
        LET r == add_link(slots[d], n, i, Bad(f, 1), How(f, 1))
        IN /\ slots' = [slots EXCEPT ![d] = r.dir]
           /\ nlink' = add_nondir([nlink EXCEPT ![i] = 1], i, r.err)
           /\ kind' = [kind EXCEPT ![i] = IF r.err THEN "free" ELSE "file"]
           /\ Dentries([dcache EXCEPT ![d][n] = IF r.err THEN 0 ELSE i])
           /\ Outcome(f, slots' # slots, r.err, {i}, {})
  BY Zenon DEF Mknod, i
<1>b. PICK r : r = add_link(slots[d], n, i, Bad(f, 1), How(f, 1))
  OBVIOUS
<1>2. /\ slots' = [slots EXCEPT ![d] = r.dir]
      /\ nlink' = add_nondir([nlink EXCEPT ![i] = 1], i, r.err)
      /\ kind' = [kind EXCEPT ![i] = IF r.err THEN "free" ELSE "file"]
      /\ Dentries([dcache EXCEPT ![d][n] = IF r.err THEN 0 ELSE i])
      /\ Outcome(f, slots' # slots, r.err, {i}, {})
  BY <1>a, <1>b, Zenon
<1>3. DirOK(d, r.dir) /\ r.err \in BOOLEAN /\ (d \notin blind => Unique(r.dir))
  BY <1>0, <1>1, <1>b, Added
<1>4. Formed(slots', kind')
  <2>1. Formed(slots', kind)
    BY <1>0, <1>1, <1>2, <1>3, FormedOne DEF Slotted
  <2> QED BY <1>0, <1>1, <1>2, <2>1, FormedKind DEF Types
<1>5. nlink' \in [Ino -> 0 .. (LinkWrap - 1)]
  <2>1. 1 \in 0 .. (LinkWrap - 1) /\ dec(1) \in 0 .. (LinkWrap - 1)
    BY Wrap, Sizes
  <2> QED BY <1>0, <1>1, <1>2, <2>1 DEF add_nondir, Types
<1>6. torn' \subseteq Ino /\ faults' \in 0 .. MaxFaults
  BY <1>0, <1>1, <1>2, OutcomeOK
<1>7. /\ dcache' \in [Ino -> [Name -> Ino \cup {0, Fresh}]]
      /\ blind' \subseteq Ino /\ blind \subseteq blind' /\ Dentry'
  <2> DEFINE c == [dcache EXCEPT ![d][n] = IF r.err THEN 0 ELSE i]
  <2>1. c \in [Ino -> [Name -> Ino \cup {0, Fresh}]]
    BY <1>0, <1>1 DEF Types
  <2>2. \A p \in Ino, m \in Name : c[p][m] # p
    BY <1>0, <1>1, Sizes DEF Types, Dentry
  <2> HIDE DEF c
  <2> QED BY <1>0, <1>2, <2>1, <2>2, DentriesOK DEF c
<1>8. kind' \in [Ino -> {"free", "file", "dir"}]
  BY <1>0, <1>1, <1>2 DEF Types
<1>9. \A p \in Ino : kind'[p] = "dir" /\ p \notin blind =>
        (kind[p] = "dir" /\ slots'[p] = slots[p]) \/ Unique(slots'[p])
  BY <1>0, <1>1, <1>2, <1>3 DEF Types, Slotted, Formed
<1>10. UNCHANGED <<dead, tmp, lost>>
  BY DEF Mknod
<1> QED BY <1>0, <1>4, <1>5, <1>6, <1>7, <1>8, <1>9, <1>10, Conclude DEF Types

LEMMA LinkStep ==
  ASSUME NameiInv, NEW i \in Ino, NEW d \in Ino, NEW n \in Name, Link(i, d, n)
  PROVE  NameiInv'
<1>0. Types /\ Slotted /\ Single /\ Dentry /\ RenameKeeps
  BY DEF NameiInv
<1>1. CanCreate(d, n) /\ kind[i] = "file" /\ kind[d] = "dir" /\ i # d
  BY DEF Link, CanCreate, Live
<1>a. PICK f \in Fault({1}, {1}) :
        LET r == add_link(slots[d], n, i, Bad(f, 1), How(f, 1))
        IN /\ slots' = [slots EXCEPT ![d] = r.dir]
           /\ nlink' = add_nondir([nlink EXCEPT ![i] = inc(@)], i, r.err)
           /\ tmp' = IF r.err THEN tmp ELSE tmp \ {i}
           /\ Dentries([dcache EXCEPT ![d][n] = IF r.err THEN 0 ELSE i])
           /\ Outcome(f, slots' # slots, r.err, {i}, {})
  BY Zenon DEF Link
<1>b. PICK r : r = add_link(slots[d], n, i, Bad(f, 1), How(f, 1))
  OBVIOUS
<1>2. /\ slots' = [slots EXCEPT ![d] = r.dir]
      /\ nlink' = add_nondir([nlink EXCEPT ![i] = inc(@)], i, r.err)
      /\ tmp' = IF r.err THEN tmp ELSE tmp \ {i}
      /\ Dentries([dcache EXCEPT ![d][n] = IF r.err THEN 0 ELSE i])
      /\ Outcome(f, slots' # slots, r.err, {i}, {})
  BY <1>a, <1>b, Zenon
<1>3. DirOK(d, r.dir) /\ r.err \in BOOLEAN /\ (d \notin blind => Unique(r.dir))
  BY <1>0, <1>1, <1>b, Added
<1>4. kind' = kind /\ dead' = dead /\ lost' = lost
  BY DEF Link
<1>5. Formed(slots', kind')
  BY <1>0, <1>1, <1>2, <1>3, <1>4, FormedOne DEF Slotted
<1>6. nlink' \in [Ino -> 0 .. (LinkWrap - 1)]
  <2>1. nlink[i] \in Int
    BY <1>0 DEF Types
  <2>2. inc(nlink[i]) \in 0 .. (LinkWrap - 1)
    BY <2>1, Wrap
  <2>3. dec(inc(nlink[i])) \in 0 .. (LinkWrap - 1)
    BY <2>2, Wrap
  <2> QED BY <1>0, <1>2, <2>2, <2>3 DEF add_nondir, Types
<1>7. torn' \subseteq Ino /\ faults' \in 0 .. MaxFaults
  BY <1>0, <1>2, OutcomeOK
<1>8. /\ dcache' \in [Ino -> [Name -> Ino \cup {0, Fresh}]]
      /\ blind' \subseteq Ino /\ blind \subseteq blind' /\ Dentry'
  <2> DEFINE c == [dcache EXCEPT ![d][n] = IF r.err THEN 0 ELSE i]
  <2>1. c \in [Ino -> [Name -> Ino \cup {0, Fresh}]]
    BY <1>0 DEF Types
  <2>2. \A p \in Ino, m \in Name : c[p][m] # p
    BY <1>0, <1>1, Sizes DEF Types, Dentry
  <2> HIDE DEF c
  <2> QED BY <1>0, <1>2, <2>1, <2>2, DentriesOK DEF c
<1>9. \A p \in Ino : kind'[p] = "dir" /\ p \notin blind =>
        (kind[p] = "dir" /\ slots'[p] = slots[p]) \/ Unique(slots'[p])
  BY <1>0, <1>2, <1>3, <1>4 DEF Slotted, Formed
<1>10. tmp' \subseteq Ino
  BY <1>0, <1>2 DEF Types
<1> QED BY <1>0, <1>4, <1>5, <1>6, <1>7, <1>8, <1>9, <1>10, Conclude DEF Types

LEMMA MkdirStep ==
  ASSUME NameiInv, NEW d \in Ino, NEW n \in Name, Mkdir(d, n)
  PROVE  NameiInv'
<1> DEFINE i == NewIno
           up == [nlink EXCEPT ![d] = inc(@), ![i] = 2]
<1>0. Types /\ Slotted /\ Single /\ Dentry /\ RenameKeeps
  BY DEF NameiInv
<1>1. CanCreate(d, n) /\ i \in Ino /\ kind[i] = "free" /\ kind[d] = "dir" /\ i # d
  BY <1>0, FreshInode DEF Mkdir, CanCreate, Live
<1>a. PICK f \in Fault({1, 2}, {2}) :
        LET e == make_empty(i, d, How(f, 1))
            r == IF e.err THEN Unchanged(slots[d])
                 ELSE add_link(slots[d], n, i, Bad(f, 2), How(f, 2))
        IN /\ slots' = [slots EXCEPT ![d] = r.dir, ![i] = IF r.err THEN <<>> ELSE e.dir]
           /\ nlink' = IF r.err THEN [up EXCEPT ![i] = dec(dec(@)), ![d] = dec(@)] ELSE up
           /\ kind' = [kind EXCEPT ![i] = IF r.err THEN "free" ELSE "dir"]
           /\ Dentries([dcache EXCEPT ![d][n] = IF r.err THEN 0 ELSE i])
           /\ Outcome(f, slots' # slots, r.err, {i}, {})
  BY Zenon DEF Mkdir
<1> HIDE DEF i, up
<1>b. PICK e : e = make_empty(i, d, How(f, 1))
  OBVIOUS
<1>c. PICK r : r = IF e.err THEN Unchanged(slots[d])
                   ELSE add_link(slots[d], n, i, Bad(f, 2), How(f, 2))
  OBVIOUS
<1>2. /\ slots' = [slots EXCEPT ![d] = r.dir, ![i] = IF r.err THEN <<>> ELSE e.dir]
      /\ nlink' = IF r.err THEN [up EXCEPT ![i] = dec(dec(@)), ![d] = dec(@)] ELSE up
      /\ kind' = [kind EXCEPT ![i] = IF r.err THEN "free" ELSE "dir"]
      /\ Dentries([dcache EXCEPT ![d][n] = IF r.err THEN 0 ELSE i])
      /\ Outcome(f, slots' # slots, r.err, {i}, {})
  BY <1>a, <1>b, <1>c, Zenon
<1>3. e.err \in BOOLEAN /\ (~ e.err => DirOK(i, e.dir) /\ Unique(e.dir))
  BY <1>1, <1>b, MakeEmpty
<1>4. /\ DirOK(d, r.dir) /\ r.err \in BOOLEAN /\ (d \notin blind => Unique(r.dir))
      /\ ~ r.err => DirOK(i, e.dir) /\ Unique(e.dir)
  <2>1. CASE e.err
    <3>1. r.dir = slots[d] /\ r.err = TRUE
      BY <1>c, <2>1 DEF Unchanged
    <3>2. DirOK(d, slots[d]) /\ (d \notin blind => Unique(slots[d]))
      BY <1>0, <1>1 DEF Slotted, Formed, Single
    <3> QED BY <3>1, <3>2
  <2>2. CASE ~ e.err
    <3>1. r = add_link(slots[d], n, i, Bad(f, 2), How(f, 2))
      BY <1>c, <2>2
    <3> QED BY <1>0, <1>1, <1>3, <2>2, <3>1, Added
  <2> QED BY <1>3, <2>1, <2>2
<1>5. \A p \in Ino : slots'[p] = IF p = i THEN (IF r.err THEN <<>> ELSE e.dir)
                                 ELSE IF p = d THEN r.dir ELSE slots[p]
  BY <1>0, <1>1, <1>2 DEF Slotted, Formed
<1>6. kind' \in [Ino -> {"free", "file", "dir"}]
      /\ \A p \in Ino : kind'[p] = IF p = i THEN (IF r.err THEN "free" ELSE "dir") ELSE kind[p]
  BY <1>0, <1>1, <1>2 DEF Types
<1>7. Formed(slots', kind')
  <2>1. ASSUME NEW p \in Ino
        PROVE  /\ slots'[p] \in Seq(AnySlot)
               /\ IF kind'[p] = "dir" THEN DirOK(p, slots'[p]) ELSE slots'[p] = <<>>
    <3>1. CASE p = i /\ r.err
      <4>1. slots'[p] = <<>> /\ kind'[p] = "free" /\ <<>> \in Seq(AnySlot)
        BY <1>5, <1>6, <3>1
      <4> QED BY <4>1
    <3>2. CASE p = i /\ ~ r.err
      <4>1. slots'[p] = e.dir /\ kind'[p] = "dir" /\ DirOK(i, e.dir)
        BY <1>4, <1>5, <1>6, <3>2
      <4>2. e.dir \in Seq(AnySlot)
        BY <4>1 DEF DirOK
      <4> QED BY <3>2, <4>1, <4>2
    <3>3. CASE p = d
      BY <1>1, <1>4, <1>5, <1>6, <3>3 DEF DirOK
    <3>4. CASE p # i /\ p # d
      BY <1>0, <1>5, <1>6, <3>4 DEF Slotted, Formed
    <3> QED BY <3>1, <3>2, <3>3, <3>4
  <2>2. slots' = [p \in Ino |-> slots'[p]]
    BY <1>0, <1>2 DEF Slotted, Formed
  <2>3. slots' \in [Ino -> Seq(AnySlot)]
    BY <2>1, <2>2
  <2> QED BY <2>1, <2>3 DEF Formed
<1>8. nlink' \in [Ino -> 0 .. (LinkWrap - 1)]
  <2>1. nlink[d] \in Int
    BY <1>0 DEF Types
  <2>2. inc(nlink[d]) \in 0 .. (LinkWrap - 1) /\ 2 \in 0 .. (LinkWrap - 1)
    BY <2>1, Wrap, Sizes
  <2>3. up \in [Ino -> 0 .. (LinkWrap - 1)]
    BY <1>0, <2>2 DEF Types, up
  <2>4. up[i] \in Int /\ up[d] \in Int
    BY <1>1, <2>3
  <2>5. dec(up[i]) \in Int /\ dec(dec(up[i])) \in 0 .. (LinkWrap - 1)
        /\ dec(up[d]) \in 0 .. (LinkWrap - 1)
    BY <2>4, Wrap
  <2> QED BY <1>1, <1>2, <2>3, <2>5
<1>9. torn' \subseteq Ino /\ faults' \in 0 .. MaxFaults
  BY <1>0, <1>1, <1>2, OutcomeOK
<1>10. /\ dcache' \in [Ino -> [Name -> Ino \cup {0, Fresh}]]
       /\ blind' \subseteq Ino /\ blind \subseteq blind' /\ Dentry'
  <2> DEFINE c == [dcache EXCEPT ![d][n] = IF r.err THEN 0 ELSE i]
  <2>1. c \in [Ino -> [Name -> Ino \cup {0, Fresh}]]
    BY <1>0, <1>1 DEF Types
  <2>2. \A p \in Ino, m \in Name : c[p][m] # p
    BY <1>0, <1>1, Sizes DEF Types, Dentry
  <2> HIDE DEF c
  <2> QED BY <1>0, <1>2, <2>1, <2>2, DentriesOK DEF c
<1>11. \A p \in Ino : kind'[p] = "dir" /\ p \notin blind =>
        (kind[p] = "dir" /\ slots'[p] = slots[p]) \/ Unique(slots'[p])
  BY <1>1, <1>4, <1>5, <1>6
<1>12. UNCHANGED <<dead, tmp, lost>>
  BY DEF Mkdir
<1> QED BY <1>0, <1>6, <1>7, <1>8, <1>9, <1>10, <1>11, <1>12, Conclude DEF Types

\* The inodes of an operation.
LEMMA AboutOK ==
  ASSUME Types, Slotted, Dentry, NEW d \in Ino, NEW n \in Name, NEW bad
  PROVE  About(d, n, bad) \subseteq Ino \cup {0}
  BY LookupOK, NamedOK DEF About

LEMMA InsideUp ==
  ASSUME Types, Slotted, NEW i
  PROVE  /\ Up(i) \subseteq Ino
         /\ i \in Ino => Inside(i) \subseteq Ino
<1>1. ASSUME NEW j \in Ino, kind[j] = "dir" PROVE slots[j][2].ino \in Ino
  <2>1. DirOK(j, slots[j])
    BY <1>1 DEF Slotted, Formed
  <2>2. slots[j][2] \in AnySlot /\ slots[j][2].ino # 0
    BY <2>1 DEF DirOK
  <2> QED BY <2>2 DEF AnySlot
<1>2. Up(i) \subseteq Ino
  BY <1>1 DEF Up
<1>3. ASSUME i \in Ino, NEW j \in Used(slots[i], {}) PROVE slots[i][j].ino \in Ino
  <2>1. slots[i] \in Seq(AnySlot)
    BY <1>3 DEF Slotted, Formed
  <2>2. Holds(slots[i], j)
    BY <1>3, <2>1, UsedSlots
  <2>3. slots[i][j] \in AnySlot /\ slots[i][j].ino # 0
    BY <2>1, <2>2 DEF Holds
  <2> QED BY <2>3 DEF AnySlot
<1> QED BY <1>2, <1>3 DEF Inside

LEMMA KeptOK ==
  ASSUME Types, Slotted, Dentry, NEW d \in Ino, NEW n \in Name
  PROVE  /\ Kept(d, n) \in [Ino -> [Name -> Ino \cup {0, Fresh}]]
         /\ \A p \in Ino, m \in Name : Kept(d, n)[p][m] # p
<1>1. Lookup(d, n) \in Ino \cup {0} /\ Lookup(d, n) # d
  BY LookupOK
<1> QED BY <1>1 DEF Kept, Types, Dentry

LEMMA WithoutOK ==
  ASSUME Types, Dentry, NEW d \in Ino, NEW n \in Name, NEW i
  PROVE  /\ Without(d, n, i) \in [Ino -> [Name -> Ino \cup {0, Fresh}]]
         /\ \A p \in Ino, m \in Name : Without(d, n, i)[p][m] # p
<1>1. Without(d, n, i) \in [Ino -> [Name -> Ino \cup {0, Fresh}]]
  BY DEF Without, Types
<1>2. \A p \in Ino, m \in Name : Without(d, n, i)[p][m] # p
  BY Sizes DEF Without, Dentry
<1> QED BY <1>1, <1>2

LEMMA UnlinkStep ==
  ASSUME NameiInv, NEW d \in Ino, NEW n \in Name, Unlink(d, n)
  PROVE  NameiInv'
<1> DEFINE i == Lookup(d, n)
<1>0. Types /\ Slotted /\ Single /\ Dentry /\ RenameKeeps
  BY DEF NameiInv
<1>1. Live(d) /\ kind[d] = "dir" /\ i \in Ino
  BY <1>0, LookupOK DEF Unlink, Negative, Live
<1>a. PICK f \in Fault({2}, {1}) :
        LET r == Removed(d, n, f)
            is == About(d, n, Bad(f, 1))
        IN /\ slots' = [slots EXCEPT ![d] = r.dir]
           /\ nlink' = unlinked(nlink, i, r.err)
           /\ Dentries(IF r.err THEN Kept(d, n) ELSE Without(d, n, 0))
           /\ Outcome(f, slots' # slots, r.err \/ Cardinality(is) > 1, is, {})
  BY Zenon DEF Unlink
<1> HIDE DEF i
<1>b. PICK r : r = Removed(d, n, f)
  OBVIOUS
<1> DEFINE is == About(d, n, Bad(f, 1))
<1>2. /\ slots' = [slots EXCEPT ![d] = r.dir]
      /\ nlink' = unlinked(nlink, i, r.err)
      /\ Dentries(IF r.err THEN Kept(d, n) ELSE Without(d, n, 0))
      /\ Outcome(f, slots' # slots, r.err \/ Cardinality(is) > 1, is, {})
  BY <1>a, <1>b, Zenon
<1>3. DirOK(d, r.dir) /\ r.err \in BOOLEAN /\ (Unique(slots[d]) => Unique(r.dir))
  BY <1>0, <1>1, <1>b, RemovedOK
<1>4. kind' = kind /\ dead' = dead /\ tmp' = tmp /\ lost' = lost
  BY DEF Unlink
<1>5. Formed(slots', kind')
  BY <1>0, <1>1, <1>2, <1>3, <1>4, FormedOne DEF Slotted
<1>6. nlink' \in [Ino -> 0 .. (LinkWrap - 1)]
  <2>1. nlink[i] \in Int
    BY <1>0, <1>1 DEF Types
  <2>2. dec(nlink[i]) \in 0 .. (LinkWrap - 1)
    BY <2>1, Wrap
  <2> QED BY <1>0, <1>2, <2>2 DEF unlinked, Types
<1>7. torn' \subseteq Ino /\ faults' \in 0 .. MaxFaults
  <2>1. is \subseteq Ino \cup {0}
    BY <1>0, AboutOK
  <2> HIDE DEF is
  <2> QED BY <1>0, <1>2, <2>1, OutcomeOK
<1>8. /\ dcache' \in [Ino -> [Name -> Ino \cup {0, Fresh}]]
      /\ blind' \subseteq Ino /\ blind \subseteq blind' /\ Dentry'
  <2>1. CASE r.err
    BY <1>0, <1>2, <2>1, KeptOK, DentriesOK
  <2>2. CASE ~ r.err
    BY <1>0, <1>2, <2>2, WithoutOK, DentriesOK
  <2> QED BY <2>1, <2>2
<1>9. \A p \in Ino : kind'[p] = "dir" /\ p \notin blind =>
        (kind[p] = "dir" /\ slots'[p] = slots[p]) \/ Unique(slots'[p])
  BY <1>0, <1>2, <1>3, <1>4 DEF Slotted, Formed, Single
<1> QED BY <1>0, <1>4, <1>5, <1>6, <1>7, <1>8, <1>9, Conclude DEF Types

LEMMA RmdirStep ==
  ASSUME NameiInv, NEW d \in Ino, NEW n \in Name, Rmdir(d, n)
  PROVE  NameiInv'
<1> DEFINE i == Lookup(d, n)
<1>0. Types /\ Slotted /\ Single /\ Dentry /\ RenameKeeps
  BY DEF NameiInv
<1>1. Live(d) /\ kind[d] = "dir" /\ i \in Ino
  BY <1>0, LookupOK DEF Rmdir, Negative, Live
<1>a. PICK f \in Fault({2}, {1, 3}) :
        LET r == Removed(d, n, f)
            is == About(d, n, Bad(f, 1))
        IN /\ slots' = [slots EXCEPT ![d] = r.dir]
           /\ nlink' = rmdir_links(unlinked(nlink, i, r.err), d, i, r.err)
           /\ dead' = IF r.err THEN dead ELSE dead \cup {i}
           /\ Dentries(IF r.err THEN Kept(d, n) ELSE Without(d, n, i))
           /\ Outcome(f, slots' # slots, r.err \/ Cardinality(is) > 1 \/ f.step = 3,
                      is \cup Inside(i), {d} \cup Up(i))
  BY Zenon DEF Rmdir
<1> HIDE DEF i
<1>b. PICK r : r = Removed(d, n, f)
  OBVIOUS
<1> DEFINE is == About(d, n, Bad(f, 1))
<1>2. /\ slots' = [slots EXCEPT ![d] = r.dir]
      /\ nlink' = rmdir_links(unlinked(nlink, i, r.err), d, i, r.err)
      /\ dead' = IF r.err THEN dead ELSE dead \cup {i}
      /\ Dentries(IF r.err THEN Kept(d, n) ELSE Without(d, n, i))
      /\ Outcome(f, slots' # slots, r.err \/ Cardinality(is) > 1 \/ f.step = 3,
                 is \cup Inside(i), {d} \cup Up(i))
  BY <1>a, <1>b, Zenon
<1>3. DirOK(d, r.dir) /\ r.err \in BOOLEAN /\ (Unique(slots[d]) => Unique(r.dir))
  BY <1>0, <1>1, <1>b, RemovedOK
<1>4. kind' = kind /\ tmp' = tmp /\ lost' = lost
  BY DEF Rmdir
<1>5. Formed(slots', kind')
  BY <1>0, <1>1, <1>2, <1>3, <1>4, FormedOne DEF Slotted
<1>6. nlink' \in [Ino -> 0 .. (LinkWrap - 1)]
  <2> DEFINE L == unlinked(nlink, i, r.err)
  <2>1. L \in [Ino -> 0 .. (LinkWrap - 1)]
    <3>1. nlink[i] \in Int
      BY <1>0, <1>1 DEF Types
    <3>2. dec(nlink[i]) \in 0 .. (LinkWrap - 1)
      BY <3>1, Wrap
    <3> QED BY <1>0, <3>2 DEF unlinked, Types
  <2> HIDE DEF L
  <2>2. nlink' = IF r.err THEN L ELSE [L EXCEPT ![d] = dec(@), ![i] = dec(@)]
    BY <1>2 DEF rmdir_links, L
  <2>3. L[d] \in Int /\ L[i] \in Int
    BY <1>1, <2>1
  <2>4. dec(L[d]) \in 0 .. (LinkWrap - 1) /\ dec(L[i]) \in 0 .. (LinkWrap - 1)
    BY <2>3, Wrap
  <2>5. dec(dec(L[d])) \in 0 .. (LinkWrap - 1)
    BY <2>4, Wrap
  <2> QED BY <1>1, <2>1, <2>2, <2>4, <2>5
<1>7. torn' \subseteq Ino /\ faults' \in 0 .. MaxFaults
  <2>1. is \cup Inside(i) \subseteq Ino \cup {0}
    BY <1>0, <1>1, AboutOK, InsideUp
  <2>2. {d} \cup Up(i) \subseteq Ino
    BY <1>0, InsideUp
  <2> HIDE DEF is
  <2> QED BY <1>0, <1>2, <2>1, <2>2, OutcomeOK
<1>8. /\ dcache' \in [Ino -> [Name -> Ino \cup {0, Fresh}]]
      /\ blind' \subseteq Ino /\ blind \subseteq blind' /\ Dentry'
  <2>1. CASE r.err
    BY <1>0, <1>2, <2>1, KeptOK, DentriesOK
  <2>2. CASE ~ r.err
    BY <1>0, <1>2, <2>2, WithoutOK, DentriesOK
  <2> QED BY <2>1, <2>2
<1>9. \A p \in Ino : kind'[p] = "dir" /\ p \notin blind =>
        (kind[p] = "dir" /\ slots'[p] = slots[p]) \/ Unique(slots'[p])
  BY <1>0, <1>2, <1>3, <1>4 DEF Slotted, Formed, Single
<1>10. dead' \subseteq Ino
  BY <1>0, <1>1, <1>2 DEF Types
<1> QED BY <1>0, <1>4, <1>5, <1>6, <1>7, <1>8, <1>9, <1>10, Conclude DEF Types

LEMMA LookupBlindStep ==
  ASSUME NameiInv, NEW d \in Ino, NEW n \in Name, NEW p \in Page, LookupBlind(d, n, p)
  PROVE  NameiInv'
<1> DEFINE i == inode_by_name(slots[d], n, {p})
           c == [dcache EXCEPT ![d][n] = i]
<1>0. Types /\ Slotted /\ Single /\ Dentry /\ RenameKeeps
  BY DEF NameiInv
<1>1. /\ slots' = slots /\ Dentries(c) /\ faults < MaxFaults /\ faults' = faults + 1
      /\ UNCHANGED <<kind, nlink, dead, tmp, torn, lost>>
  BY DEF LookupBlind
<1>2. i \in Ino \cup {0} /\ i # d
  BY <1>0, NamedOK
<1> HIDE DEF i
<1>3. /\ c \in [Ino -> [Name -> Ino \cup {0, Fresh}]]
      /\ \A q \in Ino, m \in Name : c[q][m] # q
  BY <1>0, <1>2 DEF Types, Dentry
<1> HIDE DEF c
<1>4. /\ dcache' \in [Ino -> [Name -> Ino \cup {0, Fresh}]]
      /\ blind' \subseteq Ino /\ blind \subseteq blind' /\ Dentry'
  BY <1>0, <1>1, <1>3, DentriesOK
<1>5. faults' \in 0 .. MaxFaults
  BY <1>0, <1>1, Sizes DEF Types
<1>6. Formed(slots', kind')
  BY <1>0, <1>1 DEF Slotted
<1> QED BY <1>0, <1>1, <1>4, <1>5, <1>6, Conclude DEF Types

LEMMA DropDentryStep ==
  ASSUME NameiInv, NEW d \in Ino, NEW n \in Name, DropDentry(d, n)
  PROVE  NameiInv'
<1>0. Types /\ Slotted /\ Single /\ Dentry /\ RenameKeeps
  BY DEF NameiInv
<1>1. /\ dcache' = [dcache EXCEPT ![d][n] = Fresh]
      /\ UNCHANGED <<kind, nlink, slots, dead, tmp, faults, torn, blind, lost>>
  BY DEF DropDentry
<1>2. dcache' \in [Ino -> [Name -> Ino \cup {0, Fresh}]]
  BY <1>0, <1>1 DEF Types
<1>3. Dentry'
  BY <1>0, <1>1, Sizes DEF Types, Dentry
<1>4. Formed(slots', kind')
  BY <1>0, <1>1 DEF Slotted
<1> QED BY <1>0, <1>1, <1>2, <1>3, <1>4, Conclude DEF Types

LEMMA TmpfileStep ==
  ASSUME NameiInv, Tmpfile
  PROVE  NameiInv'
<1>0. Types /\ Slotted /\ Single /\ Dentry /\ RenameKeeps
  BY DEF NameiInv
<1>1. /\ kind' = [kind EXCEPT ![NewIno] = "file"] /\ tmp' = tmp \cup {NewIno}
      /\ UNCHANGED <<nlink, slots, dead, dcache, faults, torn, blind, lost>>
  BY DEF Tmpfile
<1>2. NewIno \in Ino /\ kind[NewIno] = "free"
  BY <1>0, FreshInode DEF Tmpfile
<1>3. Formed(slots', kind')
  BY <1>0, <1>1, <1>2, FormedKind DEF Slotted, Types
<1>4. kind' \in [Ino -> {"free", "file", "dir"}] /\ tmp' \subseteq Ino
  BY <1>0, <1>1, <1>2 DEF Types
<1>5. Dentry'
  BY <1>0, <1>1 DEF Dentry
<1>6. \A p \in Ino : kind'[p] = "dir" => kind[p] = "dir"
  BY <1>0, <1>1 DEF Types
<1> QED BY <1>0, <1>1, <1>3, <1>4, <1>5, <1>6, Conclude DEF Types

LEMMA EvictStep ==
  ASSUME NameiInv, NEW i \in Ino, Evict(i)
  PROVE  NameiInv'
<1> DEFINE c == [dcache EXCEPT ![i] = [n \in Name |-> Fresh]]
<1>0. Types /\ Slotted /\ Single /\ Dentry /\ RenameKeeps
  BY DEF NameiInv
<1>1. /\ kind' = [kind EXCEPT ![i] = "free"] /\ slots' = [slots EXCEPT ![i] = <<>>]
      /\ dead' = dead \ {i} /\ tmp' = tmp \ {i} /\ Dentries(c)
      /\ torn' = IF i \in torn \ dead THEN torn \cup Inside(i) \cup Up(i) ELSE torn
      /\ UNCHANGED <<nlink, faults, lost>>
  BY DEF Evict, truncated
<1>2. /\ c \in [Ino -> [Name -> Ino \cup {0, Fresh}]]
      /\ \A q \in Ino, m \in Name : c[q][m] # q
  BY <1>0, Sizes DEF Types, Dentry
<1> HIDE DEF c
<1>3. /\ dcache' \in [Ino -> [Name -> Ino \cup {0, Fresh}]]
      /\ blind' \subseteq Ino /\ blind \subseteq blind' /\ Dentry'
  BY <1>0, <1>1, <1>2, DentriesOK
<1>4. <<>> \in Seq(AnySlot)
  OBVIOUS
<1>5. Formed(slots', kind')
  BY <1>0, <1>1, <1>4 DEF Types, Slotted, Formed
<1>6. /\ kind' \in [Ino -> {"free", "file", "dir"}]
      /\ \A p \in Ino : kind'[p] = "dir" => kind[p] = "dir" /\ p # i
  BY <1>0, <1>1 DEF Types
<1>7. \A p \in Ino : p # i => slots'[p] = slots[p]
  BY <1>0, <1>1 DEF Slotted, Formed
<1>8. dead' \subseteq Ino /\ tmp' \subseteq Ino
  BY <1>0, <1>1 DEF Types
<1>9. torn' \subseteq Ino
  BY <1>0, <1>1, InsideUp DEF Types
<1> QED BY <1>0, <1>1, <1>3, <1>5, <1>6, <1>7, <1>8, <1>9, Conclude DEF Types

\* What cominix_rename has found when it begins to change the directories: the
\* old entry e and, where the target exists, its entry t.
RenameFound(e, t, oi, od, on, nd, nn) ==
  /\ Live(od) /\ Live(nd) /\ ~ (od = nd /\ on = nn)
  /\ oi \in Ino /\ oi # od /\ oi # nd
  /\ Holds(slots[od], e) /\ slots[od][e].name = on
  /\ t # 0 => Holds(slots[nd], t) /\ slots[nd][t].name = nn
  /\ t = 0 => CanCreate(nd, nn)

\* Whatever fails, the directories stay well formed, and there is an entry for
\* the inode, the old one or the new one.
RenameSound(r, e, oi, od, nd, nn) ==
  /\ Formed(r.dirs, kind)
  /\ \A d \in Ino : kind[d] = "dir" /\ d \notin blind => Unique(r.dirs[d])
  /\ r.done \in {4, 5, 6, 7}
  /\ r.done = 4 => Holds(r.dirs[od], e) /\ r.dirs[od][e] = slots[od][e]
  /\ r.done # 4 => \E j : Holds(r.dirs[nd], j) /\ r.dirs[nd][j] = Slot(nn, oi)

\* The directories on the way: s5 after the new entry was made in slot p, s6
\* after the old one was deleted, s7 after .. was changed.
RenameWrites(r, e, t, oi, od, nd, nn, p, s5, e5, s6, e6, s7, e7) ==
  /\ p \in 3 .. (Len(slots[nd]) + 1) /\ (od = nd => p # e)
  /\ IF t = 0 THEN ~ Holds(slots[nd], p) ELSE p = t
  /\ Tried(slots, s5, nd, p, Slot(nn, oi), e5)
  /\ Tried(s5, s6, od, e, FreeSlot, e6) /\ s5[od][e] = slots[od][e]
  /\ kind[oi] = "dir" =>
       Tried(s6, s7, oi, 2, Slot(DotDot, nd), e7) /\ s6[oi][2].name = DotDot
  /\ r = IF e5 THEN [dirs |-> s5, done |-> 4]
         ELSE IF e6 THEN [dirs |-> s6, done |-> 5]
         ELSE IF kind[oi] # "dir" THEN [dirs |-> s6, done |-> 7]
         ELSE [dirs |-> s7, done |-> IF e7 THEN 6 ELSE 7]

LEMMA RenameDirs ==
  ASSUME Types, Slotted, Single, Dentry, NEW od \in Ino, NEW nd \in Ino, NEW on \in Name,
         NEW nn \in Name, NEW oi, NEW e, NEW t, RenameFound(e, t, oi, od, on, nd, nn),
         NEW f, NEW r, r = rename_dirs(e, t, oi, od, nd, nn, f)
  PROVE  /\ RenameSound(r, e, oi, od, nd, nn)
         /\ \E p, s5, e5, s6, e6, s7, e7 :
              RenameWrites(r, e, t, oi, od, nd, nn, p, s5, e5, s6, e6, s7, e7)
<1>a. /\ Live(od) /\ Live(nd) /\ ~ (od = nd /\ on = nn)
      /\ oi \in Ino /\ oi # od /\ oi # nd
      /\ Holds(slots[od], e) /\ slots[od][e].name = on
      /\ t # 0 => Holds(slots[nd], t) /\ slots[nd][t].name = nn
      /\ t = 0 => CanCreate(nd, nn)
  BY DEF RenameFound
<1> USE <1>a
<1> DEFINE r5 == IF t # 0 THEN set_link(slots[nd], t, oi, How(f, 5))
                 ELSE add_link(slots[nd], nn, oi, Bad(f, 5), How(f, 5))
           s5 == [slots EXCEPT ![nd] = r5.dir]
           r6 == delete_entry(s5[od], e, How(f, 6))
           s6 == [s5 EXCEPT ![od] = r6.dir]
           r7 == set_link(s6[oi], 2, nd, How(f, 7))
           s7 == [s6 EXCEPT ![oi] = r7.dir]
           U(S) == \A d \in Ino : kind[d] = "dir" /\ d \notin blind => Unique(S[d])
           new == Slot(nn, oi)
<1>0. /\ kind[od] = "dir" /\ DirOK(od, slots[od]) /\ kind[nd] = "dir" /\ DirOK(nd, slots[nd])
      /\ Len(slots[od]) \in Nat /\ Len(slots[nd]) \in Nat /\ Formed(slots, kind)
      /\ slots[nd] \in Seq(AnySlot)
  BY LiveDir DEF Slotted
<1>1. e \in 3 .. Len(slots[od])
  BY <1>0, NotDots
<1>2. r = IF r5.err THEN [dirs |-> s5, done |-> 4]
          ELSE IF r6.err THEN [dirs |-> s6, done |-> 5]
          ELSE IF kind[oi] # "dir" THEN [dirs |-> s6, done |-> 7]
          ELSE [dirs |-> s7, done |-> IF r7.err THEN 6 ELSE 7]
  BY Zenon DEF rename_dirs
<1>3. new.name = nn /\ new.ino = oi /\ oi # 0
  BY Sizes DEF Slot
<1> HIDE DEF r5, s5, r6, s6, r7, s7, new
<1>4. PICK p \in 3 .. (Len(slots[nd]) + 1) :
        /\ Changed(nd, slots[nd], r5, p, new) /\ (od = nd => p # e)
        /\ IF t = 0 THEN ~ Holds(slots[nd], p) ELSE p = t
        /\ nd \notin blind => Unique(r5.dir)
  <2>1. CASE t # 0
    <3>1. Holds(slots[nd], t) /\ slots[nd][t].name = nn
          /\ r5 = set_link(slots[nd], t, oi, How(f, 5))
      BY <2>1 DEF r5
    <3>a. t \in 3 .. Len(slots[nd])
      BY <1>0, <3>1, NotDots
    <3>2. Changed(nd, slots[nd], r5, t, new)
      <4>1. t # 1
        BY <3>a
      <4> QED BY <1>0, <3>1, <4>1, SetLink DEF new
    <3>3. t \in 3 .. (Len(slots[nd]) + 1) /\ (od = nd => t # e)
      BY <1>0, <3>1, <3>a
    <3>4. ASSUME nd \notin blind PROVE Unique(r5.dir)
      <4>1. Unique(slots[nd])
        BY <1>0, <3>4 DEF Single
      <4>2. \A k : k # t /\ Holds(slots[nd], k) => slots[nd][k].name # new.name
        BY <1>3, <3>1, <4>1 DEF Unique, Holds
      <4> QED BY <1>0, <3>2, <4>1, <4>2, PutUnique DEF Changed
    <3> QED BY <2>1, <3>2, <3>3, <3>4
  <2>2. CASE t = 0
    <3>1. CanCreate(nd, nn) /\ r5 = add_link(slots[nd], nn, oi, Bad(f, 5), How(f, 5))
      BY <2>2 DEF r5
    <3>2. /\ nd \notin blind => Unique(r5.dir)
          /\ \E j \in 3 .. (Len(slots[nd]) + 1) :
               ~ Holds(slots[nd], j) /\ Changed(nd, slots[nd], r5, j, Slot(nn, oi))
      BY <3>1, Added
    <3> QED BY <2>2, <3>2 DEF new
  <2> QED BY <2>1, <2>2
<1>5. DirOK(nd, r5.dir) /\ r5.err \in BOOLEAN /\ Len(r5.dir) \in Nat
  BY <1>4 DEF Changed, DirOK
<1>6. Formed(s5, kind) /\ s5 \in [Ino -> Seq(AnySlot)]
  <2>1. Formed(s5, kind)
    BY <1>0, <1>5, FormedOne DEF s5
  <2> QED BY <2>1 DEF Formed
<1>7. \A d \in Ino : s5[d] = IF d = nd THEN r5.dir ELSE slots[d]
  BY <1>0 DEF s5, Formed
<1>8. U(s5)
  BY <1>4, <1>7 DEF Single
<1>9. Holds(s5[od], e) /\ s5[od][e] = slots[od][e]
  <2>1. CASE od = nd
    <3>1. s5[od] = r5.dir /\ e # p
      BY <1>4, <1>7, <2>1
    <3>2. Len(r5.dir) >= Len(slots[nd]) /\ r5.dir[e] = slots[nd][e]
      <4>1. CASE r5.dir = slots[nd]
        BY <1>0, <4>1, <2>1
      <4>2. CASE Put(slots[nd], r5.dir, p, new)
        BY <1>0, <1>1, <2>1, <3>1, <4>2 DEF Put
      <4> QED BY <1>4, <4>1, <4>2 DEF Changed
    <3> QED BY <1>0, <1>5, <2>1, <3>1, <3>2 DEF Holds
  <2>2. CASE od # nd
    BY <1>7, <2>2
  <2> QED BY <2>1, <2>2
<1>10. ~ r5.err => Holds(s5[nd], p) /\ s5[nd][p] = new
  <2> SUFFICES ASSUME ~ r5.err PROVE Holds(s5[nd], p) /\ s5[nd][p] = new
    OBVIOUS
  <2>1. Put(slots[nd], r5.dir, p, new) /\ s5[nd] = r5.dir
    BY <1>4, <1>7 DEF Changed
  <2> QED BY <1>0, <1>3, <1>4, <2>1 DEF Put, Holds
<1>11. DirOK(od, s5[od])
  BY <1>0, <1>6 DEF Formed
<1>12. Changed(od, s5[od], r6, e, FreeSlot)
  <2>1. e \in 3 .. Len(s5[od])
    BY <1>9, <1>11, NotDots
  <2> QED BY <1>11, <2>1, DeleteEntry DEF r6
<1>13. DirOK(od, r6.dir) /\ r6.err \in BOOLEAN /\ Len(s5[od]) \in Nat
  BY <1>11, <1>12 DEF Changed, DirOK
<1>14. Formed(s6, kind) /\ s6 \in [Ino -> Seq(AnySlot)]
  <2>1. Formed(s6, kind)
    BY <1>0, <1>6, <1>13, FormedOne DEF s6
  <2> QED BY <2>1 DEF Formed
<1>15. \A d \in Ino : s6[d] = IF d = od THEN r6.dir ELSE s5[d]
  BY <1>6 DEF s6
<1>16. U(s6)
  <2>1. Unique(s5[od]) => Unique(r6.dir)
    <3>1. FreeSlot.ino = 0
      BY DEF FreeSlot, Slot
    <3> QED BY <1>12, <1>13, <3>1, PutUnique DEF Changed
  <2> QED BY <1>8, <1>15, <2>1
<1>17. ~ r5.err => Holds(s6[nd], p) /\ s6[nd][p] = new
  <2> SUFFICES ASSUME ~ r5.err PROVE Holds(s6[nd], p) /\ s6[nd][p] = new
    OBVIOUS
  <2>1. CASE od # nd
    BY <1>10, <1>15, <2>1
  <2>2. CASE od = nd
    <3>1. s6[nd] = r6.dir /\ p # e /\ Holds(s5[od], p) /\ s5[od][p] = new
      BY <1>4, <1>10, <1>15, <2>2
    <3>2. CASE r6.dir = s5[od]
      BY <3>1, <3>2
    <3>3. CASE Put(s5[od], r6.dir, e, FreeSlot)
      <4>1. e \in 1 .. Len(s5[od])
        BY <1>9 DEF Holds
      <4>2. Len(r6.dir) = Len(s5[od]) /\ r6.dir[p] = s5[od][p]
        BY <1>13, <3>1, <3>3, <4>1 DEF Put, Holds
      <4> QED BY <3>1, <4>2 DEF Holds
    <3> QED BY <1>12, <3>2, <3>3 DEF Changed
  <2> QED BY <2>1, <2>2
<1>18. ASSUME kind[oi] = "dir"
       PROVE  /\ Formed(s7, kind) /\ U(s7) /\ r7.err \in BOOLEAN /\ s7[nd] = s6[nd]
              /\ Tried(s6, s7, oi, 2, Slot(DotDot, nd), r7.err) /\ s6[oi][2].name = DotDot
  <2>1. DirOK(oi, s6[oi]) /\ Len(s6[oi]) \in Nat
    BY <1>14, <1>18 DEF Formed, DirOK
  <2>2. Holds(s6[oi], 2) /\ s6[oi][2].name = DotDot
    BY <2>1 DEF DirOK, Holds
  <2>3. Changed(oi, s6[oi], r7, 2, Slot(DotDot, nd))
    BY <2>1, <2>2, SetLink DEF r7
  <2>4. DirOK(oi, r7.dir) /\ r7.err \in BOOLEAN
    BY <2>3 DEF Changed
  <2>5. Formed(s7, kind)
    BY <1>14, <1>18, <2>4, FormedOne DEF s7
  <2>6. \A d \in Ino : s7[d] = IF d = oi THEN r7.dir ELSE s6[d]
    BY <1>14 DEF s7
  <2>7. Unique(s6[oi]) => Unique(r7.dir)
    <3> SUFFICES ASSUME Unique(s6[oi]) PROVE Unique(r7.dir)
      OBVIOUS
    <3>1. Slot(DotDot, nd).name = DotDot
      BY DEF Slot
    <3>2. \A k : k # 2 /\ Holds(s6[oi], k) => s6[oi][k].name # Slot(DotDot, nd).name
      BY <2>2, <3>1 DEF Unique, Holds
    <3> QED BY <2>1, <2>3, <3>2, PutUnique DEF Changed
  <2>8. Tried(s6, s7, oi, 2, Slot(DotDot, nd), r7.err)
    BY <1>14, <2>3, TriedOne DEF s7
  <2> QED BY <1>16, <2>2, <2>4, <2>5, <2>6, <2>7, <2>8
<1> HIDE DEF U
<1>19. RenameSound(r, e, oi, od, nd, nn)
  <2>1. CASE r5.err
    <3>1. r.dirs = s5 /\ r.done = 4
      BY <1>2, <2>1
    <3> QED BY <1>6, <1>8, <1>9, <3>1 DEF U, RenameSound
  <2>2. CASE ~ r5.err /\ (r6.err \/ kind[oi] # "dir")
    <3>1. r.dirs = s6 /\ r.done \in {5, 7}
      BY <1>2, <1>13, <2>2
    <3> QED BY <1>14, <1>16, <1>17, <2>2, <3>1 DEF U, new, RenameSound
  <2>3. CASE ~ r5.err /\ ~ r6.err /\ kind[oi] = "dir"
    <3>1. r.dirs = s7 /\ r.done \in {6, 7}
      BY <1>2, <2>3
    <3> QED BY <1>17, <1>18, <2>3, <3>1 DEF U, new, RenameSound
  <2> QED BY <1>5, <1>13, <2>1, <2>2, <2>3
<1>20. Tried(slots, s5, nd, p, new, r5.err) /\ Tried(s5, s6, od, e, FreeSlot, r6.err)
  <2>1. slots \in [Ino -> Seq(AnySlot)]
    BY <1>0 DEF Formed
  <2>2. Tried(slots, s5, nd, p, new, r5.err)
    BY <1>4, <2>1, TriedOne DEF s5
  <2>3. Tried(s5, s6, od, e, FreeSlot, r6.err)
    BY <1>6, <1>12, TriedOne DEF s6
  <2> QED BY <2>2, <2>3
<1>21. RenameWrites(r, e, t, oi, od, nd, nn, p, s5, r5.err, s6, r6.err, s7, r7.err)
  <2>1. p \in 3 .. (Len(slots[nd]) + 1) /\ (od = nd => p # e)
        /\ IF t = 0 THEN ~ Holds(slots[nd], p) ELSE p = t
    BY <1>4
  <2> HIDE <1>a
  <2> QED BY <1>2, <1>9, <1>18, <1>20, <2>1, Zenon DEF new, RenameWrites
<1> QED BY <1>19, <1>21, Zenon

LEMMA MovedOK ==
  ASSUME Types, Dentry, NEW od, NEW on, NEW nd \in Ino, NEW nn \in Name,
         NEW oi \in Ino, oi # nd, NEW ni
  PROVE  /\ Moved(od, on, nd, nn, oi, ni) \in [Ino -> [Name -> Ino \cup {0, Fresh}]]
         /\ \A p \in Ino, m \in Name : Moved(od, on, nd, nn, oi, ni)[p][m] # p
<1>1. Moved(od, on, nd, nn, oi, ni) \in [Ino -> [Name -> Ino \cup {0, Fresh}]]
  BY DEF Moved, Types
<1>2. \A p \in Ino, m \in Name : Moved(od, on, nd, nn, oi, ni)[p][m] # p
  BY Sizes DEF Moved, Dentry
<1> QED BY <1>1, <1>2

LEMMA RenameLinks ==
  ASSUME Types, NEW oi \in Ino, NEW ni \in Ino \cup {0}, NEW od \in Ino, NEW nd \in Ino,
         NEW done
  PROVE  rename_links(oi, ni, od, nd, done) \in [Ino -> 0 .. (LinkWrap - 1)]
<1> DEFINE isdir == kind[oi] = "dir"
           met == IF ni # 0
                  THEN [nlink EXCEPT ![ni] = IF isdir THEN dec(dec(@)) ELSE dec(@)]
                  ELSE IF isdir THEN [nlink EXCEPT ![nd] = inc(@)] ELSE nlink
<1>1. \A i \in Ino : nlink[i] \in Int
  BY DEF Types
<1>2. \A i \in Ino : dec(nlink[i]) \in 0 .. (LinkWrap - 1) /\ inc(nlink[i]) \in 0 .. (LinkWrap - 1)
  BY <1>1, Wrap
<1>3. \A i \in Ino : dec(dec(nlink[i])) \in 0 .. (LinkWrap - 1)
  BY <1>2, Wrap
<1>4. met \in [Ino -> 0 .. (LinkWrap - 1)]
  <2>1. CASE ni # 0
    BY <1>2, <1>3, <2>1 DEF Types
  <2>2. CASE ni = 0
    BY <1>2, <2>2 DEF Types
  <2> QED BY <2>1, <2>2
<1>5. rename_links(oi, ni, od, nd, done) =
        IF done < 5 THEN nlink
        ELSE IF isdir /\ done = 7 THEN [met EXCEPT ![od] = dec(@)] ELSE met
  BY Zenon DEF rename_links
<1> HIDE DEF met, isdir
<1>6. met[od] \in Int
  BY <1>4
<1>7. dec(met[od]) \in 0 .. (LinkWrap - 1)
  BY <1>6, Wrap
<1> QED BY <1>4, <1>5, <1>7 DEF Types

\* An entry in a directory that is there is a name of the inode.
LEMMA StillNamed ==
  ASSUME Formed(slots', kind'), NEW d \in Ino, kind'[d] = "dir", d \notin dead',
         NEW j, Holds(slots'[d], j), slots'[d][j].name \in Name,
         NEW i, slots'[d][j].ino = i
  PROVE  Outside(i)' # {}
<1>1. slots'[d] \in Seq(AnySlot)
  BY DEF Formed
<1>2. j \in Used(slots'[d], {})
  BY <1>1, UsedSlots
<1>3. d \in Dirs'
  BY DEF Dirs, Live
<1>4. <<d, j>> \in Names(i)'
  BY <1>2, <1>3 DEF Names
<1>5. <<d, j>>[1] = d /\ <<d, j>>[2] = j
  OBVIOUS
<1>6. <<d, j>> \in Outside(i)'
  BY <1>4, <1>5 DEF Outside
<1> QED BY <1>6

LEMMA RenameStep ==
  ASSUME NameiInv, NEW od \in Ino, NEW nd \in Ino, NEW on \in Name, NEW nn \in Name,
         Rename(od, on, nd, nn)
  PROVE  NameiInv'
<1>0. Types /\ Slotted /\ Single /\ Dentry /\ RenameKeeps
  BY DEF NameiInv
<1>1. PICK oi \in {Lookup(od, on)}, ni \in {Lookup(nd, nn)} :
        /\ MayRename(od, on, nd, nn, oi, ni)
        /\ UNCHANGED <<kind, tmp>>
        /\ \E f \in Fault({5, 6, 7}, {1, 2, 3, 4, 5}) : Renamed(od, on, nd, nn, oi, ni, f)
  BY Zenon DEF Rename
<1>f. PICK f \in Fault({5, 6, 7}, {1, 2, 3, 4, 5}) : Renamed(od, on, nd, nn, oi, ni, f)
  BY <1>1
<1> DEFINE isdir == kind[oi] = "dir"
<1>2. PICK e : e = find_entry(slots[od], on, Bad(f, 1))
  OBVIOUS
<1>3. PICK t : t = IF ni = 0 THEN 0 ELSE find_entry(slots[nd], nn, Bad(f, 4))
  OBVIOUS
<1> DEFINE go == /\ e # 0 /\ (isdir => dotdot(slots[oi], Bad(f, 2)) # 0)
                 /\ ni # 0 => t # 0 /\ (isdir => empty_dir(slots[ni], ni, Bad(f, 3)))
<1>4. PICK r : r = IF go THEN rename_dirs(e, t, oi, od, nd, nn, f)
                   ELSE [dirs |-> slots, done |-> 0]
  OBVIOUS
<1> DEFINE ok == r.done = 7
           old == About(od, on, Bad(f, 1))
           new == IF ni = 0 THEN {} ELSE About(nd, nn, Bad(f, 4))
           is == old \cup new \cup (IF isdir THEN {od, nd} ELSE {})
                   \cup (IF isdir /\ ni # 0 THEN Inside(ni) ELSE {})
<1>5. /\ slots' = r.dirs
      /\ nlink' = rename_links(oi, ni, od, nd, r.done)
      /\ dead' = IF ok /\ isdir /\ ni # 0 THEN dead \cup {ni} ELSE dead
      /\ lost' = lost \cup {i \in {oi} : /\ e # 0 /\ slots[od][e].ino = i
                                         /\ Outside(i)' = {}}
      /\ Dentries(IF ok THEN Moved(od, on, nd, nn, oi, ni)
                  ELSE [Kept(od, on) EXCEPT ![nd][nn] = ni])
      /\ Outcome(f, r.done >= 5 \/ slots' # slots,
                 ~ok \/ Cardinality(old) > 1 \/ Cardinality(new) > 1 \/ f.step = 3,
                 is, Up(oi) \cup Up(ni))
  BY <1>f, <1>2, <1>3, <1>4, Zenon DEF Renamed
<1>6. /\ Live(od) /\ Live(nd) /\ ~ (od = nd /\ on = nn) /\ oi # 0
      /\ ni = 0 => CanCreate(nd, nn)
      /\ kind[oi] = "dir" => nd \notin Below(oi)
  BY <1>1 DEF MayRename, Positive
<1>7. oi \in Ino /\ oi # od /\ ni \in Ino \cup {0} /\ ni # nd
  BY <1>0, <1>1, <1>6, LookupOK
<1>8. oi # nd
  <2>1. kind[oi] = "dir" => oi \in Below(oi)
    BY <1>7 DEF Below
  <2> QED BY <1>6, <2>1 DEF Live
<1>9. kind' = kind /\ tmp' = tmp
  BY <1>1
<1>10. /\ e # 0 => Holds(slots[od], e) /\ slots[od][e].name = on
       /\ t # 0 => Holds(slots[nd], t) /\ slots[nd][t].name = nn
  <2>1. slots[od] \in Seq(AnySlot) /\ slots[nd] \in Seq(AnySlot)
    BY <1>0 DEF Slotted, Formed
  <2> QED BY <1>2, <1>3, <2>1, FindEntry
<1>11. go => e # 0 /\ (t = 0 => ni = 0)
  OBVIOUS
<1> HIDE DEF go, ok, is, isdir, old, new
<1>12. /\ Formed(r.dirs, kind)
       /\ \A d \in Ino : kind[d] = "dir" /\ d \notin blind => Unique(r.dirs[d])
       /\ r.done \in {0, 4, 5, 6, 7}
       /\ e # 0 /\ r.done <= 4 =>
            Holds(r.dirs[od], e) /\ r.dirs[od][e] = slots[od][e]
       /\ r.done > 4 => \E j : Holds(r.dirs[nd], j) /\ r.dirs[nd][j] = Slot(nn, oi)
  <2>1. CASE go
    <3>1. r = rename_dirs(e, t, oi, od, nd, nn, f)
      BY <1>4, <2>1
    <3>2. RenameFound(e, t, oi, od, on, nd, nn)
      BY <1>6, <1>7, <1>8, <1>10, <1>11, <2>1 DEF RenameFound
    <3>3. RenameSound(r, e, oi, od, nd, nn)
      BY <1>0, <3>1, <3>2, RenameDirs
    <3> QED BY <3>3 DEF RenameSound
  <2>2. CASE ~ go
    <3>1. r.dirs = slots /\ r.done = 0
      BY <1>4, <2>2
    <3> QED BY <1>0, <1>10, <3>1 DEF Slotted, Single
  <2> QED BY <2>1, <2>2
<1>13. nlink' \in [Ino -> 0 .. (LinkWrap - 1)]
  BY <1>0, <1>5, <1>7, RenameLinks
<1>14. torn' \subseteq Ino /\ faults' \in 0 .. MaxFaults
  <2>1. is \subseteq Ino \cup {0}
    BY <1>0, <1>7, AboutOK, InsideUp DEF is, old, new
  <2>2. Up(oi) \cup Up(ni) \subseteq Ino
    BY <1>0, InsideUp
  <2> QED BY <1>0, <1>5, <2>1, <2>2, OutcomeOK
<1>15. /\ dcache' \in [Ino -> [Name -> Ino \cup {0, Fresh}]]
       /\ blind' \subseteq Ino /\ blind \subseteq blind' /\ Dentry'
  <2>1. CASE ok
    BY <1>0, <1>5, <1>7, <1>8, <2>1, MovedOK, DentriesOK
  <2>2. CASE ~ ok
    <3> DEFINE c == [Kept(od, on) EXCEPT ![nd][nn] = ni]
    <3>1. /\ Kept(od, on) \in [Ino -> [Name -> Ino \cup {0, Fresh}]]
          /\ \A p \in Ino, m \in Name : Kept(od, on)[p][m] # p
      BY <1>0, KeptOK
    <3>2. /\ c \in [Ino -> [Name -> Ino \cup {0, Fresh}]]
          /\ \A p \in Ino, m \in Name : c[p][m] # p
      BY <1>7, <3>1
    <3>3. Dentries(c)
      BY <1>5, <2>2
    <3> HIDE DEF c
    <3> QED BY <1>0, <3>2, <3>3, DentriesOK
  <2> QED BY <2>1, <2>2
<1>16. dead' \subseteq Ino
  BY <1>0, <1>5, <1>7 DEF Types
<1>17. Formed(slots', kind')
  BY <1>5, <1>9, <1>12
<1>18. lost' = lost
  <2> SUFFICES ASSUME e # 0, slots[od][e].ino = oi PROVE Outside(oi)' # {}
    BY <1>5
  <2>1. CASE r.done <= 4
    <3>1. ~ ok /\ dead' = dead
      BY <1>5, <1>12, <2>1 DEF ok
    <3>2. kind'[od] = "dir" /\ od \notin dead'
      BY <1>6, <1>9, <3>1 DEF Live
    <3>3. Holds(slots'[od], e) /\ slots'[od][e] = slots[od][e] /\ slots[od][e].name \in Name
      BY <1>5, <1>10, <1>12, <2>1
    <3> QED BY <1>17, <3>2, <3>3, StillNamed
  <2>2. CASE r.done > 4
    <3>1. kind'[nd] = "dir" /\ nd \notin dead'
      BY <1>5, <1>6, <1>7, <1>9 DEF Live
    <3>2. PICK j : Holds(slots'[nd], j) /\ slots'[nd][j] = Slot(nn, oi)
      BY <1>5, <1>12, <2>2
    <3>3. slots'[nd][j].name \in Name /\ slots'[nd][j].ino = oi
      BY <3>2 DEF Slot
    <3> QED BY <1>17, <3>1, <3>2, <3>3, StillNamed
  <2> QED BY <1>12, <2>1, <2>2
<1>19. \A p \in Ino : kind'[p] = "dir" /\ p \notin blind =>
         (kind[p] = "dir" /\ slots'[p] = slots[p]) \/ Unique(slots'[p])
  BY <1>5, <1>9, <1>12
<1> QED BY <1>0, <1>9, <1>13, <1>14, <1>15, <1>16, <1>17, <1>18, <1>19, Conclude DEF Types

-----------------------------------------------------------------------------
(* Every state satisfies NameiInv.                                         *)

LEMMA NameiInit == Init => NameiInv
<1> SUFFICES ASSUME Init PROVE NameiInv
  OBVIOUS
<1> DEFINE r == make_empty(Root, Root, "ok")
<1>1. r.err = FALSE
  BY DEF make_empty
<1>2. DirOK(Root, r.dir) /\ Unique(r.dir)
  BY <1>1, Sizes, MakeEmpty
<1>3. slots = [i \in Ino |-> IF i = Root THEN r.dir ELSE <<>>]
  BY DEF Init
<1> HIDE DEF r
<1>4. r.dir \in Seq(AnySlot) /\ <<>> \in Seq(AnySlot)
  BY <1>2 DEF DirOK
<1>5. Slotted
  BY <1>2, <1>3, <1>4 DEF Init, Slotted, Formed
<1>6. Single
  BY <1>2, <1>3 DEF Init, Single
<1>7. Types
  BY Sizes DEF Init, Types
<1>8. Dentry /\ RenameKeeps
  BY Sizes DEF Init, Dentry, RenameKeeps, Fresh
<1> QED BY <1>5, <1>6, <1>7, <1>8 DEF NameiInv

LEMMA NameiStep == NameiInv /\ [Next]_vars => NameiInv'
<1> SUFFICES ASSUME NameiInv, [Next]_vars PROVE NameiInv'
  OBVIOUS
<1>1. CASE UNCHANGED vars
  BY <1>1 DEF vars, NameiInv, Types, Slotted, Single, Dentry, RenameKeeps
<1>2. CASE Next
  BY <1>2, MknodStep, MkdirStep, UnlinkStep, RmdirStep, DropDentryStep, LinkStep,
     LookupBlindStep, RenameStep, EvictStep, TmpfileStep DEF Next
<1> QED BY <1>1, <1>2

LEMMA NameiAlways == Spec => []NameiInv
  BY NameiInit, NameiStep, PTL DEF Spec

\* The state of namei.c has its type whatever fails: no directory outgrows its
\* bound, nothing but a directory has slots, no link count leaves its range.
THEOREM TypeCorrect == Spec => []TypeOK
<1>1. NameiInv => TypeOK
  <2> SUFFICES ASSUME NameiInv PROVE TypeOK
    OBVIOUS
  <2>1. ASSUME NEW d \in Ino
        PROVE  /\ kind[d] # "dir" => slots[d] = <<>>
               /\ Len(slots[d]) <= MaxSlots
               /\ \A j \in DOMAIN slots[d] : slots[d][j].ino \in Ino \cup {0}
    <3>1. slots[d] \in Seq(AnySlot)
          /\ IF kind[d] = "dir" THEN DirOK(d, slots[d]) ELSE slots[d] = <<>>
      BY DEF NameiInv, Slotted, Formed
    <3>2. \A j \in DOMAIN slots[d] : slots[d][j] \in AnySlot
      BY <3>1
    <3>4. \A j \in DOMAIN slots[d] : slots[d][j].ino \in Ino \cup {0}
      BY <3>2 DEF AnySlot
    <3>3. Len(slots[d]) <= MaxSlots
      BY <3>1, Sizes DEF DirOK
    <3> QED BY <3>1, <3>3, <3>4
  <2> QED BY <2>1 DEF NameiInv, Types, TypeOK
<1> QED BY <1>1, NameiAlways, PTL

\* cominix_add_link does not look behind the first free slot, and yet no
\* directory ever holds a name twice, unless a page that could not be read made
\* a lookup say that the name is not there.
THEOREM NamesUniqueCorrect == Spec => []NamesUnique
<1>1. NameiInv => NamesUnique
  <2> SUFFICES ASSUME NameiInv, NEW d \in Dirs \ blind,
                      NEW j \in Used(slots[d], {}), NEW k \in Used(slots[d], {}),
                      slots[d][j].name = slots[d][k].name
               PROVE  j = k
    BY DEF NamesUnique
  <2>1. d \in Ino /\ kind[d] = "dir"
    BY DEF Dirs, Live
  <2>2. slots[d] \in Seq(AnySlot) /\ Unique(slots[d])
    BY <2>1 DEF NameiInv, Slotted, Formed, Single
  <2>3. Holds(slots[d], j) /\ Holds(slots[d], k)
    BY <2>2, UsedSlots
  <2> QED BY <2>2, <2>3 DEF Unique, Holds
<1> QED BY <1>1, NameiAlways, PTL

\* At whatever step cominix_rename fails, the inode it found under the old name
\* still has a name in a directory that is there.
THEOREM RenameKeepsCorrect == Spec => []RenameKeeps
<1>1. NameiInv => RenameKeeps
  BY DEF NameiInv
<1> QED BY <1>1, NameiAlways, PTL

-----------------------------------------------------------------------------
(* Where the entries lead.                                                 *)

Place == Ino \X (1 .. MaxSlots)

\* The inode at each place of the directories L, when the slots are S.
AtOf(S, L) ==
  [p \in Place |-> IF p[1] \in L /\ p[2] <= Len(S[p[1]]) THEN S[p[1]][p[2]].ino ELSE 0]

at == AtOf(slots, Dirs)

\* The places that lead to inode i.
Of(A, i) == {p \in Place : A[p] = i}

LEMMA PlaceIn ==
  ASSUME NEW d \in Ino, NEW j, j \in 1 .. MaxSlots
  PROVE  <<d, j>> \in Place /\ <<d, j>>[1] = d /\ <<d, j>>[2] = j
  BY DEF Place

LEMMA OfFinite ==
  ASSUME NEW A, NEW i
  PROVE  IsFiniteSet(Of(A, i)) /\ Cardinality(Of(A, i)) \in Nat
<1>1. IsFiniteSet(Ino) /\ IsFiniteSet(1 .. MaxSlots)
  BY NameiAssumption, FS_Interval
<1>2. IsFiniteSet(Place)
  BY <1>1, FS_Product DEF Place
<1>3. Of(A, i) \in SUBSET Place
  BY DEF Of
<1> QED BY <1>2, <1>3, FS_Subset, FS_CardinalityType

LEMMA PairCount ==
  ASSUME NEW a, NEW b, a # b
  PROVE  Cardinality({a, b}) = 2
<1>1. IsFiniteSet({a}) /\ Cardinality({a}) = 1
  BY FS_Singleton
<1>2. b \notin {a} /\ {a, b} = {a} \cup {b}
  OBVIOUS
<1> QED BY <1>1, <1>2, FS_AddElement

\* One more place leads to i.
More(A, B, i, p) ==
  /\ p \in Place /\ A[p] # i /\ B[p] = i
  /\ \A q \in Place : q # p => (B[q] = i <=> A[q] = i)

LEMMA OfMore ==
  ASSUME NEW A, NEW B, NEW i, NEW p, More(A, B, i, p)
  PROVE  Cardinality(Of(B, i)) = Cardinality(Of(A, i)) + 1
<1>1. Of(B, i) = Of(A, i) \cup {p} /\ p \notin Of(A, i)
  BY DEF Of, More
<1> QED BY <1>1, OfFinite, FS_AddElement

LEMMA OfSame ==
  ASSUME NEW A, NEW B, NEW i, \A q \in Place : B[q] = i <=> A[q] = i
  PROVE  Of(B, i) = Of(A, i)
  BY DEF Of

LEMMA AtPut ==
  ASSUME NEW S, NEW T, NEW L, NEW d, d \in L, NEW j, NEW x, Written(S, T, d, j, x)
  PROVE  /\ <<d, j>> \in Place
         /\ AtOf(T, L) = [AtOf(S, L) EXCEPT ![<<d, j>>] = x.ino]
<1> DEFINE t == T[d]
<1>0. /\ S \in [Ino -> Seq(AnySlot)] /\ d \in Ino /\ DirOK(d, t) /\ Put(S[d], t, j, x)
      /\ T = [S EXCEPT ![d] = t]
  BY DEF Written
<1> HIDE DEF t
<1> USE <1>0
<1>1. Len(S[d]) \in Nat /\ Len(t) \in Nat /\ Len(t) <= MaxSlots
  BY DEF DirOK
<1>2. j \in 1 .. MaxSlots /\ j <= Len(t)
  BY <1>1, Sizes DEF Put
<1>3. <<d, j>> \in Place
  BY <1>2, PlaceIn
<1>4. \A e \in Ino : T[e] = IF e = d THEN t ELSE S[e]
  OBVIOUS
<1>5. ASSUME NEW p \in Place
      PROVE  AtOf(T, L)[p] = IF p = <<d, j>> THEN x.ino ELSE AtOf(S, L)[p]
  <2>1. PICK e \in Ino, k \in 1 .. MaxSlots : p = <<e, k>>
    BY DEF Place
  <2>2. p[1] = e /\ p[2] = k
    BY <2>1
  <2>3. /\ AtOf(T, L)[p] = IF e \in L /\ k <= Len(T[e]) THEN T[e][k].ino ELSE 0
        /\ AtOf(S, L)[p] = IF e \in L /\ k <= Len(S[e]) THEN S[e][k].ino ELSE 0
    BY <2>2 DEF AtOf
  <2>4. CASE e # d
    BY <1>4, <2>1, <2>3, <2>4
  <2>5. CASE e = d /\ k = j
    BY <1>2, <1>4, <2>1, <2>3, <2>5 DEF Put
  <2>6. CASE e = d /\ k # j
    <3>1. k <= Len(t) <=> k <= Len(S[d])
      BY <1>1, <1>2, <2>6 DEF Put
    <3>2. k <= Len(S[d]) => t[k] = S[d][k]
      BY <1>1, <2>6 DEF Put
    <3> QED BY <1>4, <2>1, <2>3, <2>6, <3>1, <3>2
  <2> QED BY <2>4, <2>5, <2>6
<1>6. AtOf(T, L) = [p \in Place |-> AtOf(T, L)[p]] /\ AtOf(S, L) = [p \in Place |-> AtOf(S, L)[p]]
  BY DEF AtOf
<1>7. [AtOf(S, L) EXCEPT ![<<d, j>>] = x.ino] =
        [p \in Place |-> IF p = <<d, j>> THEN x.ino ELSE AtOf(S, L)[p]]
  BY <1>3, <1>6
<1> HIDE DEF Place
<1>8. AtOf(T, L) = [p \in Place |-> IF p = <<d, j>> THEN x.ino ELSE AtOf(S, L)[p]]
  BY <1>5, <1>6
<1> QED BY <1>3, <1>7, <1>8

\* A directory is taken out of the tree.
LEMMA AtDead ==
  ASSUME NEW i, Dirs' = Dirs \ {i}
  PROVE  \A p \in Place : at'[p] = IF p[1] = i THEN 0 ELSE AtOf(slots', Dirs)[p]
  BY DEF at, AtOf

\* What a place of a directory says.
LEMMA AtSlot ==
  ASSUME NEW S, NEW K, Formed(S, K), NEW L, NEW d \in Ino, d \in L, K[d] = "dir",
         NEW j \in 1 .. MaxSlots
  PROVE  /\ <<d, j>> \in Place
         /\ AtOf(S, L)[<<d, j>>] = IF Holds(S[d], j) THEN S[d][j].ino ELSE 0
<1>1. <<d, j>> \in Place /\ <<d, j>>[1] = d /\ <<d, j>>[2] = j
  BY PlaceIn
<1>2. AtOf(S, L)[<<d, j>>] = IF j <= Len(S[d]) THEN S[d][j].ino ELSE 0
  BY <1>1 DEF AtOf
<1>3. Len(S[d]) \in Nat
  BY DEF Formed, DirOK
<1> QED BY <1>1, <1>2, <1>3 DEF Holds

LEMMA AtShape ==
  ASSUME Types, Slotted
  PROVE  /\ at \in [Place -> Ino \cup {0}]
         /\ \A p \in Place : at[p] # 0 => p[1] \in Ino /\ Live(p[1])
         /\ \A d \in Ino : Live(d) => /\ at[<<d, 1>>] = d /\ at[<<d, 2>>] # 0
                                      /\ at[<<d, 2>>] = slots[d][2].ino
         /\ \A p \in Place : p[2] >= 3 /\ at[p] # 0 => at[p] # p[1]
<1>1. Dirs \subseteq Ino /\ \A d \in Ino : d \in Dirs <=> Live(d)
  BY DEF Dirs
<1>2. ASSUME NEW p \in Place
      PROVE  /\ at[p] \in Ino \cup {0} /\ (at[p] # 0 => p[1] \in Ino /\ Live(p[1]))
             /\ p[2] >= 3 /\ at[p] # 0 => at[p] # p[1]
  <2>1. PICK e \in Ino, k \in 1 .. MaxSlots : p = <<e, k>>
    BY DEF Place
  <2>2. p[1] = e /\ p[2] = k
    BY <2>1
  <2>3. CASE Live(e)
    <3>1. DirOK(e, slots[e]) /\ kind[e] = "dir" /\ slots[e] \in Seq(AnySlot)
      BY <2>3, LiveDir
    <3>2. at[p] = IF Holds(slots[e], k) THEN slots[e][k].ino ELSE 0
      BY <1>1, <2>1, <2>3, <3>1, AtSlot DEF at, Slotted
    <3>3. CASE ~ Holds(slots[e], k)
      BY <3>2, <3>3
    <3>4. CASE Holds(slots[e], k)
      <4>1. slots[e][k] \in AnySlot /\ k \in 1 .. Len(slots[e]) /\ at[p] = slots[e][k].ino
        BY <3>1, <3>2, <3>4 DEF Holds
      <4>2. at[p] \in Ino \cup {0}
        BY <4>1 DEF AnySlot
      <4>3. k >= 3 /\ at[p] # 0 => at[p] # e
        <5>1. Len(slots[e]) \in Nat
          BY <3>1
        <5>2. k >= 3 => k \in 3 .. Len(slots[e])
          BY <4>1, <5>1
        <5> QED BY <3>1, <4>1, <5>2 DEF DirOK
      <4> QED BY <2>2, <2>3, <4>2, <4>3
    <3> QED BY <3>3, <3>4
  <2>4. CASE ~ Live(e)
    <3>1. at[p] = 0
      BY <1>1, <2>2, <2>4 DEF at, AtOf
    <3> QED BY <3>1
  <2> QED BY <2>3, <2>4
<1>3. ASSUME NEW d \in Ino, Live(d)
      PROVE  at[<<d, 1>>] = d /\ at[<<d, 2>>] = slots[d][2].ino /\ at[<<d, 2>>] # 0
  <2>1. DirOK(d, slots[d]) /\ kind[d] = "dir"
    BY <1>3, LiveDir
  <2>2. Holds(slots[d], 1) /\ Holds(slots[d], 2) /\ slots[d][1].ino = d /\ slots[d][2].ino # 0
    BY <2>1 DEF DirOK, Holds
  <2>3. 1 \in 1 .. MaxSlots /\ 2 \in 1 .. MaxSlots
    BY Sizes
  <2> QED BY <1>1, <1>3, <2>1, <2>2, <2>3, AtSlot DEF at, Slotted
<1>4. at = [p \in Place |-> at[p]]
  BY DEF at, AtOf
<1>5. at \in [Place -> Ino \cup {0}]
  BY <1>2, <1>4
<1> QED BY <1>2, <1>3, <1>5

-----------------------------------------------------------------------------
(* The invariant of the links: an inode that is not torn is named as often *)
(* as it says, a directory by one place, and a dentry by the entry it is   *)
(* about.                                                                  *)

\* p is the one place, besides . and .., that leads to directory i, and .. of i
\* leads back.
Hung(A, i, p) ==
  /\ p \in Place /\ p[2] >= 3 /\ A[p] = i /\ A[<<i, 2>>] = p[1]
  /\ \A q \in Place : q[2] >= 3 /\ A[q] = i => q = p

Sound(i) ==
  /\ nlink[i] = Cardinality(Of(at, i))
  /\ i # Root /\ Live(i) => \E p \in Place : Hung(at, i, p)
  /\ i \in dead => \A p \in Place : at[p] = i => p[2] < 3

Has(S, d, n, i) == \E j \in 1 .. Len(S[d]) : S[d][j] = Slot(n, i)

Linked == \A i \in Ino \ torn : Sound(i)

Ends == /\ \A i \in Ino : kind[i] = "free" => nlink[i] = 0
        /\ \A i \in dead : kind[i] = "dir"

DentryTrue == \A d \in Ino, n \in Name :
                dcache[d][n] \in Ino \ torn => Has(slots, d, n, dcache[d][n])

LinkInv == Linked /\ Ends /\ DentryTrue

\* An inode that a step leaves alone.
Calm(i) ==
  /\ \A p \in Place : at'[p] = i <=> at[p] = i
  /\ nlink'[i] = nlink[i]
  /\ Live(i)' => Live(i) /\ at'[<<i, 2>>] = at[<<i, 2>>]
  /\ i \in dead' => i \in dead

LEMMA CalmSound ==
  ASSUME NEW i \in Ino, Sound(i), Calm(i)
  PROVE  Sound(i)'
<1>1. Of(at', i) = Of(at, i)
  BY OfSame DEF Calm
<1>2. ASSUME i # Root, Live(i)' PROVE \E p \in Place : Hung(at', i, p)
  <2>1. PICK p \in Place : Hung(at, i, p)
    BY <1>2 DEF Sound, Calm
  <2>2. Hung(at', i, p)
    BY <1>2, <2>1 DEF Hung, Calm
  <2> QED BY <2>2
<1>3. i \in dead' => \A p \in Place : at'[p] = i => p[2] < 3
  BY DEF Sound, Calm
<1> QED BY <1>1, <1>2, <1>3 DEF Sound, Calm

LEMMA LinkedStep ==
  ASSUME Linked, torn \subseteq torn',
         \A i \in Ino \ torn' : Calm(i) \/ Sound(i)'
  PROVE  Linked'
<1> SUFFICES ASSUME NEW i \in Ino \ torn' PROVE Sound(i)'
  BY DEF Linked
<1>1. Sound(i)
  BY DEF Linked
<1> QED BY <1>1, CalmSound

LEMMA TrueStep ==
  ASSUME NEW c, Dentries(c),
         \A d \in Ino, n \in Name : c[d][n] \in Ino \ torn' => Has(slots', d, n, c[d][n])
  PROVE  DentryTrue'
<1> SUFFICES ASSUME NEW d \in Ino, NEW n \in Name, dcache'[d][n] \in Ino \ torn'
             PROVE  Has(slots', d, n, dcache'[d][n])
  BY DEF DentryTrue
<1>1. dcache'[d][n] = Fresh \/ dcache'[d][n] = c[d][n]
  BY DEF Dentries, Differing
<1>2. dcache'[d][n] # Fresh
  BY Sizes
<1> QED BY <1>1, <1>2

\* An entry that a change does not write stays.
LEMMA HasPut ==
  ASSUME NEW S, NEW T, NEW d, NEW j, NEW x, Written(S, T, d, j, x),
         NEW e \in Ino, NEW n, NEW i, Has(S, e, n, i), i # 0,
         e = d /\ Holds(S[d], j) => S[d][j] # Slot(n, i)
  PROVE  Has(T, e, n, i)
<1>0. S \in [Ino -> Seq(AnySlot)] /\ T = [S EXCEPT ![d] = T[d]] /\ Put(S[d], T[d], j, x)
  BY DEF Written
<1>1. PICK k \in 1 .. Len(S[e]) : S[e][k] = Slot(n, i)
  BY DEF Has
<1>2. e # d => T[e] = S[e]
  BY <1>0
<1>3. CASE e # d
  BY <1>1, <1>2, <1>3 DEF Has
<1>4. CASE e = d
  <2>1. Len(S[d]) \in Nat
    BY <1>0, <1>4
  <2>2. k # j
    BY <1>1, <1>4 DEF Holds, Slot
  <2>3. k \in 1 .. Len(T[d]) /\ T[d][k] = Slot(n, i)
    BY <1>0, <1>1, <1>4, <2>1, <2>2 DEF Put
  <2> QED BY <1>4, <2>3 DEF Has
<1> QED BY <1>3, <1>4

\* Place <<d, j>> leads to i under the name n.
Leads(d, j, n, i) ==
  /\ j \in 3 .. MaxSlots /\ Holds(slots[d], j) /\ slots[d][j] = Slot(n, i)
  /\ <<d, j>> \in Place /\ at[<<d, j>>] = i

\* An inode that is not torn, and that a dentry leads to, has that name.
LEMMA LookupTrue ==
  ASSUME NameiInv, LinkInv, NEW d \in Ino, NEW n \in Name, Live(d), NEW i \in Ino,
         i = Lookup(d, n), i \notin torn
  PROVE  Has(slots, d, n, i) /\ i \notin dead /\ \E j : Leads(d, j, n, i)
<1>0. Types /\ Slotted /\ Dentry /\ Linked /\ DentryTrue
  BY DEF NameiInv, LinkInv
<1>1. DirOK(d, slots[d]) /\ slots[d] \in Seq(AnySlot) /\ kind[d] = "dir"
  BY <1>0, LiveDir
<1>2. Has(slots, d, n, i)
  <2>1. CASE dcache[d][n] # Fresh
    BY <1>0, <2>1 DEF Lookup, DentryTrue
  <2>2. CASE dcache[d][n] = Fresh
    <3>1. i = inode_by_name(slots[d], n, {}) /\ i # 0
      BY <2>2, Sizes DEF Lookup
    <3>2. PICK j \in 1 .. Len(slots[d]) :
                 Holds(slots[d], j) /\ slots[d][j].name = n /\ slots[d][j].ino = i
      BY <1>1, <3>1, ByName
    <3>3. slots[d][j] = Slot(n, i)
      <4>1. slots[d][j] \in AnySlot
        BY <1>1, <3>2
      <4> QED BY <3>2, <4>1 DEF AnySlot, Slot
    <3> QED BY <3>2, <3>3 DEF Has
  <2> QED BY <2>1, <2>2
<1>3. PICK j \in 1 .. Len(slots[d]) : slots[d][j] = Slot(n, i)
  BY <1>2 DEF Has
<1>4. slots[d][j].name = n /\ slots[d][j].ino = i /\ i # 0
  BY <1>3, Sizes DEF Slot
<1>5. Holds(slots[d], j)
  BY <1>4 DEF Holds
<1>6. j \in 3 .. Len(slots[d])
  BY <1>1, <1>4, <1>5, NotDots
<1>7. j \in 3 .. MaxSlots /\ j \in 1 .. MaxSlots
  <2>1. Len(slots[d]) \in Nat /\ Len(slots[d]) <= MaxSlots /\ MaxSlots \in Nat
    BY <1>1, Sizes DEF DirOK
  <2> QED BY <1>6, <2>1
<1>8. <<d, j>> \in Place /\ at[<<d, j>>] = i
  <2>1. d \in Dirs
    BY DEF Dirs
  <2> QED BY <1>0, <1>1, <1>4, <1>5, <1>7, <2>1, AtSlot DEF at, Slotted
<1>9. i \notin dead
  <2>1. <<d, j>>[2] = j
    OBVIOUS
  <2> QED BY <1>0, <1>7, <1>8, <2>1 DEF Linked, Sound
<1> QED BY <1>2, <1>3, <1>5, <1>7, <1>8, <1>9 DEF Leads

\* A directory that is not torn has no other name.
LEMMA DirNamed ==
  ASSUME NameiInv, LinkInv, NEW d \in Ino, NEW n \in Name, Live(d), NEW i \in Ino,
         i = Lookup(d, n), i \notin torn, kind[i] = "dir", i # Root
  PROVE  /\ Live(i) /\ at[<<i, 2>>] = d
         /\ \A q \in Place : q[2] >= 3 /\ at[q] = i => q[1] = d /\ Leads(d, q[2], n, i)
<1>0. Linked
  BY DEF LinkInv
<1>1. i \notin dead /\ \E j : Leads(d, j, n, i)
  BY LookupTrue
<1>2. PICK j : Leads(d, j, n, i)
  BY <1>1
<1>3. Live(i)
  BY <1>1 DEF Live
<1>4. PICK p \in Place : Hung(at, i, p)
  BY <1>0, <1>3 DEF Linked, Sound
<1>5. <<d, j>>[1] = d /\ <<d, j>>[2] = j /\ j >= 3
  BY <1>2 DEF Leads
<1>6. p = <<d, j>>
  BY <1>2, <1>4, <1>5 DEF Hung, Leads
<1> QED BY <1>2, <1>3, <1>4, <1>5, <1>6 DEF Hung

-----------------------------------------------------------------------------
(* The steps that change no entry, and the end of an inode.                *)

LEMMA AtSame ==
  ASSUME slots' = slots, \A i \in Ino : Live(i)' <=> Live(i)
  PROVE  at' = at
<1>1. Dirs' = Dirs
  BY DEF Dirs
<1> QED BY <1>1 DEF at, AtOf

LEMMA CalmAll ==
  ASSUME Linked, torn \subseteq torn', at' = at, dead' \subseteq dead,
         \A i \in Ino : nlink'[i] = nlink[i] /\ (Live(i)' => Live(i))
  PROVE  Linked'
<1>1. \A i \in Ino : Calm(i)
  BY DEF Calm
<1> QED BY <1>1, LinkedStep

LEMMA FoundHas ==
  ASSUME Slotted, NEW d \in Ino, NEW n, NEW bad, NEW i, i = inode_by_name(slots[d], n, bad),
         i # 0
  PROVE  Has(slots, d, n, i)
<1>1. slots[d] \in Seq(AnySlot)
  BY DEF Slotted, Formed
<1>2. PICK j \in 1 .. Len(slots[d]) :
             Holds(slots[d], j) /\ slots[d][j].name = n /\ slots[d][j].ino = i
  BY <1>1, ByName
<1>3. slots[d][j] \in AnySlot
  BY <1>1, <1>2
<1>4. slots[d][j] = Slot(n, i)
  BY <1>2, <1>3 DEF AnySlot, Slot
<1> QED BY <1>2, <1>4 DEF Has

LEMMA LookupBlindLinks ==
  ASSUME NameiInv, LinkInv, NEW d \in Ino, NEW n \in Name, NEW p \in Page,
         LookupBlind(d, n, p)
  PROVE  LinkInv'
<1> DEFINE i == inode_by_name(slots[d], n, {p})
           c == [dcache EXCEPT ![d][n] = i]
<1>0. Types /\ Slotted /\ Linked /\ Ends /\ DentryTrue
  BY DEF NameiInv, LinkInv
<1>1. /\ slots' = slots /\ Dentries(c)
      /\ UNCHANGED <<kind, nlink, dead, tmp, torn, lost>>
  BY DEF LookupBlind
<1>2. \A k \in Ino : Live(k)' <=> Live(k)
  BY <1>1 DEF Live
<1>3. at' = at
  BY <1>1, <1>2, AtSame
<1>4. Linked'
  BY <1>0, <1>1, <1>2, <1>3, CalmAll
<1>5. Ends'
  BY <1>0, <1>1 DEF Ends
<1>6. i # 0 => Has(slots, d, n, i)
  BY <1>0, FoundHas
<1> HIDE DEF i
<1>7. \A e \in Ino, m \in Name : c[e][m] \in Ino \ torn' => Has(slots', e, m, c[e][m])
  BY <1>0, <1>1, <1>6, Sizes DEF Types, DentryTrue
<1> HIDE DEF c
<1>8. DentryTrue'
  BY <1>1, <1>7, TrueStep
<1> QED BY <1>4, <1>5, <1>8 DEF LinkInv

LEMMA DropDentryLinks ==
  ASSUME NameiInv, LinkInv, NEW d \in Ino, NEW n \in Name, DropDentry(d, n)
  PROVE  LinkInv'
<1>0. Types /\ Linked /\ Ends /\ DentryTrue
  BY DEF NameiInv, LinkInv
<1>1. /\ dcache' = [dcache EXCEPT ![d][n] = Fresh]
      /\ UNCHANGED <<kind, nlink, slots, dead, tmp, faults, torn, blind, lost>>
  BY DEF DropDentry
<1>2. \A k \in Ino : Live(k)' <=> Live(k)
  BY <1>1 DEF Live
<1>3. at' = at
  BY <1>1, <1>2, AtSame
<1>4. Linked'
  BY <1>0, <1>1, <1>2, <1>3, CalmAll
<1>5. Ends'
  BY <1>0, <1>1 DEF Ends
<1>6. DentryTrue'
  BY <1>0, <1>1, Sizes DEF Types, DentryTrue
<1> QED BY <1>4, <1>5, <1>6 DEF LinkInv

LEMMA TmpfileLinks ==
  ASSUME NameiInv, LinkInv, Tmpfile
  PROVE  LinkInv'
<1>0. Types /\ Linked /\ Ends /\ DentryTrue
  BY DEF NameiInv, LinkInv
<1>1. /\ kind' = [kind EXCEPT ![NewIno] = "file"]
      /\ UNCHANGED <<nlink, slots, dead, dcache, faults, torn, blind, lost>>
  BY DEF Tmpfile
<1>2. NewIno \in Ino /\ kind[NewIno] = "free"
  BY <1>0, FreshInode DEF Tmpfile
<1>3. \A k \in Ino : Live(k)' <=> Live(k)
  BY <1>0, <1>1, <1>2 DEF Live, Types
<1>4. at' = at
  BY <1>1, <1>3, AtSame
<1>5. Linked'
  BY <1>0, <1>1, <1>3, <1>4, CalmAll
<1>6. Ends'
  BY <1>0, <1>1, <1>2 DEF Ends, Types
<1>7. DentryTrue'
  BY <1>0, <1>1 DEF DentryTrue
<1> QED BY <1>5, <1>6, <1>7 DEF LinkInv

\* The places in a directory lead to itself, to the one above, or inside.
LEMMA InDir ==
  ASSUME Types, Slotted, NEW i \in Ino, Live(i), NEW p \in Place, p[1] = i, at[p] # 0
  PROVE  /\ p[2] \in 1 .. MaxSlots
         /\ p[2] < 3 => (p = <<i, 1>> /\ at[p] = i) \/ (p = <<i, 2>> /\ Up(i) = {at[p]})
         /\ p[2] >= 3 => at[p] \in Inside(i)
<1>1. PICK k \in 1 .. MaxSlots : p = <<i, k>>
  BY DEF Place
<1>2. p[2] = k /\ k \in Nat /\ k >= 1
  BY <1>1
<1>3. DirOK(i, slots[i]) /\ kind[i] = "dir" /\ slots[i] \in Seq(AnySlot)
  BY LiveDir
<1>4. at[<<i, 1>>] = i /\ at[<<i, 2>>] = slots[i][2].ino
  BY AtShape
<1>5. Up(i) = {slots[i][2].ino}
  BY <1>3 DEF Up
<1>6. CASE k < 3
  <2>1. k = 1 \/ k = 2
    BY <1>2, <1>6
  <2> QED BY <1>1, <1>2, <1>4, <1>5, <1>6, <2>1
<1>7. CASE k >= 3
  <2>1. Holds(slots[i], k) /\ at[p] = slots[i][k].ino
    <3>1. i \in Dirs
      BY DEF Dirs
    <3>2. at[<<i, k>>] = IF Holds(slots[i], k) THEN slots[i][k].ino ELSE 0
      BY <1>3, <3>1, AtSlot DEF at, Slotted
    <3> QED BY <1>1, <3>2
  <2>2. k \in 3 .. Len(slots[i])
    BY <1>2, <1>3, <1>7, <2>1 DEF Holds
  <2>3. slots[i][k].name \in Name
    BY <1>3, <2>1, <2>2 DEF DirOK, Holds
  <2>4. k \in Used(slots[i], {})
    BY <1>3, <2>1, UsedSlots
  <2>5. at[p] \in Inside(i)
    BY <2>1, <2>3, <2>4 DEF Inside
  <2> QED BY <1>2, <1>7, <2>5
<1> QED BY <1>2, <1>6, <1>7

\* cominix_empty_dir that could read every page is right.
LEMMA EmptyInside ==
  ASSUME Types, Slotted, NEW i \in Ino, Live(i), empty_dir(slots[i], i, {}),
         NEW p \in Place, p[1] = i, p[2] >= 3
  PROVE  at[p] = 0
<1> SUFFICES ASSUME at[p] # 0 PROVE FALSE
  OBVIOUS
<1>1. at[p] \in Inside(i)
  BY InDir
<1>2. PICK j \in Used(slots[i], {}) : slots[i][j].name \in Name
  BY <1>1 DEF Inside
<1> QED BY <1>2, Sizes DEF empty_dir

LEMMA EvictLinks ==
  ASSUME NameiInv, LinkInv, NEW i \in Ino, Evict(i)
  PROVE  LinkInv'
<1> DEFINE c == [dcache EXCEPT ![i] = [n \in Name |-> Fresh]]
<1>0. Types /\ Slotted /\ Linked /\ Ends /\ DentryTrue
  BY DEF NameiInv, LinkInv
<1>1. /\ kind' = [kind EXCEPT ![i] = "free"] /\ slots' = [slots EXCEPT ![i] = <<>>]
      /\ dead' = dead \ {i} /\ Dentries(c) /\ nlink[i] = 0 /\ nlink' = nlink
      /\ torn' = IF i \in torn \ dead THEN torn \cup Inside(i) \cup Up(i) ELSE torn
  BY DEF Evict, truncated
<1>2. \A k \in Ino : Live(k)' <=> Live(k) /\ k # i
  BY <1>0, <1>1 DEF Types, Live
<1>3. Dirs' = Dirs \ {i}
  BY <1>2 DEF Dirs
<1>4. \A k \in Ino : k # i => slots'[k] = slots[k]
  BY <1>0, <1>1 DEF Slotted, Formed
<1>5. \A p \in Place : at'[p] = IF p[1] = i THEN 0 ELSE at[p]
  BY <1>3, <1>4 DEF at, AtOf, Place
<1>6. \A k \in Ino \ torn' : Calm(k)
  <2> SUFFICES ASSUME NEW k \in Ino \ torn' PROVE Calm(k)
    OBVIOUS
  <2>1. \A p \in Place : at[p] # 0 => Live(p[1])
    BY <1>0, AtShape
  <2>2. ASSUME NEW p \in Place, p[1] = i PROVE at[p] # k
    <3> SUFFICES ASSUME at[p] = k PROVE FALSE
      OBVIOUS
    <3>1. k # 0 /\ Live(i)
      BY <2>1, <2>2, Sizes
    <3>2. CASE i \notin torn
      <4>1. <<i, 1>> \in Place
        BY PlaceIn, Sizes
      <4>2. at[<<i, 1>>] = i
        BY <1>0, <3>1, AtShape
      <4>3. Of(at, i) # {} /\ IsFiniteSet(Of(at, i))
        BY <4>1, <4>2, OfFinite DEF Of
      <4>4. Cardinality(Of(at, i)) # 0
        BY <4>3, FS_EmptySet
      <4> QED BY <1>0, <1>1, <3>2, <4>4 DEF Linked, Sound
    <3>3. CASE i \in torn
      <4>1. torn' = torn \cup Inside(i) \cup Up(i)
        BY <1>1, <3>1, <3>3 DEF Live
      <4>2. k = i \/ Up(i) = {k} \/ k \in Inside(i)
        <5>1. p[2] \in 1 .. MaxSlots /\ p[2] \in Nat
          BY <1>0, <2>2, <3>1, InDir
        <5>2. p[2] < 3 => at[p] = i \/ Up(i) = {at[p]}
          BY <1>0, <2>2, <3>1, InDir
        <5>3. p[2] >= 3 => at[p] \in Inside(i)
          BY <1>0, <2>2, <3>1, InDir
        <5> QED BY <5>1, <5>2, <5>3
      <4> QED BY <3>3, <4>1, <4>2
    <3> QED BY <3>2, <3>3
  <2>3. \A p \in Place : at'[p] = k <=> at[p] = k
    <3>1. k # 0
      BY Sizes
    <3> QED BY <1>5, <2>2, <3>1
  <2>4. Live(k)' => Live(k) /\ at'[<<k, 2>>] = at[<<k, 2>>]
    <3>1. <<k, 2>> \in Place /\ <<k, 2>>[1] = k
      BY PlaceIn, Sizes
    <3> QED BY <1>2, <1>5, <3>1
  <2> QED BY <1>1, <2>3, <2>4 DEF Calm
<1>7. Linked'
  BY <1>0, <1>1, <1>6, LinkedStep
<1>8. Ends'
  BY <1>0, <1>1 DEF Ends, Types
<1>9. \A d \in Ino, n \in Name : c[d][n] \in Ino \ torn' => Has(slots', d, n, c[d][n])
  <2> SUFFICES ASSUME NEW d \in Ino, NEW n \in Name, c[d][n] \in Ino \ torn'
               PROVE  Has(slots', d, n, c[d][n])
    OBVIOUS
  <2>1. d # i /\ c[d][n] = dcache[d][n]
    BY <1>0, Sizes DEF Types
  <2>2. c[d][n] \notin torn
    BY <1>1
  <2> QED BY <1>0, <1>4, <2>1, <2>2 DEF DentryTrue, Has
<1> HIDE DEF c
<1>10. DentryTrue'
  BY <1>1, <1>9, TrueStep
<1> QED BY <1>7, <1>8, <1>10 DEF LinkInv

-----------------------------------------------------------------------------
(* Adding a name.                                                          *)

LEMMA OutcomeTorn ==
  ASSUME NEW f, NEW wrote, NEW err, NEW is, NEW ds, Outcome(f, wrote, err, is, ds)
  PROVE  /\ torn \subseteq torn'
         /\ wrote /\ (err \/ is \cap torn # {}) => is \ {0} \subseteq torn'
         /\ wrote /\ is \cap torn # {} => ds \subseteq torn'
         /\ ~ wrote => torn' = torn
  BY DEF Outcome

LEMMA Counts ==
  ASSUME NEW x \in 0 .. (LinkWrap - 1)
  PROVE  /\ x # LinkWrap - 1 => inc(x) = x + 1
         /\ x # 0 => dec(x) = x - 1
         /\ dec(inc(x)) = x
<1>1. LinkWrap \in Nat /\ 2 < LinkWrap /\ x \in Nat /\ x <= LinkWrap - 1
  BY Sizes
<1>2. x # LinkWrap - 1 => inc(x) = x + 1
  BY <1>1 DEF inc
<1>3. x # 0 => dec(x) = x - 1
  BY <1>1 DEF dec
<1>4. dec(inc(x)) = x
  <2>1. CASE x = LinkWrap - 1
    <3>1. inc(x) = 0
      BY <1>1, <2>1 DEF inc
    <3>2. dec(0) = LinkWrap - 1
      BY <1>1 DEF dec
    <3> QED BY <2>1, <3>1, <3>2
  <2>2. CASE x # LinkWrap - 1
    <3>1. inc(x) = x + 1
      BY <1>2, <2>2
    <3>2. dec(x + 1) = x
      BY <1>1, <2>2 DEF dec
    <3> QED BY <3>1, <3>2
  <2> QED BY <2>1, <2>2
<1> QED BY <1>2, <1>3, <1>4

\* What mknod and link do when r is the result of cominix_add_link.
AddStep(d, n, i, r) ==
  /\ slots' = [slots EXCEPT ![d] = r.dir]
  /\ dead' = dead /\ \A k \in Ino : Live(k)' <=> Live(k)
  /\ \A k \in Ino : nlink'[k] = IF k = i /\ ~ r.err THEN nlink[k] + 1 ELSE nlink[k]
  /\ Dentries([dcache EXCEPT ![d][n] = IF r.err THEN 0 ELSE i])
  /\ torn \subseteq torn' /\ (slots' # slots /\ r.err => i \in torn')

LEMMA AddLinks ==
  ASSUME NameiInv, LinkInv, NEW d \in Ino, NEW n \in Name, CanCreate(d, n),
         NEW i \in Ino, i # d, kind[i] # "dir", NEW bad, NEW how,
         NEW r, r = add_link(slots[d], n, i, bad, how), AddStep(d, n, i, r)
  PROVE  Linked' /\ DentryTrue'
<1>0. Types /\ Slotted /\ Single /\ Dentry /\ Linked /\ Ends /\ DentryTrue
  BY DEF NameiInv, LinkInv
<1>1. /\ slots' = [slots EXCEPT ![d] = r.dir]
      /\ dead' = dead /\ \A k \in Ino : Live(k)' <=> Live(k)
      /\ \A k \in Ino : nlink'[k] = IF k = i /\ ~ r.err THEN nlink[k] + 1 ELSE nlink[k]
      /\ Dentries([dcache EXCEPT ![d][n] = IF r.err THEN 0 ELSE i])
      /\ torn \subseteq torn' /\ (slots' # slots /\ r.err => i \in torn')
  BY DEF AddStep
<1>2. Live(d) /\ kind[d] = "dir" /\ d \in Dirs /\ Formed(slots, kind) /\ i # 0
  BY <1>0, Sizes DEF CanCreate, Live, Dirs, Slotted
<1>3. PICK j \in 3 .. (Len(slots[d]) + 1) :
             ~ Holds(slots[d], j) /\ Changed(d, slots[d], r, j, Slot(n, i))
  BY <1>0, Added
<1> DEFINE c == [dcache EXCEPT ![d][n] = IF r.err THEN 0 ELSE i]
<1>4. ASSUME NEW e \in Ino, NEW m \in Name, c[e][m] \in Ino \ torn'
      PROVE  \/ e = d /\ m = n /\ c[e][m] = i /\ ~ r.err
             \/ c[e][m] = dcache[e][m] /\ Has(slots, e, m, c[e][m]) /\ c[e][m] # 0
  <2>1. c[e][m] # 0 /\ c[e][m] \notin torn
    BY <1>1, <1>4, Sizes
  <2>2. \/ e = d /\ m = n /\ c[e][m] = i /\ ~ r.err
        \/ c[e][m] = dcache[e][m]
    BY <1>0, <2>1 DEF Types
  <2> QED BY <1>0, <1>4, <2>1, <2>2 DEF DentryTrue
<1>5. CASE r.dir = slots[d] /\ r.err
  <2>1. slots' = slots /\ \A k \in Ino : nlink'[k] = nlink[k]
    BY <1>1, <1>2, <1>5 DEF Formed
  <2>2. Linked'
    BY <1>0, <1>1, <2>1, AtSame, CalmAll
  <2>3. \A e \in Ino, m \in Name : c[e][m] \in Ino \ torn' => Has(slots', e, m, c[e][m])
    BY <1>4, <1>5, <2>1
  <2> HIDE DEF c
  <2>4. DentryTrue'
    BY <1>1, <2>3, TrueStep DEF c
  <2> QED BY <2>2, <2>4
<1>6. CASE Put(slots[d], r.dir, j, Slot(n, i))
  <2>1. DirOK(d, r.dir) /\ Slot(n, i).ino = i
    BY <1>3 DEF Changed, Slot
  <2>a. Written(slots, slots', d, j, Slot(n, i))
    BY <1>1, <1>2, <1>6, <2>1 DEF Formed, Written
  <2>2. <<d, j>> \in Place /\ at' = [at EXCEPT ![<<d, j>>] = i]
    <3>1. Dirs' = Dirs
      BY <1>1 DEF Dirs
    <3>2. /\ <<d, j>> \in Place
          /\ AtOf(slots', Dirs) = [AtOf(slots, Dirs) EXCEPT ![<<d, j>>] = Slot(n, i).ino]
      BY <1>2, <2>a, AtPut
    <3> QED BY <2>1, <3>1, <3>2 DEF at
  <2>3. j \in 1 .. MaxSlots /\ j >= 3
    BY <1>3, <2>2 DEF Place
  <2>4. at[<<d, j>>] = 0
    BY <1>2, <1>3, <2>3, AtSlot DEF at
  <2>5. at \in [Place -> Ino \cup {0}]
    BY <1>0, AtShape
  <2>6. \A p \in Place : at'[p] = IF p = <<d, j>> THEN i ELSE at[p]
    BY <2>2, <2>5
  <2>7. slots'[d] = r.dir /\ Holds(slots'[d], j) /\ slots'[d][j] = Slot(n, i)
    <3>1. slots'[d] = r.dir
      BY <1>1, <1>2 DEF Formed
    <3>2. Len(slots[d]) \in Nat
      BY <1>2 DEF Formed
    <3>3. j \in 1 .. Len(r.dir) /\ r.dir[j] = Slot(n, i)
      BY <1>3, <1>6, <3>2 DEF Put
    <3> QED BY <1>2, <2>1, <3>1, <3>3 DEF Holds
  <2>8. r.err => i \in torn'
    BY <1>1, <1>3, <2>7
  <2>9. \A k \in Ino \ torn' : Calm(k) \/ Sound(k)'
    <3> SUFFICES ASSUME NEW k \in Ino \ torn' PROVE Calm(k) \/ Sound(k)'
      OBVIOUS
    <3>1. k # 0
      BY Sizes
    <3>2. CASE k # i
      <4>1. \A p \in Place : at'[p] = k <=> at[p] = k
        BY <2>4, <2>6, <3>1, <3>2
      <4>2. <<k, 2>> \in Place /\ <<k, 2>> # <<d, j>>
        <5>1. <<k, 2>> \in Place
          BY PlaceIn, Sizes
        <5>2. j # 2
          BY <2>3
        <5> QED BY <5>1, <5>2
      <4>3. at'[<<k, 2>>] = at[<<k, 2>>]
        BY <2>6, <4>2
      <4> QED BY <1>1, <3>2, <4>1, <4>3 DEF Calm
    <3>3. CASE k = i
      <4>1. ~ r.err /\ i \notin torn
        BY <1>1, <2>8, <3>3
      <4>2. nlink[i] = Cardinality(Of(at, i))
        BY <1>0, <4>1 DEF Linked, Sound
      <4>3. Cardinality(Of(at', i)) = Cardinality(Of(at, i)) + 1
        <5>1. at[<<d, j>>] # i /\ at'[<<d, j>>] = i
          BY <1>2, <2>2, <2>4, <2>6
        <5>2. \A q \in Place : q # <<d, j>> => (at'[q] = i <=> at[q] = i)
          BY <2>6
        <5>3. More(at, at', i, <<d, j>>)
          BY <2>2, <5>1, <5>2 DEF More
        <5> QED BY <5>3, OfMore
      <4>4. nlink'[i] = nlink[i] + 1
        BY <1>1, <4>1
      <4>5. ~ Live(i)' /\ i \notin dead'
        BY <1>0, <1>1 DEF Live, Ends
      <4> QED BY <3>3, <4>2, <4>3, <4>4, <4>5 DEF Sound
    <3> QED BY <3>2, <3>3
  <2>10. Linked'
    BY <1>0, <1>1, <2>9, LinkedStep
  <2>11. ASSUME NEW e \in Ino, NEW m \in Name, c[e][m] \in Ino \ torn'
         PROVE  Has(slots', e, m, c[e][m])
    <3>1. CASE e = d /\ m = n /\ c[e][m] = i /\ ~ r.err
      BY <2>7, <3>1 DEF Has, Holds
    <3>2. CASE Has(slots, e, m, c[e][m]) /\ c[e][m] # 0
      <4>1. PICK v : v = c[e][m]
        OBVIOUS
      <4>2. Has(slots, e, m, v) /\ v # 0
        BY <3>2, <4>1
      <4>3. Has(slots', e, m, v)
        BY <1>3, <2>a, <4>2, HasPut
      <4> QED BY <4>1, <4>3
    <3> QED BY <1>4, <2>11, <3>1, <3>2
  <2> HIDE DEF c
  <2>12. DentryTrue'
    BY <1>1, <2>11, TrueStep DEF c
  <2> QED BY <2>10, <2>12
<1> QED BY <1>3, <1>5, <1>6 DEF Changed

LEMMA MknodLinks ==
  ASSUME NameiInv, LinkInv, NEW d \in Ino, NEW n \in Name, Mknod(d, n)
  PROVE  LinkInv'
<1> DEFINE i == NewIno
<1>0. Types /\ Slotted /\ Ends
  BY DEF NameiInv, LinkInv
<1>1. CanCreate(d, n) /\ i \in Ino /\ kind[i] = "free" /\ kind[d] = "dir" /\ i # d
  BY <1>0, FreshInode DEF Mknod, CanCreate, Live
<1>a. PICK f \in Fault({1}, {1}) :
        LET r == add_link(slots[d], n, i, Bad(f, 1), How(f, 1))
        IN /\ slots' = [slots EXCEPT ![d] = r.dir]
           /\ nlink' = add_nondir([nlink EXCEPT ![i] = 1], i, r.err)
           /\ kind' = [kind EXCEPT ![i] = IF r.err THEN "free" ELSE "file"]
           /\ Dentries([dcache EXCEPT ![d][n] = IF r.err THEN 0 ELSE i])
           /\ Outcome(f, slots' # slots, r.err, {i}, {})
  BY Zenon DEF Mknod, i
<1> HIDE DEF i
<1>b. PICK r : r = add_link(slots[d], n, i, Bad(f, 1), How(f, 1))
  OBVIOUS
<1>2. /\ slots' = [slots EXCEPT ![d] = r.dir]
      /\ nlink' = add_nondir([nlink EXCEPT ![i] = 1], i, r.err)
      /\ kind' = [kind EXCEPT ![i] = IF r.err THEN "free" ELSE "file"]
      /\ Dentries([dcache EXCEPT ![d][n] = IF r.err THEN 0 ELSE i])
      /\ Outcome(f, slots' # slots, r.err, {i}, {})
  BY <1>a, <1>b, Zenon
<1>3. dead' = dead
  BY DEF Mknod
<1>4. \A k \in Ino : Live(k)' <=> Live(k)
  BY <1>0, <1>1, <1>2, <1>3 DEF Live, Types
<1>5. \A k \in Ino : nlink'[k] = IF k = i THEN (IF r.err THEN 0 ELSE 1) ELSE nlink[k]
  <2>1. dec(1) = 0
    <3>1. 1 \in 0 .. (LinkWrap - 1)
      BY Sizes
    <3> QED BY <3>1, Counts
  <2> QED BY <1>0, <1>1, <1>2, <2>1 DEF add_nondir, Types
<1>6. nlink[i] = 0
  BY <1>0, <1>1 DEF Ends
<1>7. torn \subseteq torn' /\ (slots' # slots /\ r.err => i \in torn')
  <2>1. i \in {i} \ {0}
    BY <1>1, Sizes
  <2> QED BY <1>2, <2>1, OutcomeTorn
<1>8. AddStep(d, n, i, r)
  <2>1. \A k \in Ino : nlink'[k] = IF k = i /\ ~ r.err THEN nlink[k] + 1 ELSE nlink[k]
    BY <1>5, <1>6
  <2> QED BY <1>2, <1>3, <1>4, <1>7, <2>1 DEF AddStep
<1>9. Linked' /\ DentryTrue'
  BY <1>1, <1>b, <1>8, AddLinks
<1>10. Ends'
  BY <1>0, <1>1, <1>2, <1>3, <1>5 DEF Ends, Types
<1> QED BY <1>9, <1>10 DEF LinkInv

LEMMA LinkLinks ==
  ASSUME NameiInv, LinkInv, NEW i \in Ino, NEW d \in Ino, NEW n \in Name, Link(i, d, n)
  PROVE  LinkInv'
<1>0. Types /\ Slotted /\ Ends
  BY DEF NameiInv, LinkInv
<1>1. CanCreate(d, n) /\ kind[i] = "file" /\ kind[d] = "dir" /\ i # d /\ nlink[i] < MaxLinks
  BY DEF Link, CanCreate, Live
<1>a. PICK f \in Fault({1}, {1}) :
        LET r == add_link(slots[d], n, i, Bad(f, 1), How(f, 1))
        IN /\ slots' = [slots EXCEPT ![d] = r.dir]
           /\ nlink' = add_nondir([nlink EXCEPT ![i] = inc(@)], i, r.err)
           /\ tmp' = IF r.err THEN tmp ELSE tmp \ {i}
           /\ Dentries([dcache EXCEPT ![d][n] = IF r.err THEN 0 ELSE i])
           /\ Outcome(f, slots' # slots, r.err, {i}, {})
  BY Zenon DEF Link
<1>b. PICK r : r = add_link(slots[d], n, i, Bad(f, 1), How(f, 1))
  OBVIOUS
<1>2. /\ slots' = [slots EXCEPT ![d] = r.dir]
      /\ nlink' = add_nondir([nlink EXCEPT ![i] = inc(@)], i, r.err)
      /\ Dentries([dcache EXCEPT ![d][n] = IF r.err THEN 0 ELSE i])
      /\ Outcome(f, slots' # slots, r.err, {i}, {})
  BY <1>a, <1>b, Zenon
<1>3. kind' = kind /\ dead' = dead
  BY DEF Link
<1>4. \A k \in Ino : Live(k)' <=> Live(k)
  BY <1>3 DEF Live
<1>5. \A k \in Ino : nlink'[k] = IF k = i /\ ~ r.err THEN nlink[k] + 1 ELSE nlink[k]
  <2>1. inc(nlink[i]) = nlink[i] + 1 /\ dec(inc(nlink[i])) = nlink[i]
    <3>1. nlink[i] \in 0 .. (LinkWrap - 1)
      BY <1>0 DEF Types
    <3>2. nlink[i] # LinkWrap - 1
      BY <1>1, <3>1, NameiAssumption
    <3> QED BY <3>1, <3>2, Counts
  <2> QED BY <1>0, <1>2, <2>1 DEF add_nondir, Types
<1>6. torn \subseteq torn' /\ (slots' # slots /\ r.err => i \in torn')
  <2>1. i \in {i} \ {0}
    BY <1>1, Sizes
  <2> QED BY <1>2, <2>1, OutcomeTorn
<1>7. AddStep(d, n, i, r)
  BY <1>2, <1>3, <1>4, <1>5, <1>6 DEF AddStep
<1>8. Linked' /\ DentryTrue'
  BY <1>1, <1>b, <1>7, AddLinks
<1>9. Ends'
  BY <1>0, <1>1, <1>3, <1>5 DEF Ends
<1> QED BY <1>8, <1>9 DEF LinkInv

LEMMA MkdirLinks ==
  ASSUME NameiInv, LinkInv, NEW d \in Ino, NEW n \in Name, Mkdir(d, n)
  PROVE  LinkInv'
<1>i. PICK i : i = NewIno
  OBVIOUS
<1> DEFINE up == [nlink EXCEPT ![d] = inc(@), ![i] = 2]
<1>0. Types /\ Slotted /\ Single /\ Dentry /\ Linked /\ Ends /\ DentryTrue
  BY DEF NameiInv, LinkInv
<1>1. /\ CanCreate(d, n) /\ i \in Ino /\ kind[i] = "free" /\ kind[d] = "dir" /\ i # d
      /\ nlink[d] < MaxLinks /\ Live(d)
  BY <1>0, <1>i, FreshInode DEF Mkdir, CanCreate, Live
<1>a. PICK f \in Fault({1, 2}, {2}) :
        LET e == make_empty(i, d, How(f, 1))
            r == IF e.err THEN Unchanged(slots[d])
                 ELSE add_link(slots[d], n, i, Bad(f, 2), How(f, 2))
        IN /\ slots' = [slots EXCEPT ![d] = r.dir, ![i] = IF r.err THEN <<>> ELSE e.dir]
           /\ nlink' = IF r.err THEN [up EXCEPT ![i] = dec(dec(@)), ![d] = dec(@)] ELSE up
           /\ kind' = [kind EXCEPT ![i] = IF r.err THEN "free" ELSE "dir"]
           /\ Dentries([dcache EXCEPT ![d][n] = IF r.err THEN 0 ELSE i])
           /\ Outcome(f, slots' # slots, r.err, {i}, {})
  BY <1>i, Zenon DEF Mkdir
<1> HIDE DEF up
<1>b. PICK e : e = make_empty(i, d, How(f, 1))
  OBVIOUS
<1>c. PICK r : r = IF e.err THEN Unchanged(slots[d])
                   ELSE add_link(slots[d], n, i, Bad(f, 2), How(f, 2))
  OBVIOUS
<1>2. /\ slots' = [slots EXCEPT ![d] = r.dir, ![i] = IF r.err THEN <<>> ELSE e.dir]
      /\ nlink' = IF r.err THEN [up EXCEPT ![i] = dec(dec(@)), ![d] = dec(@)] ELSE up
      /\ kind' = [kind EXCEPT ![i] = IF r.err THEN "free" ELSE "dir"]
      /\ Dentries([dcache EXCEPT ![d][n] = IF r.err THEN 0 ELSE i])
      /\ Outcome(f, slots' # slots, r.err, {i}, {})
  BY <1>a, <1>b, <1>c, Zenon
<1>3. dead' = dead
  BY DEF Mkdir
<1>4. torn \subseteq torn' /\ (slots' # slots /\ r.err => i \in torn')
  <2>1. i \in {i} \ {0}
    BY <1>1, Sizes
  <2> QED BY <1>2, <2>1, OutcomeTorn
<1>5. slots[i] = <<>> /\ nlink[i] = 0 /\ i \notin dead /\ ~ Live(i) /\ i # 0
  BY <1>0, <1>1, Sizes DEF Slotted, Formed, Ends, Live
<1>6. \A k \in Ino : nlink'[k] = IF r.err THEN nlink[k]
                                 ELSE IF k = i THEN 2 ELSE IF k = d THEN nlink[k] + 1
                                 ELSE nlink[k]
  <2>1. nlink[d] \in 0 .. (LinkWrap - 1) /\ nlink[d] # LinkWrap - 1
    BY <1>0, <1>1, NameiAssumption DEF Types
  <2>2. inc(nlink[d]) = nlink[d] + 1 /\ dec(inc(nlink[d])) = nlink[d]
    BY <2>1, Counts
  <2>3. dec(dec(2)) = 0
    <3>1. 1 \in 0 .. (LinkWrap - 1) /\ 2 \in 0 .. (LinkWrap - 1)
      BY Sizes
    <3>2. dec(2) = 1 /\ dec(1) = 0
      BY <3>1, Counts
    <3> QED BY <3>2
  <2>4. \A k \in Ino : up[k] = IF k = i THEN 2 ELSE IF k = d THEN inc(nlink[d]) ELSE nlink[k]
    BY <1>0, <1>1 DEF up, Types
  <2>5. \A k \in Ino : r.err => nlink'[k] = IF k = i THEN dec(dec(2))
                                 ELSE IF k = d THEN dec(inc(nlink[d])) ELSE nlink[k]
    BY <1>0, <1>1, <1>2, <2>4 DEF up, Types
  <2> QED BY <1>2, <1>5, <2>2, <2>3, <2>4, <2>5
<1>7. Ends'
  BY <1>0, <1>1, <1>2, <1>3, <1>5, <1>6 DEF Ends, Types
<1>8. CASE r.err
  <2>1. \A k \in Ino : Live(k)' <=> Live(k)
    BY <1>0, <1>1, <1>2, <1>3, <1>8 DEF Live, Types
  <2>2. slots' = [slots EXCEPT ![d] = r.dir]
    BY <1>0, <1>1, <1>2, <1>5, <1>8 DEF Slotted, Formed
  <2>3. AddStep(d, n, i, r)
    BY <1>2, <1>3, <1>4, <1>6, <1>8, <2>1, <2>2 DEF AddStep
  <2>4. Linked' /\ DentryTrue'
    <3>1. CASE ~ e.err
      <4>1. r = add_link(slots[d], n, i, Bad(f, 2), How(f, 2))
        BY <1>c, <3>1
      <4> QED BY <1>1, <2>3, <4>1, AddLinks
    <3>2. CASE e.err
      <4>1. r.dir = slots[d]
        BY <1>c, <3>2 DEF Unchanged
      <4>2. slots' = slots
        BY <1>0, <2>2, <4>1 DEF Slotted, Formed
      <4>3. Linked'
        BY <1>0, <1>3, <1>4, <1>6, <1>8, <2>1, <4>2, AtSame, CalmAll
      <4> DEFINE c == [dcache EXCEPT ![d][n] = IF r.err THEN 0 ELSE i]
      <4>4. \A q \in Ino, m \in Name : c[q][m] \in Ino \ torn' => Has(slots', q, m, c[q][m])
        BY <1>0, <1>4, <1>8, <4>2, Sizes DEF Types, DentryTrue
      <4> HIDE DEF c
      <4>5. DentryTrue'
        BY <1>2, <4>4, TrueStep DEF c
      <4> QED BY <4>3, <4>5
    <3> QED BY <3>1, <3>2
  <2> QED BY <1>7, <2>4 DEF LinkInv
<1>9. CASE ~ r.err
  <2>1. r = add_link(slots[d], n, i, Bad(f, 2), How(f, 2)) /\ ~ e.err
    BY <1>c, <1>9 DEF Unchanged
  <2>2. DirOK(i, e.dir) /\ Len(e.dir) = 2 /\ e.dir[1].ino = i /\ e.dir[2].ino = d
    BY <1>1, <1>b, <2>1, MakeEmpty DEF DirOK
  <2>3. PICK j \in 3 .. (Len(slots[d]) + 1) :
               ~ Holds(slots[d], j) /\ Changed(d, slots[d], r, j, Slot(n, i))
    BY <1>0, <1>1, <2>1, Added
  <2> DEFINE S == [slots EXCEPT ![d] = r.dir]
  <2>4. Formed(slots, kind) /\ d \in Dirs
    BY <1>0, <1>1 DEF Slotted, Dirs
  <2>5. Written(slots, S, d, j, Slot(n, i)) /\ Slot(n, i).ino = i
    BY <1>9, <2>3, <2>4 DEF Changed, Formed, Written, Slot
  <2> HIDE DEF S
  <2>6. <<d, j>> \in Place /\ AtOf(S, Dirs) = [at EXCEPT ![<<d, j>>] = i]
    BY <2>4, <2>5, AtPut DEF at
  <2>7. at \in [Place -> Ino \cup {0}]
    BY <1>0, AtShape
  <2>8. j \in 1 .. MaxSlots /\ j >= 3
    BY <2>3, <2>6 DEF Place
  <2>9. at[<<d, j>>] = 0
    BY <1>1, <2>3, <2>4, <2>8, AtSlot DEF at
  <2>10. \A k \in Ino : Live(k)' <=> Live(k) \/ k = i
    BY <1>0, <1>1, <1>2, <1>3, <1>5, <1>9 DEF Live, Types
  <2>11. Dirs' = Dirs \cup {i} /\ i \notin Dirs
    BY <1>1, <1>5, <2>10 DEF Dirs
  <2>12. \A k \in Ino : slots'[k] = IF k = i THEN e.dir ELSE S[k]
    BY <1>1, <1>2, <1>9, <2>4 DEF Formed, S
  <2>13. <<i, 1>> \in Place /\ <<i, 2>> \in Place
    BY <1>1, PlaceIn, Sizes
  <2>14. ASSUME NEW p \in Place
         PROVE  at'[p] = IF p = <<i, 1>> \/ p = <<d, j>> THEN i
                         ELSE IF p = <<i, 2>> THEN d ELSE at[p]
    <3>1. PICK q \in Ino, k \in 1 .. MaxSlots : p = <<q, k>>
      BY DEF Place
    <3>2. p[1] = q /\ p[2] = k
      BY <3>1
    <3>3. CASE q = i
      <4>1. at'[p] = IF k <= 2 THEN e.dir[k].ino ELSE 0
        BY <1>1, <2>2, <2>11, <2>12, <3>2, <3>3 DEF at, AtOf
      <4>2. at[p] = 0
        BY <2>11, <3>2, <3>3 DEF at, AtOf
      <4>3. k = 1 \/ k = 2 \/ ~ (k <= 2)
        OBVIOUS
      <4> QED BY <1>1, <2>2, <3>1, <3>3, <4>1, <4>2, <4>3
    <3>4. CASE q # i
      <4>1. at'[p] = AtOf(S, Dirs)[p]
        BY <2>11, <2>12, <3>2, <3>4 DEF at, AtOf
      <4>2. at'[p] = IF p = <<d, j>> THEN i ELSE at[p]
        BY <2>6, <2>7, <4>1
      <4> QED BY <3>1, <3>4, <4>2
    <3> QED BY <3>3, <3>4
  <2>15. at[<<i, 1>>] = 0 /\ at[<<i, 2>>] = 0
    BY <1>1, <2>11, <2>13 DEF at, AtOf
  <2>16. <<i, 1>> # <<i, 2>> /\ <<i, 1>> # <<d, j>> /\ <<i, 2>> # <<d, j>>
    BY <1>1
  <2>17. ASSUME i \notin torn PROVE Sound(i)'
    <3>1. Of(at, i) = {}
      <4>1. Cardinality(Of(at, i)) = 0
        BY <1>0, <1>1, <1>5, <2>17 DEF Linked, Sound
      <4> QED BY <4>1, OfFinite, FS_EmptySet
    <3>2. Of(at', i) = {<<i, 1>>, <<d, j>>}
      BY <1>1, <2>6, <2>13, <2>14, <2>16, <3>1 DEF Of
    <3>3. Cardinality(Of(at', i)) = 2
      <4>1. Cardinality({<<i, 1>>, <<d, j>>}) = 2
        BY <2>16, PairCount, Zenon
      <4> QED BY <3>2, <4>1
    <3>4. Hung(at', i, <<d, j>>)
      <4>1. \A q \in Place : q[2] >= 3 /\ at'[q] = i => q = <<d, j>>
        <5>1. \A q \in Place : at'[q] = i => q = <<i, 1>> \/ q = <<d, j>>
          BY <3>2 DEF Of
        <5>2. <<i, 1>>[2] = 1
          OBVIOUS
        <5> QED BY <5>1, <5>2
      <4>2. at'[<<d, j>>] = i /\ at'[<<i, 2>>] = d
        BY <2>6, <2>13, <2>14, <2>16
      <4>3. <<d, j>>[1] = d /\ <<d, j>>[2] >= 3
        BY <2>8
      <4> QED BY <2>6, <4>1, <4>2, <4>3 DEF Hung
    <3>5. nlink'[i] = 2 /\ i \notin dead'
      BY <1>1, <1>3, <1>5, <1>6, <1>9
    <3>6. \E p \in Place : Hung(at', i, p)
      BY <2>6, <3>4
    <3> QED BY <3>3, <3>5, <3>6 DEF Sound
  <2>18. ASSUME d \notin torn PROVE Sound(d)'
    <3>1. Sound(d)
      BY <1>0, <2>18 DEF Linked
    <3>2. \A q \in Place : q # <<i, 2>> => (at'[q] = d <=> at[q] = d)
      <4>1. d # 0
        BY Sizes
      <4> QED BY <1>1, <2>9, <2>14, <2>15, <4>1
    <3>3. at[<<i, 2>>] # d /\ at'[<<i, 2>>] = d
      BY <2>13, <2>14, <2>15, <2>16, Sizes
    <3>4. Cardinality(Of(at', d)) = Cardinality(Of(at, d)) + 1
      <4>1. More(at, at', d, <<i, 2>>)
        BY <2>13, <3>2, <3>3 DEF More
      <4> QED BY <4>1, OfMore
    <3>5. nlink'[d] = nlink[d] + 1
      BY <1>1, <1>6, <1>9
    <3>6. ASSUME d # Root, Live(d)' PROVE \E p \in Place : Hung(at', d, p)
      <4>1. PICK p \in Place : Hung(at, d, p)
        BY <1>1, <3>1, <3>6 DEF Sound
      <4>2. <<d, 2>> \in Place /\ <<d, 2>> # <<i, 1>> /\ <<d, 2>> # <<i, 2>> /\ <<d, 2>> # <<d, j>>
        <5>1. <<d, 2>> \in Place
          BY PlaceIn, Sizes
        <5>2. j # 2
          BY <2>8
        <5> QED BY <1>1, <5>1, <5>2
      <4>3. at'[<<d, 2>>] = at[<<d, 2>>]
        BY <2>14, <4>2
      <4>4. <<i, 2>>[2] = 2
        OBVIOUS
      <4>5. Hung(at', d, p)
        BY <3>2, <4>1, <4>3, <4>4 DEF Hung
      <4> QED BY <4>5
    <3>7. d \notin dead'
      BY <1>1, <1>3 DEF Live
    <3> QED BY <3>1, <3>4, <3>5, <3>6, <3>7 DEF Sound
  <2>19. ASSUME NEW k \in Ino, k # i, k # d PROVE Calm(k)
    <3>1. k # 0
      BY Sizes
    <3>2. \A p \in Place : at'[p] = k <=> at[p] = k
      BY <2>9, <2>14, <2>15, <2>19, <3>1
    <3>3. <<k, 2>> \in Place /\ <<k, 2>> # <<i, 1>> /\ <<k, 2>> # <<i, 2>> /\ <<k, 2>> # <<d, j>>
      <4>1. <<k, 2>> \in Place
        BY PlaceIn, Sizes
      <4> QED BY <2>19, <4>1
    <3>4. at'[<<k, 2>>] = at[<<k, 2>>]
      BY <2>14, <3>3
    <3> QED BY <1>3, <1>6, <1>9, <2>10, <2>19, <3>2, <3>4 DEF Calm
  <2>20. Linked'
    <3>1. ASSUME NEW k \in Ino \ torn' PROVE Calm(k) \/ Sound(k)'
      <4>1. CASE k = i
        BY <1>4, <2>17, <3>1, <4>1
      <4>2. CASE k = d
        BY <1>4, <2>18, <3>1, <4>2
      <4> QED BY <2>19, <3>1, <4>1, <4>2
    <3> QED BY <1>0, <1>4, <3>1, LinkedStep
  <2> DEFINE c == [dcache EXCEPT ![d][n] = IF r.err THEN 0 ELSE i]
  <2>21. ASSUME NEW q \in Ino, NEW m \in Name, c[q][m] \in Ino \ torn'
         PROVE  Has(slots', q, m, c[q][m])
    <3>1. CASE q = d /\ m = n
      <4>1. c[q][m] = i
        BY <1>0, <1>9, <3>1 DEF Types
      <4>2. slots'[d] = S[d] /\ Put(slots[d], S[d], j, Slot(n, i)) /\ Len(slots[d]) \in Nat
        BY <1>1, <2>4, <2>5, <2>12 DEF Written, Formed
      <4>3. j \in 1 .. Len(S[d]) /\ S[d][j] = Slot(n, i)
        BY <2>3, <4>2 DEF Put
      <4> QED BY <3>1, <4>1, <4>2, <4>3 DEF Has
    <3>2. CASE ~ (q = d /\ m = n)
      <4>1. PICK v : v = c[q][m]
        OBVIOUS
      <4>2. v = dcache[q][m] /\ v \in Ino \ torn /\ v # 0
        BY <1>0, <1>4, <2>21, <3>2, <4>1, Sizes DEF Types
      <4>3. Has(slots, q, m, v)
        BY <1>0, <4>2 DEF DentryTrue
      <4>4. q # i
        BY <1>5, <4>3 DEF Has
      <4>5. Has(S, q, m, v)
        BY <2>3, <2>5, <4>2, <4>3, HasPut
      <4>6. Has(slots', q, m, v)
        BY <2>12, <4>4, <4>5 DEF Has
      <4> QED BY <4>1, <4>6
    <3> QED BY <3>1, <3>2
  <2> HIDE DEF c
  <2>22. DentryTrue'
    BY <1>2, <2>21, TrueStep DEF c
  <2> QED BY <1>7, <2>20, <2>22 DEF LinkInv
<1> QED BY <1>8, <1>9

-----------------------------------------------------------------------------
(* Removing a name.                                                        *)

\* Two places less lead to i.
Less(A, B, i, p, q) ==
  /\ p \in Place /\ q \in Place /\ p # q
  /\ A[p] = i /\ A[q] = i /\ B[p] # i /\ B[q] # i
  /\ \A s \in Place : s # p /\ s # q => (B[s] = i <=> A[s] = i)

LEMMA OfLess ==
  ASSUME NEW A, NEW B, NEW i, NEW p, NEW q, Less(A, B, i, p, q)
  PROVE  Cardinality(Of(A, i)) = Cardinality(Of(B, i)) + 2
<1> DEFINE C == [s \in Place |-> IF s = p THEN i ELSE B[s]]
<1>1. p \in Place /\ C[p] = i /\ \A s \in Place : s # p => C[s] = B[s]
  BY DEF Less
<1> HIDE DEF C
<1>2. More(B, C, i, p) /\ More(C, A, i, q)
  BY <1>1 DEF More, Less
<1>3. /\ Cardinality(Of(C, i)) = Cardinality(Of(B, i)) + 1
      /\ Cardinality(Of(A, i)) = Cardinality(Of(C, i)) + 1
  BY <1>2, OfMore
<1>4. Cardinality(Of(B, i)) \in Nat
  BY OfFinite
<1> QED BY <1>3, <1>4

\* One place less and another one more.
Swapped(A, B, i, p, q) ==
  /\ p \in Place /\ q \in Place /\ p # q
  /\ A[p] # i /\ B[p] = i /\ A[q] = i /\ B[q] # i
  /\ \A s \in Place : s # p /\ s # q => (B[s] = i <=> A[s] = i)

LEMMA OfMoved ==
  ASSUME NEW A, NEW B, NEW i, NEW p, NEW q, Swapped(A, B, i, p, q)
  PROVE  Cardinality(Of(A, i)) = Cardinality(Of(B, i))
<1> DEFINE C == [s \in Place |-> IF s = p THEN i ELSE A[s]]
<1>1. p \in Place /\ C[p] = i /\ \A s \in Place : s # p => C[s] = A[s]
  BY DEF Swapped
<1> HIDE DEF C
<1>2. More(A, C, i, p) /\ More(B, C, i, q)
  BY <1>1 DEF More, Swapped
<1>3. /\ Cardinality(Of(C, i)) = Cardinality(Of(A, i)) + 1
      /\ Cardinality(Of(C, i)) = Cardinality(Of(B, i)) + 1
  BY <1>2, OfMore
<1>4. Cardinality(Of(A, i)) \in Nat /\ Cardinality(Of(B, i)) \in Nat
  BY OfFinite
<1> QED BY <1>3, <1>4

\* A directory that stays where it is.
Stays(k) ==
  /\ \A q \in Place : q[2] >= 3 => (at'[q] = k <=> at[q] = k)
  /\ at'[<<k, 2>>] = at[<<k, 2>>]

LEMMA StaysSound ==
  ASSUME NEW k \in Ino, Sound(k), Live(k), k \notin dead', Stays(k),
         nlink'[k] = Cardinality(Of(at', k))
  PROVE  Sound(k)'
<1>1. ASSUME k # Root PROVE \E p \in Place : Hung(at', k, p)
  <2>1. PICK p \in Place : Hung(at, k, p)
    BY <1>1 DEF Sound
  <2>2. Hung(at', k, p)
    BY <2>1 DEF Hung, Stays
  <2> QED BY <2>2
<1> QED BY <1>1 DEF Sound

\* What an operation that fails in time leaves of the dentries.
LEMMA KeptTrue ==
  ASSUME NameiInv, LinkInv, NEW d \in Ino, NEW n \in Name, Live(d), slots' = slots,
         torn \subseteq torn', Dentries(Kept(d, n))
  PROVE  DentryTrue'
<1>0. Types /\ Slotted /\ Dentry /\ DentryTrue
  BY DEF NameiInv, LinkInv
<1> DEFINE c == Kept(d, n)
<1>1. \A e \in Ino, m \in Name : c[e][m] = IF e = d /\ m = n THEN Lookup(d, n) ELSE dcache[e][m]
  BY <1>0 DEF Kept, Types
<1> HIDE DEF c
<1>2. ASSUME NEW e \in Ino, NEW m \in Name, c[e][m] \in Ino \ torn'
      PROVE  Has(slots', e, m, c[e][m])
  <2>1. CASE e = d /\ m = n
    BY <1>1, <1>2, <2>1, LookupTrue
  <2>2. CASE ~ (e = d /\ m = n)
    BY <1>0, <1>1, <1>2, <2>2 DEF DentryTrue
  <2> QED BY <2>1, <2>2
<1> QED BY <1>2, TrueStep DEF c

\* The entry that cominix_find_entry finds.
LEMMA FoundLeads ==
  ASSUME NameiInv, NEW d \in Ino, NEW n \in Name, Live(d), NEW bad,
         NEW e, e = find_entry(slots[d], n, bad), e # 0
  PROVE  /\ Leads(d, e, n, inode_by_name(slots[d], n, bad))
         /\ inode_by_name(slots[d], n, bad) \in Ino
<1>0. Types /\ Slotted
  BY DEF NameiInv
<1>1. DirOK(d, slots[d]) /\ slots[d] \in Seq(AnySlot) /\ kind[d] = "dir"
  BY <1>0, LiveDir
<1>2. Holds(slots[d], e) /\ slots[d][e].name = n
  BY <1>1, FindEntry
<1>3. e \in 3 .. Len(slots[d]) /\ slots[d][e].ino \in Ino
  BY <1>1, <1>2, NotDots
<1>4. inode_by_name(slots[d], n, bad) = slots[d][e].ino
  BY DEF inode_by_name
<1>5. e \in 3 .. MaxSlots /\ e \in 1 .. MaxSlots
  <2>1. Len(slots[d]) \in Nat /\ Len(slots[d]) <= MaxSlots /\ MaxSlots \in Nat
    BY <1>1, Sizes DEF DirOK
  <2> QED BY <1>3, <2>1
<1>6. slots[d][e] = Slot(n, slots[d][e].ino)
  <2>1. slots[d][e] \in AnySlot
    BY <1>1, <1>2 DEF Holds
  <2> QED BY <1>2, <2>1 DEF AnySlot, Slot
<1>7. <<d, e>> \in Place /\ at[<<d, e>>] = slots[d][e].ino
  <2>1. d \in Dirs
    BY DEF Dirs
  <2> QED BY <1>0, <1>1, <1>2, <1>5, <2>1, AtSlot DEF at, Slotted
<1> QED BY <1>2, <1>3, <1>4, <1>5, <1>6, <1>7 DEF Leads

\* Nothing happens but an error, or the entry e, which leads to x, is deleted.
LEMMA RemovedAt ==
  ASSUME NameiInv, NEW d \in Ino, NEW n \in Name, Live(d), NEW f,
         NEW r, r = Removed(d, n, f), slots' = [slots EXCEPT ![d] = r.dir],
         NEW x, x = inode_by_name(slots[d], n, Bad(f, 1))
  PROVE  \/ slots' = slots /\ r.err
         \/ /\ slots' # slots /\ x \in Ino
            /\ \E e : Leads(d, e, n, x) /\ Written(slots, slots', d, e, FreeSlot)
<1>0. Types /\ Slotted /\ Formed(slots, kind) /\ slots \in [Ino -> Seq(AnySlot)]
  BY DEF NameiInv, Slotted, Formed
<1> DEFINE e == find_entry(slots[d], n, Bad(f, 1))
<1>1. r = IF e = 0 THEN [dir |-> slots[d], err |-> TRUE]
          ELSE delete_entry(slots[d], e, How(f, 2))
  BY DEF Removed, Unchanged
<1>2. e # 0 => Leads(d, e, n, x) /\ x \in Ino
  BY FoundLeads
<1> HIDE DEF e
<1>3. CASE e = 0
  <2>1. r.dir = slots[d] /\ r.err = TRUE
    BY <1>1, <1>3
  <2> QED BY <1>0, <2>1
<1>4. CASE e # 0
  <2>1. DirOK(d, slots[d]) /\ Len(slots[d]) \in Nat
    BY <1>0, LiveDir
  <2>2. e \in 3 .. Len(slots[d]) /\ slots[d][e] = Slot(n, x) /\ x # 0
    BY <1>2, <1>4, <2>1, Sizes DEF Leads, Holds
  <2>3. Changed(d, slots[d], r, e, FreeSlot)
    BY <1>1, <1>4, <2>1, <2>2, DeleteEntry
  <2>4. Tried(slots, slots', d, e, FreeSlot, r.err)
    BY <1>0, <2>3, TriedOne
  <2>5. CASE Written(slots, slots', d, e, FreeSlot)
    <3>1. slots'[d][e] = FreeSlot
      BY <2>5 DEF Written, Put
    <3>2. FreeSlot # Slot(n, x)
      BY <2>2 DEF FreeSlot, Slot
    <3> QED BY <1>2, <1>4, <2>2, <2>5, <3>1, <3>2
  <2> QED BY <2>4, <2>5 DEF Tried
<1> QED BY <1>3, <1>4

LEMMA RemovedTrue ==
  ASSUME NameiInv, LinkInv, NEW d \in Ino, NEW n \in Name, Live(d),
         NEW e, NEW x \in Ino, Leads(d, e, n, x), Written(slots, slots', d, e, FreeSlot),
         torn \subseteq torn', NEW i, NEW err,
         Dentries(IF err THEN Kept(d, n) ELSE Without(d, n, i)),
         err => Lookup(d, n) \notin Ino \ torn' /\ x \in torn'
  PROVE  DentryTrue'
<1>0. Types /\ Slotted /\ Dentry /\ DentryTrue
  BY DEF NameiInv, LinkInv
<1> DEFINE c == IF err THEN Kept(d, n) ELSE Without(d, n, i)
<1>1. \A q \in Ino, m \in Name :
        c[q][m] \in Ino \ torn' => /\ ~ (q = d /\ m = n) /\ c[q][m] = dcache[q][m]
                                   /\ err => c[q][m] # x
  <2>1. CASE err
    <3>1. \A q \in Ino, m \in Name : c[q][m] = IF q = d /\ m = n THEN Lookup(d, n) ELSE dcache[q][m]
      BY <1>0, <2>1 DEF Kept, Types
    <3> HIDE DEF c
    <3> QED BY <2>1, <3>1
  <2>2. CASE ~ err
    BY <2>2, Sizes DEF Without
  <2> QED BY <2>1, <2>2
<1> HIDE DEF c
<1>2. slots[d][e] = Slot(n, x)
  BY DEF Leads
<1>3. ASSUME NEW q \in Ino, NEW m \in Name, c[q][m] \in Ino \ torn'
      PROVE  Has(slots', q, m, c[q][m])
  <2>1. PICK v : v = c[q][m]
    OBVIOUS
  <2>2. ~ (q = d /\ m = n) /\ v = dcache[q][m] /\ v \in Ino \ torn /\ v # 0
    BY <1>1, <1>3, <2>1, Sizes
  <2>3. Has(slots, q, m, v)
    BY <1>0, <2>2 DEF DentryTrue
  <2>4. q = d => slots[d][e] # Slot(m, v)
    BY <1>2, <2>2 DEF Slot
  <2>5. Has(slots', q, m, v)
    BY <2>2, <2>3, <2>4, HasPut
  <2> QED BY <2>1, <2>5
<1> QED BY <1>3, TrueStep DEF c

LEMMA UnlinkLinks ==
  ASSUME NameiInv, LinkInv, NEW d \in Ino, NEW n \in Name, Unlink(d, n)
  PROVE  LinkInv'
<1>i. PICK i : i = Lookup(d, n)
  OBVIOUS
<1>0. Types /\ Slotted /\ Dentry /\ Linked /\ Ends /\ DentryTrue
  BY DEF NameiInv, LinkInv
<1>1. Live(d) /\ kind[d] = "dir" /\ i \in Ino /\ kind[i] = "file" /\ i # 0
  BY <1>0, <1>i, LookupOK DEF Unlink, Negative, Live
<1>a. PICK f \in Fault({2}, {1}) :
        LET r == Removed(d, n, f)
            is == About(d, n, Bad(f, 1))
        IN /\ slots' = [slots EXCEPT ![d] = r.dir]
           /\ nlink' = unlinked(nlink, i, r.err)
           /\ Dentries(IF r.err THEN Kept(d, n) ELSE Without(d, n, 0))
           /\ Outcome(f, slots' # slots, r.err \/ Cardinality(is) > 1, is, {})
  BY <1>i, Zenon DEF Unlink
<1>b. PICK r : r = Removed(d, n, f)
  OBVIOUS
<1>x. PICK x : x = inode_by_name(slots[d], n, Bad(f, 1))
  OBVIOUS
<1>2. /\ slots' = [slots EXCEPT ![d] = r.dir]
      /\ nlink' = unlinked(nlink, i, r.err)
      /\ Dentries(IF r.err THEN Kept(d, n) ELSE Without(d, n, 0))
      /\ Outcome(f, slots' # slots, r.err \/ Cardinality({i, x}) > 1, {i, x}, {})
  BY <1>a, <1>b, <1>i, <1>x, Zenon DEF About
<1>3. kind' = kind /\ dead' = dead
  BY DEF Unlink
<1>4. Dirs' = Dirs /\ \A k \in Ino : Live(k)' <=> Live(k)
  BY <1>3 DEF Live, Dirs
<1>5. torn \subseteq torn'
  BY <1>2, OutcomeTorn
<1>6. Ends'
  BY <1>0, <1>1, <1>2, <1>3 DEF Ends, unlinked, Types
<1>7. CASE slots' = slots /\ r.err
  <2>1. nlink' = nlink
    BY <1>2, <1>7 DEF unlinked
  <2>2. Linked'
    BY <1>0, <1>3, <1>4, <1>5, <1>7, <2>1, AtSame, CalmAll
  <2>3. DentryTrue'
    BY <1>1, <1>2, <1>5, <1>7, KeptTrue
  <2> QED BY <1>6, <2>2, <2>3 DEF LinkInv
<1>8. ASSUME slots' # slots, x \in Ino, NEW e, Leads(d, e, n, x),
             Written(slots, slots', d, e, FreeSlot)
      PROVE  LinkInv'
  <2>1. <<d, e>> \in Place /\ at[<<d, e>>] = x /\ e \in 3 .. MaxSlots /\ x # 0
    BY <1>8, Sizes DEF Leads
  <2>2. at' = [at EXCEPT ![<<d, e>>] = 0]
    <3>1. FreeSlot.ino = 0 /\ d \in Dirs
      BY <1>1 DEF FreeSlot, Slot, Dirs
    <3>2. AtOf(slots', Dirs) = [AtOf(slots, Dirs) EXCEPT ![<<d, e>>] = FreeSlot.ino]
      BY <1>8, <3>1, AtPut
    <3> QED BY <1>4, <3>1, <3>2 DEF at
  <2>3. \A p \in Place : at'[p] = IF p = <<d, e>> THEN 0 ELSE at[p]
    <3>1. at \in [Place -> Ino \cup {0}]
      BY <1>0, AtShape
    <3> QED BY <2>2, <3>1
  <2>4. ASSUME NEW k \in Ino, k # x, k # i PROVE Calm(k)
    <3>1. k # 0
      BY Sizes
    <3>2. \A p \in Place : at'[p] = k <=> at[p] = k
      BY <2>1, <2>3, <2>4, <3>1
    <3>3. <<k, 2>> \in Place /\ <<k, 2>> # <<d, e>>
      <4>1. e # 2 /\ <<k, 2>> \in Place
        BY <2>1, PlaceIn, Sizes
      <4> QED BY <4>1
    <3>4. at'[<<k, 2>>] = at[<<k, 2>>]
      BY <2>3, <3>3
    <3>5. nlink'[k] = nlink[k]
      BY <1>0, <1>1, <1>2, <2>4 DEF unlinked, Types
    <3> QED BY <1>3, <1>4, <3>2, <3>4, <3>5 DEF Calm
  <2>5. CASE r.err \/ i # x \/ i \in torn
    <3>1. i \in torn' /\ x \in torn'
      <4>1. i # x => Cardinality({i, x}) > 1
        <5>1. i # x => Cardinality({i, x}) = 2
          BY PairCount, Zenon
        <5> QED BY <5>1
      <4>2. {i, x} \ {0} \subseteq torn'
        BY <1>2, <1>8, <2>5, <4>1, OutcomeTorn
      <4> QED BY <1>1, <2>1, <4>2
    <3>2. \A k \in Ino \ torn' : Calm(k)
      BY <2>4, <3>1
    <3>3. Linked'
      BY <1>0, <1>5, <3>2, LinkedStep
    <3>4. DentryTrue'
      BY <1>1, <1>2, <1>5, <1>8, <1>i, <3>1, RemovedTrue
    <3> QED BY <1>6, <3>3, <3>4 DEF LinkInv
  <2>6. CASE ~ r.err /\ i = x /\ i \notin torn
    <3>1. Cardinality(Of(at, i)) = Cardinality(Of(at', i)) + 1
      <4>1. at'[<<d, e>>] # i /\ at[<<d, e>>] = i
        BY <1>1, <2>1, <2>3, <2>6
      <4>2. \A q \in Place : q # <<d, e>> => (at[q] = i <=> at'[q] = i)
        BY <2>3
      <4>3. More(at', at, i, <<d, e>>)
        BY <2>1, <4>1, <4>2 DEF More
      <4> QED BY <4>3, OfMore
    <3>2. Sound(i)
      BY <1>0, <1>1, <2>6 DEF Linked
    <3>3. nlink'[i] = Cardinality(Of(at', i))
      <4>1. nlink[i] \in 0 .. (LinkWrap - 1)
        BY <1>0, <1>1 DEF Types
      <4>2. Cardinality(Of(at', i)) \in Nat /\ nlink[i] = Cardinality(Of(at', i)) + 1
        BY <3>1, <3>2, OfFinite DEF Sound
      <4>3. nlink'[i] = dec(nlink[i])
        BY <1>0, <1>1, <1>2, <2>6 DEF unlinked, Types
      <4>4. dec(nlink[i]) = nlink[i] - 1
        BY <4>1, <4>2, Counts
      <4> QED BY <4>2, <4>3, <4>4
    <3>4. ~ Live(i)' /\ i \notin dead'
      BY <1>0, <1>1, <1>3, <1>4 DEF Live, Ends
    <3>5. Sound(i)'
      BY <3>3, <3>4 DEF Sound
    <3>6. \A k \in Ino \ torn' : Calm(k) \/ Sound(k)'
      <4> SUFFICES ASSUME NEW k \in Ino \ torn' PROVE Calm(k) \/ Sound(k)'
        OBVIOUS
      <4>1. CASE k = i
        BY <3>5, <4>1
      <4>2. CASE k # i
        BY <2>4, <2>6, <4>2
      <4> QED BY <4>1, <4>2
    <3>7. Linked'
      BY <1>0, <1>5, <3>6, LinkedStep
    <3>8. DentryTrue'
      BY <1>1, <1>2, <1>5, <1>8, <2>6, RemovedTrue
    <3> QED BY <1>6, <3>7, <3>8 DEF LinkInv
  <2> QED BY <2>5, <2>6
<1> QED BY <1>1, <1>2, <1>7, <1>8, <1>b, <1>x, RemovedAt

\* The parts of the success of cominix_rmdir: directory i, whose entry e in d led
\* to x, is out of the tree.
RmdirDone(d, i, e, x) ==
  /\ d \in Ino /\ i \in Ino /\ x \in Ino /\ i # d /\ i # Root /\ Live(d) /\ x # d
  /\ e \in 3 .. MaxSlots /\ <<d, e>> \in Place /\ at[<<d, e>>] = x
  /\ dead' = dead \cup {i} /\ \A k \in Ino : Live(k)' <=> Live(k) /\ k # i
  /\ \A k \in Ino : nlink'[k] = IF k = i THEN dec(dec(nlink[k]))
                                ELSE IF k = d THEN dec(nlink[k]) ELSE nlink[k]
  /\ \A p \in Place : at'[p] = IF p[1] = i \/ p = <<d, e>> THEN 0 ELSE at[p]

LEMMA RmdirCalm ==
  ASSUME NEW d, NEW i, NEW e, NEW x, RmdirDone(d, i, e, x),
         NEW k \in Ino, k # i, k # d, k # x, \A p \in Place : p[1] = i => at[p] # k
  PROVE  Calm(k)
<1>1. k # 0
  BY Sizes
<1>2. \A p \in Place : at'[p] = k <=> at[p] = k
  BY <1>1 DEF RmdirDone
<1>3. <<k, 2>> \in Place /\ <<k, 2>>[1] = k /\ <<k, 2>> # <<d, e>>
  <2>1. e # 2 /\ <<k, 2>> \in Place
    BY PlaceIn, Sizes DEF RmdirDone
  <2> QED BY <2>1
<1>4. at'[<<k, 2>>] = at[<<k, 2>>]
  BY <1>3 DEF RmdirDone
<1> QED BY <1>2, <1>4 DEF RmdirDone, Calm

LEMMA RmdirParent ==
  ASSUME Types, Slotted, NEW d, NEW i, NEW e, NEW x, RmdirDone(d, i, e, x), Sound(d),
         at[<<i, 2>>] = d, at[<<i, 1>>] = i,
         \A p \in Place : p[1] = i /\ p[2] >= 3 => at[p] # d
  PROVE  Sound(d)'
<1>0. d \in Ino /\ i \in Ino /\ i # d /\ d # 0 /\ Live(d) /\ x # d
  BY Sizes DEF RmdirDone
<1>1. <<i, 2>> \in Place /\ <<i, 2>>[1] = i /\ <<i, 2>>[2] = 2
  <2>1. 2 \in 1 .. MaxSlots
    BY Sizes
  <2> QED BY <1>0, <2>1, PlaceIn
<1>2. \A p \in Place : p # <<i, 2>> => (at[p] = d <=> at'[p] = d)
  <2> SUFFICES ASSUME NEW p \in Place, p # <<i, 2>> PROVE at[p] = d <=> at'[p] = d
    OBVIOUS
  <2>1. CASE p[1] = i
    <3>1. PICK j \in 1 .. MaxSlots : p = <<i, j>>
      BY <2>1 DEF Place
    <3>2. p[2] = j /\ j # 2 /\ (j = 1 \/ j >= 3)
      BY <3>1
    <3>3. at[p] # d
      BY <1>0, <2>1, <3>1, <3>2
    <3> QED BY <1>0, <2>1, <3>3 DEF RmdirDone
  <2>2. CASE p[1] # i
    BY <1>0, <2>2 DEF RmdirDone
  <2> QED BY <2>1, <2>2
<1>3. at'[<<i, 2>>] # d /\ at[<<i, 2>>] = d
  BY <1>0, <1>1 DEF RmdirDone
<1>4. Cardinality(Of(at, d)) = Cardinality(Of(at', d)) + 1
  <2>1. PICK u \in Place : u = <<i, 2>>
    BY <1>1
  <2>2. at'[u] # d /\ at[u] = d /\ \A p \in Place : p # u => (at[p] = d <=> at'[p] = d)
    BY <1>2, <1>3, <2>1
  <2>3. More(at', at, d, u)
    BY <2>2 DEF More
  <2> QED BY <2>3, OfMore
<1>5. nlink'[d] = Cardinality(Of(at', d))
  <2>1. nlink[d] \in 0 .. (LinkWrap - 1)
    BY <1>0 DEF Types
  <2>2. Cardinality(Of(at', d)) \in Nat /\ nlink[d] = Cardinality(Of(at', d)) + 1
    BY <1>4, OfFinite DEF Sound
  <2>3. dec(nlink[d]) = nlink[d] - 1
    BY <2>1, <2>2, Counts
  <2> QED BY <1>0, <2>2, <2>3 DEF RmdirDone
<1>6. d \notin dead'
  BY <1>0 DEF RmdirDone, Live
<1>7. Stays(d)
  <2>1. \A q \in Place : q[2] >= 3 => (at'[q] = d <=> at[q] = d)
    BY <1>1, <1>2
  <2>2. <<d, 2>> \in Place /\ <<d, 2>>[1] = d /\ <<d, 2>> # <<d, e>>
    <3>1. e # 2 /\ <<d, 2>> \in Place
      BY <1>0, PlaceIn, Sizes DEF RmdirDone
    <3> QED BY <3>1
  <2>3. at'[<<d, 2>>] = at[<<d, 2>>]
    BY <1>0, <2>2 DEF RmdirDone
  <2> QED BY <2>1, <2>3 DEF Stays
<1> QED BY <1>0, <1>5, <1>6, <1>7, StaysSound

LEMMA RmdirSelf ==
  ASSUME Types, NEW d, NEW i, NEW e, NEW x, RmdirDone(d, i, e, x), x = i, Sound(i),
         at[<<i, 2>>] = d, at[<<i, 1>>] = i, Live(i),
         \A p \in Place : p[1] = i /\ p[2] >= 3 => at[p] # i
  PROVE  Sound(i)'
<1>0. d \in Ino /\ i \in Ino /\ i # d /\ i # 0 /\ e \in 3 .. MaxSlots /\ <<d, e>> \in Place
      /\ at[<<d, e>>] = i /\ i # Root
  BY Sizes DEF RmdirDone
<1>1. <<i, 1>> \in Place /\ <<i, 1>>[1] = i /\ <<i, 1>> # <<d, e>> /\ <<d, e>>[2] >= 3
  BY <1>0, PlaceIn, Sizes
<1>2. \A p \in Place : p # <<i, 1>> /\ p # <<d, e>> => (at'[p] = i <=> at[p] = i)
  <2> SUFFICES ASSUME NEW p \in Place, p # <<i, 1>>, p # <<d, e>>
               PROVE  at'[p] = i <=> at[p] = i
    OBVIOUS
  <2>1. CASE p[1] = i
    <3>1. PICK j \in 1 .. MaxSlots : p = <<i, j>>
      BY <2>1 DEF Place
    <3>2. p[2] = j /\ j # 1 /\ (j = 2 \/ j >= 3)
      BY <3>1
    <3>3. at[p] # i
      BY <1>0, <2>1, <3>1, <3>2
    <3> QED BY <1>0, <2>1, <3>3 DEF RmdirDone
  <2>2. CASE p[1] # i
    BY <1>0, <2>2 DEF RmdirDone
  <2> QED BY <2>1, <2>2
<1>3. at'[<<i, 1>>] # i /\ at'[<<d, e>>] # i
  BY <1>0, <1>1 DEF RmdirDone
<1>4. Cardinality(Of(at, i)) = Cardinality(Of(at', i)) + 2
  <2>1. Less(at, at', i, <<i, 1>>, <<d, e>>)
    BY <1>0, <1>1, <1>2, <1>3 DEF Less
  <2> QED BY <2>1, OfLess
<1>5. nlink'[i] = Cardinality(Of(at', i))
  <2>1. nlink[i] \in 0 .. (LinkWrap - 1)
    BY <1>0 DEF Types
  <2>2. Cardinality(Of(at', i)) \in Nat /\ nlink[i] = Cardinality(Of(at', i)) + 2
    BY <1>4, OfFinite DEF Sound
  <2>3. dec(nlink[i]) = nlink[i] - 1
    BY <2>1, <2>2, Counts
  <2>4. nlink[i] - 1 \in 0 .. (LinkWrap - 1) /\ nlink[i] - 1 # 0
    BY <2>1, <2>2, Sizes
  <2>5. dec(nlink[i] - 1) = nlink[i] - 2
    <3>1. dec(nlink[i] - 1) = (nlink[i] - 1) - 1
      BY <2>4, Counts
    <3> QED BY <2>1, <3>1
  <2> QED BY <1>0, <2>2, <2>3, <2>5 DEF RmdirDone
<1>6. ASSUME NEW q \in Place, at'[q] = i PROVE q[2] < 3
  <2>1. at[q] = i /\ q # <<d, e>>
    BY <1>0, <1>3, <1>6 DEF RmdirDone
  <2>2. PICK p \in Place : Hung(at, i, p)
    BY <1>0 DEF Sound
  <2>3. p = <<d, e>>
    BY <1>0, <1>1, <2>2 DEF Hung
  <2>4. ~ (q[2] >= 3)
    BY <1>6, <2>1, <2>2, <2>3 DEF Hung
  <2> QED BY <2>4 DEF Place
<1>7. ~ Live(i)'
  BY <1>0 DEF RmdirDone
<1> QED BY <1>5, <1>6, <1>7 DEF Sound

LEMMA RmdirLinks ==
  ASSUME NameiInv, LinkInv, NEW d \in Ino, NEW n \in Name, Rmdir(d, n)
  PROVE  LinkInv'
<1>i. PICK i : i = Lookup(d, n)
  OBVIOUS
<1>0. Types /\ Slotted /\ Dentry /\ Linked /\ Ends /\ DentryTrue
  BY DEF NameiInv, LinkInv
<1>1. /\ Live(d) /\ kind[d] = "dir" /\ i \in Ino /\ kind[i] = "dir" /\ i # 0
      /\ i # Root /\ i # d
  BY <1>0, <1>i, LookupOK DEF Rmdir, Negative, Live
<1>a. PICK f \in Fault({2}, {1, 3}) :
        LET r == Removed(d, n, f)
            is == About(d, n, Bad(f, 1))
        IN /\ empty_dir(slots[i], i, Bad(f, 3))
           /\ slots' = [slots EXCEPT ![d] = r.dir]
           /\ nlink' = rmdir_links(unlinked(nlink, i, r.err), d, i, r.err)
           /\ dead' = IF r.err THEN dead ELSE dead \cup {i}
           /\ Dentries(IF r.err THEN Kept(d, n) ELSE Without(d, n, i))
           /\ Outcome(f, slots' # slots, r.err \/ Cardinality(is) > 1 \/ f.step = 3,
                      is \cup Inside(i), {d} \cup Up(i))
  BY <1>i, Zenon DEF Rmdir
<1>b. PICK r : r = Removed(d, n, f)
  OBVIOUS
<1>x. PICK x : x = inode_by_name(slots[d], n, Bad(f, 1))
  OBVIOUS
<1>2. /\ empty_dir(slots[i], i, Bad(f, 3))
      /\ slots' = [slots EXCEPT ![d] = r.dir]
      /\ nlink' = rmdir_links(unlinked(nlink, i, r.err), d, i, r.err)
      /\ dead' = IF r.err THEN dead ELSE dead \cup {i}
      /\ Dentries(IF r.err THEN Kept(d, n) ELSE Without(d, n, i))
      /\ Outcome(f, slots' # slots, r.err \/ Cardinality({i, x}) > 1 \/ f.step = 3,
                 {i, x} \cup Inside(i), {d} \cup Up(i))
  BY <1>a, <1>b, <1>i, <1>x, Zenon DEF About
<1>3. kind' = kind
  BY DEF Rmdir
<1>4. \A k \in Ino : Live(k)' <=> Live(k) /\ (r.err \/ k # i)
  BY <1>2, <1>3 DEF Live
<1>5. torn \subseteq torn'
  BY <1>2, OutcomeTorn
<1>6. \A k \in Ino : nlink'[k] = IF r.err THEN nlink[k]
                                 ELSE IF k = i THEN dec(dec(nlink[k]))
                                 ELSE IF k = d THEN dec(nlink[k]) ELSE nlink[k]
  <2> DEFINE L == unlinked(nlink, i, r.err)
  <2>1. L = IF r.err THEN nlink ELSE [nlink EXCEPT ![i] = dec(@)]
    BY DEF unlinked
  <2> HIDE DEF L
  <2>2. nlink' = IF r.err THEN L ELSE [L EXCEPT ![d] = dec(@), ![i] = dec(@)]
    BY <1>2 DEF rmdir_links, L
  <2> QED BY <1>0, <1>1, <2>1, <2>2 DEF Types
<1>7. Ends'
  BY <1>0, <1>1, <1>2, <1>3, <1>6 DEF Ends
<1>8. CASE slots' = slots /\ r.err
  <2>1. dead' = dead /\ \A k \in Ino : Live(k)' <=> Live(k)
    BY <1>2, <1>4, <1>8
  <2>2. Linked'
    BY <1>0, <1>5, <1>6, <1>8, <2>1, AtSame, CalmAll
  <2>3. DentryTrue'
    BY <1>1, <1>2, <1>5, <1>8, KeptTrue
  <2> QED BY <1>7, <2>2, <2>3 DEF LinkInv
<1>9. ASSUME slots' # slots, x \in Ino, NEW e, Leads(d, e, n, x),
             Written(slots, slots', d, e, FreeSlot)
      PROVE  LinkInv'
  <2>1. <<d, e>> \in Place /\ at[<<d, e>>] = x /\ e \in 3 .. MaxSlots /\ x # 0
    BY <1>9, Sizes DEF Leads
  <2>2. AtOf(slots', Dirs) = [at EXCEPT ![<<d, e>>] = 0]
    <3>1. FreeSlot.ino = 0 /\ d \in Dirs
      BY <1>1 DEF FreeSlot, Slot, Dirs
    <3>2. AtOf(slots', Dirs) = [AtOf(slots, Dirs) EXCEPT ![<<d, e>>] = FreeSlot.ino]
      BY <1>9, <3>1, AtPut
    <3> QED BY <3>1, <3>2 DEF at
  <2>3. at \in [Place -> Ino \cup {0}]
    BY <1>0, AtShape
  <2>4. r.err \/ i # x \/ f.step = 3 \/ ({i, x} \cup Inside(i)) \cap torn # {} =>
          i \in torn' /\ x \in torn' /\ Inside(i) \subseteq torn'
    <3>1. i # x => Cardinality({i, x}) > 1
      <4>1. i # x => Cardinality({i, x}) = 2
        BY PairCount, Zenon
      <4> QED BY <4>1
    <3>2. PICK is : is = {i, x} \cup Inside(i)
      OBVIOUS
    <3>3. Inside(i) \subseteq Ino
      BY <1>0, <1>1, InsideUp
    <3>4. 0 \notin Ino
      BY Sizes
    <3>5. Outcome(f, slots' # slots, r.err \/ Cardinality({i, x}) > 1 \/ f.step = 3,
                  is, {d} \cup Up(i))
      BY <1>2, <3>2
    <3>6. (r.err \/ Cardinality({i, x}) > 1 \/ f.step = 3) \/ is \cap torn # {} =>
            is \ {0} \subseteq torn'
      BY <1>9, <3>5, OutcomeTorn
    <3> QED BY <1>1, <1>9, <3>1, <3>2, <3>3, <3>4, <3>6
  <2>5. CASE r.err
    <3>1. dead' = dead /\ Dirs' = Dirs /\ \A k \in Ino : Live(k)' <=> Live(k)
      BY <1>2, <1>4, <2>5 DEF Dirs
    <3>2. \A p \in Place : at'[p] = IF p = <<d, e>> THEN 0 ELSE at[p]
      <4>1. at' = [at EXCEPT ![<<d, e>>] = 0]
        BY <2>2, <3>1 DEF at
      <4> QED BY <2>3, <4>1
    <3>3. ASSUME NEW k \in Ino \ torn' PROVE Calm(k)
      <4>1. k # 0 /\ k # x /\ k # i
        BY <2>4, <2>5, <3>3, Sizes
      <4>2. \A p \in Place : at'[p] = k <=> at[p] = k
        BY <2>1, <3>2, <4>1
      <4>3. <<k, 2>> \in Place /\ <<k, 2>> # <<d, e>>
        <5>1. e # 2 /\ <<k, 2>> \in Place
          BY <2>1, <3>3, PlaceIn, Sizes
        <5> QED BY <5>1
      <4>4. at'[<<k, 2>>] = at[<<k, 2>>]
        BY <3>2, <4>3
      <4> QED BY <1>6, <2>5, <3>1, <4>2, <4>4 DEF Calm
    <3>4. Linked'
      BY <1>0, <1>5, <3>3, LinkedStep
    <3>5. DentryTrue'
      BY <1>1, <1>2, <1>5, <1>9, <1>i, <2>4, <2>5, RemovedTrue
    <3> QED BY <1>7, <3>4, <3>5 DEF LinkInv
  <2>6. CASE ~ r.err
    <3>1. dead' = dead \cup {i} /\ Dirs' = Dirs \ {i}
          /\ \A k \in Ino : Live(k)' <=> Live(k) /\ k # i
      BY <1>2, <1>4, <2>6 DEF Dirs
    <3>2. \A p \in Place : at'[p] = IF p[1] = i \/ p = <<d, e>> THEN 0 ELSE at[p]
      <4>1. \A p \in Place : at'[p] = IF p[1] = i THEN 0 ELSE AtOf(slots', Dirs)[p]
        BY <3>1, AtDead
      <4> QED BY <2>2, <2>3, <4>1
    <3>3. x # d
      <4>1. <<d, e>>[1] = d /\ <<d, e>>[2] = e /\ e >= 3
        BY <2>1
      <4> QED BY <1>0, <2>1, <4>1, AtShape
    <3>4. RmdirDone(d, i, e, x)
      BY <1>1, <1>6, <1>9, <2>1, <2>6, <3>1, <3>2, <3>3 DEF RmdirDone
    <3>5. DentryTrue'
      BY <1>1, <1>2, <1>5, <1>9, <2>6, RemovedTrue
    <3>6. ASSUME NEW p \in Place, p[1] = i, at[p] # 0
          PROVE  at[p] = i \/ Up(i) = {at[p]} \/ at[p] \in Inside(i)
      <4>1. Live(i)
        BY <1>0, <3>6, AtShape
      <4>2. p[2] \in 1 .. MaxSlots
        BY <1>0, <1>1, <3>6, <4>1, InDir
      <4>3. p[2] < 3 => at[p] = i \/ Up(i) = {at[p]}
        BY <1>0, <1>1, <3>6, <4>1, InDir
      <4>4. p[2] >= 3 => at[p] \in Inside(i)
        BY <1>0, <1>1, <3>6, <4>1, InDir
      <4> QED BY <4>2, <4>3, <4>4
    <3>7. \A k \in Ino \ torn' : Calm(k) \/ Sound(k)'
      <4> SUFFICES ASSUME NEW k \in Ino \ torn' PROVE Calm(k) \/ Sound(k)'
        OBVIOUS
      <4>1. k # 0
        BY Sizes
      <4>2. CASE ({i, x} \cup Inside(i)) \cap torn # {}
        <5>1. {d} \cup Up(i) \subseteq torn'
          <6>1. PICK is, ds : is = {i, x} \cup Inside(i) /\ ds = {d} \cup Up(i)
            OBVIOUS
          <6>2. Outcome(f, slots' # slots, r.err \/ Cardinality({i, x}) > 1 \/ f.step = 3,
                        is, ds)
            BY <1>2, <6>1
          <6>3. is \cap torn # {} => ds \subseteq torn'
            BY <1>9, <6>2, OutcomeTorn
          <6> QED BY <4>2, <6>1, <6>3
        <5>2. k # i /\ k # d /\ k # x /\ Up(i) # {k} /\ k \notin Inside(i)
          BY <2>4, <4>2, <5>1
        <5>3. \A p \in Place : p[1] = i => at[p] # k
          BY <3>6, <4>1, <5>2
        <5> QED BY <3>4, <5>2, <5>3, RmdirCalm
      <4>3. CASE ({i, x} \cup Inside(i)) \cap torn = {}
        <5>1. i \notin torn
          BY <4>3
        <5>2. Live(i) /\ at[<<i, 2>>] = d
          BY <1>1, <1>i, <5>1, DirNamed
        <5>3. at[<<i, 1>>] = i /\ at[<<i, 2>>] = slots[i][2].ino
          BY <1>0, <1>1, <5>2, AtShape
        <5>4. Up(i) = {d}
          BY <1>1, <5>2, <5>3 DEF Up
        <5>5. ASSUME k # i, k # x, \A p \in Place : p[1] = i /\ p[2] >= 3 => at[p] # k
              PROVE  Calm(k) \/ Sound(k)'
          <6>1. CASE k = d
            <7>1. Sound(d)
              BY <1>0, <1>5, <6>1 DEF Linked
            <7> QED BY <1>0, <3>4, <5>2, <5>3, <5>5, <6>1, <7>1, RmdirParent
          <6>2. CASE k # d
            <7>1. ASSUME NEW p \in Place, p[1] = i PROVE at[p] # k
              <8>1. CASE p[2] >= 3
                BY <5>5, <7>1, <8>1
              <8>2. CASE ~ (p[2] >= 3) /\ at[p] # 0
                <9>1. p[2] < 3
                  BY <1>0, <1>1, <5>2, <7>1, <8>2, InDir
                <9>2. at[p] = i \/ Up(i) = {at[p]}
                  BY <1>0, <1>1, <5>2, <7>1, <8>2, <9>1, InDir
                <9> QED BY <5>4, <5>5, <6>2, <9>2
              <8> QED BY <4>1, <8>1, <8>2
            <7> QED BY <3>4, <5>5, <6>2, <7>1, RmdirCalm
          <6> QED BY <6>1, <6>2
        <5>6. CASE i # x \/ f.step = 3
          <6>1. k # i /\ k # x /\ k \notin Inside(i)
            BY <2>4, <5>6
          <6>2. \A p \in Place : p[1] = i /\ p[2] >= 3 => at[p] # k
            BY <1>0, <1>1, <4>1, <5>2, <6>1, InDir
          <6> QED BY <5>5, <6>1, <6>2
        <5>7. CASE i = x /\ f.step # 3
          <6>1. empty_dir(slots[i], i, {})
            BY <1>2, <5>7 DEF Bad
          <6>2. \A p \in Place : p[1] = i /\ p[2] >= 3 => at[p] = 0
            BY <1>0, <1>1, <5>2, <6>1, EmptyInside
          <6>3. CASE k = i
            <7>1. Sound(i)
              BY <1>0, <1>1, <5>1 DEF Linked
            <7>2. Sound(i)'
              BY <1>0, <1>1, <3>4, <5>2, <5>3, <5>7, <6>2, <7>1, RmdirSelf
            <7> QED BY <6>3, <7>2
          <6>4. CASE k # i
            BY <4>1, <5>5, <5>7, <6>2, <6>4
          <6> QED BY <6>3, <6>4
        <5> QED BY <5>6, <5>7
      <4> QED BY <4>2, <4>3
    <3>8. Linked'
      BY <1>0, <1>5, <3>7, LinkedStep
    <3> QED BY <1>7, <3>5, <3>8 DEF LinkInv
  <2> QED BY <2>5, <2>6
<1> QED BY <1>1, <1>2, <1>8, <1>9, <1>b, <1>x, RemovedAt

-----------------------------------------------------------------------------
(* Renaming.                                                               *)

\* What a change that may fail does to the places.
LedTo(A, B, p, y, err) ==
  /\ \A q \in Place : B[q] = A[q] \/ (q = p /\ B[q] = y)
  /\ ~ err => p \in Place /\ \A q \in Place : B[q] = IF q = p THEN y ELSE A[q]

LEMMA TriedAt ==
  ASSUME NEW S, NEW T, NEW L, NEW d, NEW j, NEW x, NEW err,
         Tried(S, T, d, j, x, err), d \in L
  PROVE  LedTo(AtOf(S, L), AtOf(T, L), <<d, j>>, x.ino, err)
<1>1. CASE T = S /\ err
  BY <1>1 DEF LedTo
<1>2. CASE Written(S, T, d, j, x)
  <2>1. <<d, j>> \in Place /\ AtOf(T, L) = [AtOf(S, L) EXCEPT ![<<d, j>>] = x.ino]
    BY <1>2, AtPut
  <2>2. AtOf(S, L) = [p \in Place |-> AtOf(S, L)[p]]
    BY DEF AtOf
  <2>3. \A q \in Place : AtOf(T, L)[q] = IF q = <<d, j>> THEN x.ino ELSE AtOf(S, L)[q]
    BY <2>1, <2>2
  <2> QED BY <2>1, <2>3 DEF LedTo
<1> QED BY <1>1, <1>2 DEF Tried

\* A directory that is not in the tree has no places.
LEMMA TriedOut ==
  ASSUME NEW S, NEW T, NEW L, NEW d, NEW j, NEW x, NEW err,
         Tried(S, T, d, j, x, err), d \notin L
  PROVE  \A q \in Place : AtOf(T, L)[q] = AtOf(S, L)[q]
<1>1. CASE T = S
  BY <1>1
<1>2. CASE Written(S, T, d, j, x)
  <2>1. \A e \in Ino : e # d => T[e] = S[e]
    BY <1>2 DEF Written
  <2> QED BY <2>1 DEF AtOf, Place
<1> QED BY <1>1, <1>2 DEF Tried

LEMMA TriedHas ==
  ASSUME NEW S, NEW T, NEW d, NEW j, NEW x, NEW err, Tried(S, T, d, j, x, err),
         NEW q \in Ino, NEW n, NEW i, Has(S, q, n, i), i # 0,
         q = d /\ Holds(S[d], j) => S[d][j] # Slot(n, i)
  PROVE  Has(T, q, n, i)
<1>1. CASE T = S
  BY <1>1
<1>2. CASE Written(S, T, d, j, x)
  BY <1>2, HasPut
<1> QED BY <1>1, <1>2 DEF Tried

\* The places after a rename: the new entry is in slot p of nd.
RenameAt(A, e, oi, od, nd, p, done) ==
  /\ \A q \in Place : \/ A[q] = at[q]
                      \/ q = <<nd, p>> /\ A[q] = oi
                      \/ q = <<od, e>> /\ A[q] = 0
                      \/ q = <<oi, 2>> /\ A[q] = nd /\ kind[oi] = "dir" /\ Live(oi)
  /\ done = 7 =>
       /\ <<nd, p>> \in Place
       /\ \A q \in Place : A[q] = IF q = <<nd, p>> THEN oi
                                  ELSE IF q = <<od, e>> THEN 0
                                  ELSE IF q = <<oi, 2>> /\ kind[oi] = "dir" /\ Live(oi)
                                       THEN nd
                                  ELSE at[q]

LEMMA RenamePlaces ==
  ASSUME NEW od \in Ino, NEW nd \in Ino, NEW on, NEW nn, NEW oi, NEW e, NEW t,
         RenameFound(e, t, oi, od, on, nd, nn), e >= 3, NEW r, NEW p,
         NEW s5, NEW e5, NEW s6, NEW e6, NEW s7, NEW e7,
         RenameWrites(r, e, t, oi, od, nd, nn, p, s5, e5, s6, e6, s7, e7)
  PROVE  RenameAt(AtOf(r.dirs, Dirs), e, oi, od, nd, p, r.done)
<1> DEFINE A0 == AtOf(slots, Dirs)
           A5 == AtOf(s5, Dirs)
           A6 == AtOf(s6, Dirs)
           A7 == AtOf(s7, Dirs)
           P == <<nd, p>>
           Q == <<od, e>>
           U == <<oi, 2>>
<1>1. /\ p \in 3 .. (Len(slots[nd]) + 1) /\ (od = nd => p # e)
      /\ Tried(slots, s5, nd, p, Slot(nn, oi), e5)
      /\ Tried(s5, s6, od, e, FreeSlot, e6)
      /\ kind[oi] = "dir" => Tried(s6, s7, oi, 2, Slot(DotDot, nd), e7)
  BY DEF RenameWrites
<1>2. r = IF e5 THEN [dirs |-> s5, done |-> 4]
          ELSE IF e6 THEN [dirs |-> s6, done |-> 5]
          ELSE IF kind[oi] # "dir" THEN [dirs |-> s6, done |-> 7]
          ELSE [dirs |-> s7, done |-> IF e7 THEN 6 ELSE 7]
  BY DEF RenameWrites
<1>3. /\ nd \in Dirs /\ od \in Dirs /\ oi \in Ino /\ (Live(oi) <=> oi \in Dirs)
      /\ Live(oi) => kind[oi] = "dir"
  BY DEF RenameFound, Dirs, Live
<1>4. Slot(nn, oi).ino = oi /\ FreeSlot.ino = 0 /\ Slot(DotDot, nd).ino = nd
  BY DEF Slot, FreeSlot
<1>5. P # Q /\ P # U /\ Q # U
  BY <1>1
<1>6. at = A0
  BY DEF at
<1>7. LedTo(A0, A5, P, oi, e5)
  <2>1. LedTo(A0, A5, P, Slot(nn, oi).ino, e5)
    BY <1>1, <1>3, TriedAt
  <2> QED BY <1>4, <2>1
<1>8. LedTo(A5, A6, Q, 0, e6)
  <2>1. LedTo(A5, A6, Q, FreeSlot.ino, e6)
    BY <1>1, <1>3, TriedAt
  <2> QED BY <1>4, <2>1
<1>9. ASSUME kind[oi] = "dir"
      PROVE  /\ \A q \in Place : A7[q] = A6[q] \/ (q = U /\ A7[q] = nd /\ Live(oi))
             /\ ~ e7 => \A q \in Place : A7[q] = IF q = U /\ Live(oi) THEN nd ELSE A6[q]
  <2>1. CASE Live(oi)
    <3>1. LedTo(A6, A7, U, Slot(DotDot, nd).ino, e7)
      BY <1>1, <1>3, <1>9, <2>1, TriedAt
    <3>2. LedTo(A6, A7, U, nd, e7)
      BY <1>4, <3>1
    <3> QED BY <2>1, <3>2 DEF LedTo
  <2>2. CASE ~ Live(oi)
    BY <1>1, <1>3, <1>9, <2>2, TriedOut
  <2> QED BY <2>1, <2>2
<1> HIDE DEF A0, A5, A6, A7, P, Q, U
<1>10. CASE e5
  <2>1. AtOf(r.dirs, Dirs) = A5 /\ r.done # 7
    BY <1>2, <1>10 DEF A5
  <2> QED BY <1>6, <1>7, <2>1 DEF RenameAt, LedTo, P, Q, U
<1>11. CASE ~ e5 /\ e6
  <2>1. AtOf(r.dirs, Dirs) = A6 /\ r.done # 7
    BY <1>2, <1>11 DEF A6
  <2>2. \A q \in Place : A6[q] = at[q] \/ (q = P /\ A6[q] = oi) \/ (q = Q /\ A6[q] = 0)
    BY <1>6, <1>7, <1>8 DEF LedTo
  <2> QED BY <2>1, <2>2 DEF RenameAt, LedTo, P, Q, U
<1>12. CASE ~ e5 /\ ~ e6 /\ kind[oi] # "dir"
  <2>1. AtOf(r.dirs, Dirs) = A6 /\ r.done = 7
    BY <1>2, <1>12 DEF A6
  <2>2. \A q \in Place : A6[q] = IF q = P THEN oi ELSE IF q = Q THEN 0 ELSE at[q]
    BY <1>5, <1>6, <1>7, <1>8, <1>12 DEF LedTo
  <2> QED BY <1>3, <1>7, <1>12, <2>1, <2>2 DEF RenameAt, LedTo, P, Q, U
<1>13. CASE ~ e5 /\ ~ e6 /\ kind[oi] = "dir"
  <2>1. AtOf(r.dirs, Dirs) = A7 /\ (r.done = 7 => ~ e7)
    BY <1>2, <1>13 DEF A7
  <2>2. \A q \in Place : A6[q] = IF q = P THEN oi ELSE IF q = Q THEN 0 ELSE at[q]
    BY <1>5, <1>6, <1>7, <1>8, <1>13 DEF LedTo
  <2>3. \A q \in Place : \/ A7[q] = at[q] \/ (q = P /\ A7[q] = oi) \/ (q = Q /\ A7[q] = 0)
                         \/ (q = U /\ A7[q] = nd /\ Live(oi))
    BY <1>9, <1>13, <2>2
  <2>4. ~ e7 => \A q \in Place : A7[q] = IF q = P THEN oi ELSE IF q = Q THEN 0
                                         ELSE IF q = U /\ Live(oi) THEN nd ELSE at[q]
    BY <1>5, <1>9, <1>13, <2>2
  <2> QED BY <1>7, <1>13, <2>1, <2>3, <2>4 DEF RenameAt, LedTo, P, Q, U
<1> QED BY <1>10, <1>11, <1>12, <1>13

\* The entries of other names stay.
LEMMA RenameHas ==
  ASSUME NameiInv, NEW od \in Ino, NEW nd \in Ino, NEW on \in Name, NEW nn \in Name,
         NEW oi, NEW e, NEW t,
         RenameFound(e, t, oi, od, on, nd, nn), NEW r, NEW p,
         NEW s5, NEW e5, NEW s6, NEW e6, NEW s7, NEW e7,
         RenameWrites(r, e, t, oi, od, nd, nn, p, s5, e5, s6, e6, s7, e7),
         NEW q \in Ino, NEW m \in Name, NEW v, v # 0, Has(slots, q, m, v),
         ~ (q = od /\ m = on), ~ (q = nd /\ m = nn)
  PROVE  Has(r.dirs, q, m, v)
<1>1. /\ Tried(slots, s5, nd, p, Slot(nn, oi), e5)
      /\ Tried(s5, s6, od, e, FreeSlot, e6) /\ s5[od][e] = slots[od][e]
      /\ kind[oi] = "dir" =>
           Tried(s6, s7, oi, 2, Slot(DotDot, nd), e7) /\ s6[oi][2].name = DotDot
      /\ IF t = 0 THEN ~ Holds(slots[nd], p) ELSE p = t
  BY DEF RenameWrites
<1>2. r = IF e5 THEN [dirs |-> s5, done |-> 4]
          ELSE IF e6 THEN [dirs |-> s6, done |-> 5]
          ELSE IF kind[oi] # "dir" THEN [dirs |-> s6, done |-> 7]
          ELSE [dirs |-> s7, done |-> IF e7 THEN 6 ELSE 7]
  BY DEF RenameWrites
<1>3. slots[od][e].name = on /\ (t # 0 => slots[nd][t].name = nn)
  BY DEF RenameFound
<1>4. Slot(m, v).name = m /\ m # DotDot
  BY Sizes DEF Slot
<1>5. Has(s5, q, m, v)
  <2>1. q = nd /\ Holds(slots[nd], p) => slots[nd][p] # Slot(m, v)
    BY <1>1, <1>3, <1>4
  <2> QED BY <1>1, <2>1, TriedHas
<1>6. Has(s6, q, m, v)
  <2>1. q = od => s5[od][e] # Slot(m, v)
    BY <1>1, <1>3, <1>4
  <2> QED BY <1>1, <1>5, <2>1, TriedHas
<1>7. kind[oi] = "dir" => Has(s7, q, m, v)
  <2>1. kind[oi] = "dir" => s6[oi][2] # Slot(m, v)
    BY <1>1, <1>4
  <2> QED BY <1>1, <1>6, <2>1, TriedHas
<1>8. r.dirs = s5 \/ r.dirs = s6 \/ (r.dirs = s7 /\ kind[oi] = "dir")
  BY <1>2
<1> QED BY <1>5, <1>6, <1>7, <1>8

LEMMA DecCount ==
  ASSUME NEW x \in 0 .. (LinkWrap - 1), NEW m \in Nat, x = m + 1
  PROVE  dec(x) = m
<1>1. dec(x) = x - 1
  BY Counts
<1> QED BY <1>1

\* The count of an inode that one place less leads to.
LEMMA OneLess ==
  ASSUME Types, NEW k \in Ino, Sound(k), NEW p, More(at', at, k, p),
         nlink'[k] = dec(nlink[k])
  PROVE  nlink'[k] = Cardinality(Of(at', k))
<1>1. nlink[k] \in 0 .. (LinkWrap - 1)
  BY DEF Types
<1>2. Cardinality(Of(at, k)) = Cardinality(Of(at', k)) + 1
  BY OfMore
<1>3. Cardinality(Of(at', k)) \in Nat
  BY OfFinite
<1> QED BY <1>1, <1>2, <1>3, DecCount DEF Sound

LEMMA UpPlace ==
  ASSUME NEW k \in Ino
  PROVE  <<k, 2>> \in Place /\ <<k, 2>>[1] = k /\ <<k, 2>>[2] = 2
<1>1. 2 \in 1 .. MaxSlots
  BY Sizes
<1> QED BY <1>1, PlaceIn

\* A file is moved from place Q to place P, over ni.
RenameFile(oi, ni, P, Q) ==
  /\ oi \in Ino /\ ni \in Ino \cup {0} /\ oi # ni
  /\ P \in Place /\ Q \in Place /\ P # Q /\ P[2] >= 3 /\ Q[2] >= 3
  /\ at[Q] = oi /\ at[P] = ni
  /\ ~ Live(oi)' /\ oi \notin dead' /\ (ni # 0 => ~ Live(ni)' /\ ni \notin dead')
  /\ dead' = dead /\ \A k \in Ino : Live(k)' <=> Live(k)
  /\ \A k \in Ino : nlink'[k] = IF k = ni THEN dec(nlink[k]) ELSE nlink[k]
  /\ \A q \in Place : at'[q] = IF q = P THEN oi ELSE IF q = Q THEN 0 ELSE at[q]

LEMMA RenameFileSound ==
  ASSUME Types, NEW oi, NEW ni, NEW P, NEW Q, RenameFile(oi, ni, P, Q),
         NEW k \in Ino, Sound(k)
  PROVE  Sound(k)'
<1>0. k # 0 /\ nlink[k] \in 0 .. (LinkWrap - 1)
  BY Sizes DEF Types
<1>1. /\ oi # ni /\ P \in Place /\ Q \in Place /\ P # Q /\ P[2] >= 3 /\ Q[2] >= 3
      /\ at[Q] = oi /\ at[P] = ni /\ at'[P] = oi /\ at'[Q] = 0
  BY DEF RenameFile
<1>2. \A q \in Place : q # P /\ q # Q => at'[q] = at[q]
  BY DEF RenameFile
<1>3. CASE k = oi
  <2>1. \A q \in Place : q # P /\ q # Q => (at'[q] = k <=> at[q] = k)
    BY <1>2
  <2>2. Cardinality(Of(at, k)) = Cardinality(Of(at', k))
    <3>1. at[P] # k /\ at'[P] = k /\ at[Q] = k /\ at'[Q] # k
      BY <1>0, <1>1, <1>3
    <3>2. Swapped(at, at', k, P, Q)
      BY <1>1, <2>1, <3>1 DEF Swapped
    <3> QED BY <3>2, OfMoved
  <2>3. nlink'[k] = Cardinality(Of(at', k))
    BY <1>1, <1>3, <2>2 DEF RenameFile, Sound
  <2>4. ~ Live(k)' /\ k \notin dead'
    BY <1>3 DEF RenameFile
  <2> QED BY <2>3, <2>4 DEF Sound
<1>4. CASE k = ni
  <2>1. at'[P] # k /\ at[P] = k /\ P \in Place
    BY <1>1, <1>4
  <2>2. \A q \in Place : q # P => (at[q] = k <=> at'[q] = k)
    BY <1>0, <1>1, <1>2, <1>4
  <2>3. nlink'[k] = Cardinality(Of(at', k))
    <3>1. nlink'[k] = dec(nlink[k])
      BY <1>4 DEF RenameFile
    <3>2. More(at', at, k, P)
      BY <2>1, <2>2 DEF More
    <3> QED BY <3>1, <3>2, OneLess
  <2>4. ~ Live(k)' /\ k \notin dead'
    BY <1>0, <1>4 DEF RenameFile
  <2> QED BY <2>3, <2>4 DEF Sound
<1>5. CASE k # oi /\ k # ni
  <2>1. \A q \in Place : at'[q] = k <=> at[q] = k
    BY <1>0, <1>1, <1>2, <1>5
  <2>2. at'[<<k, 2>>] = at[<<k, 2>>]
    BY <1>1, <1>2, UpPlace
  <2>3. Calm(k)
    BY <1>5, <2>1, <2>2 DEF RenameFile, Calm
  <2> QED BY <2>3, CalmSound
<1> QED BY <1>3, <1>4, <1>5

\* Directory oi is moved from place Q in od to place P in nd; U is its ..
RenameDir(oi, od, nd, P, Q, U) ==
  /\ oi \in Ino /\ od \in Ino /\ nd \in Ino /\ oi # od /\ oi # nd /\ oi # Root
  /\ P \in Place /\ Q \in Place /\ P # Q /\ P[2] >= 3 /\ Q[2] >= 3 /\ P[1] = nd
  /\ U = <<oi, 2>> /\ U \in Place /\ U # P /\ U # Q
  /\ at[Q] = oi /\ at[P] # oi /\ at[P] # od /\ at[P] # nd /\ at[U] = od
  /\ Live(oi) /\ Live(od) /\ Live(nd)
  /\ Live(oi)' /\ Live(od)' /\ Live(nd)' /\ {oi, od, nd} \cap dead' = {}

\* The directory hangs where it was moved.
LEMMA RenameHung ==
  ASSUME NEW oi, NEW od, NEW nd, NEW P, NEW Q, NEW U, RenameDir(oi, od, nd, P, Q, U),
         Sound(oi), at'[P] = oi, at'[Q] = 0, at'[U] = nd,
         \A q \in Place : q # P /\ q # Q => (at'[q] = oi <=> at[q] = oi),
         nlink'[oi] = nlink[oi]
  PROVE  Sound(oi)'
<1>0. oi # 0 /\ oi # Root
  BY Sizes DEF RenameDir
<1>1. nlink'[oi] = Cardinality(Of(at', oi))
  <2>1. at[P] # oi /\ at[Q] = oi /\ at'[Q] # oi /\ P \in Place /\ Q \in Place /\ P # Q
    BY <1>0 DEF RenameDir
  <2>2. Cardinality(Of(at, oi)) = Cardinality(Of(at', oi))
    <3>1. Swapped(at, at', oi, P, Q)
      BY <2>1 DEF Swapped
    <3> QED BY <3>1, OfMoved
  <2> QED BY <2>2 DEF Sound
<1>2. PICK p \in Place : Hung(at, oi, p)
  BY <1>0 DEF Sound, RenameDir
<1>3. p = Q
  BY <1>2 DEF Hung, RenameDir
<1>4. \A q \in Place : q[2] >= 3 /\ at'[q] = oi => q = P
  <2> SUFFICES ASSUME NEW q \in Place, q[2] >= 3, at'[q] = oi, q # P PROVE FALSE
    OBVIOUS
  <2>1. q # Q /\ at[q] = oi
    BY <1>0
  <2> QED BY <1>2, <1>3, <2>1 DEF Hung
<1>5. Hung(at', oi, P)
  BY <1>4 DEF Hung, RenameDir
<1>6. P \in Place /\ oi \notin dead'
  BY DEF RenameDir
<1>7. \E q \in Place : Hung(at', oi, q)
  BY <1>5, <1>6
<1> QED BY <1>1, <1>6, <1>7 DEF Sound

\* The directory gets a new name.
RenameNew(oi, od, nd, P, Q, U) ==
  /\ RenameDir(oi, od, nd, P, Q, U) /\ at[P] = 0
  /\ dead' = dead /\ \A k \in Ino : Live(k)' <=> Live(k)
  /\ \A k \in Ino : nlink'[k] = IF od = nd THEN nlink[k]
                                ELSE IF k = nd THEN nlink[k] + 1
                                ELSE IF k = od THEN dec(nlink[k]) ELSE nlink[k]
  /\ \A q \in Place : at'[q] = IF q = P THEN oi ELSE IF q = Q THEN 0
                               ELSE IF q = U THEN nd ELSE at[q]

LEMMA RenameNewSound ==
  ASSUME Types, NEW oi, NEW od, NEW nd, NEW P, NEW Q, NEW U,
         RenameNew(oi, od, nd, P, Q, U), NEW k \in Ino, Sound(k)
  PROVE  Sound(k)'
<1>0. k # 0 /\ nlink[k] \in 0 .. (LinkWrap - 1)
  BY Sizes DEF Types
<1>a. /\ RenameDir(oi, od, nd, P, Q, U)
      /\ oi \in Ino /\ od \in Ino /\ nd \in Ino /\ oi # od /\ oi # nd
      /\ P \in Place /\ Q \in Place /\ U \in Place /\ P # Q /\ U # P /\ U # Q
      /\ P[2] >= 3 /\ Q[2] >= 3 /\ U = <<oi, 2>> /\ U[2] = 2
      /\ at[P] = 0 /\ at[Q] = oi /\ at[U] = od
      /\ Live(od) /\ Live(nd) /\ od \notin dead' /\ nd \notin dead'
  BY UpPlace DEF RenameNew, RenameDir
<1>1. at'[P] = oi /\ at'[Q] = 0 /\ at'[U] = nd
  BY <1>a DEF RenameNew
<1>2. \A q \in Place : q # P /\ q # Q /\ q # U => at'[q] = at[q]
  BY DEF RenameNew
<1>3. CASE k = oi
  <2>1. \A q \in Place : q # P /\ q # Q => (at'[q] = oi <=> at[q] = oi)
    BY <1>a, <1>1, <1>2
  <2>2. nlink'[oi] = nlink[oi]
    BY <1>a DEF RenameNew
  <2> QED BY <1>a, <1>1, <1>3, <2>1, <2>2, RenameHung
<1>4. ASSUME k # oi
      PROVE  /\ \A q \in Place : q # U => (at'[q] = k <=> at[q] = k)
             /\ at'[<<k, 2>>] = at[<<k, 2>>]
  <2>1. \A q \in Place : q # U => (at'[q] = k <=> at[q] = k)
    BY <1>0, <1>a, <1>1, <1>2, <1>4
  <2>2. <<k, 2>> # U
    BY <1>a, <1>4
  <2>3. <<k, 2>> # P /\ <<k, 2>> # Q /\ <<k, 2>> \in Place
    BY <1>a, UpPlace
  <2> QED BY <1>2, <2>1, <2>2, <2>3
<1>5. ASSUME k = od \/ k = nd PROVE Stays(k)
  <2>1. k # oi
    BY <1>a, <1>5
  <2>2. \A q \in Place : q[2] >= 3 => q # U
    BY <1>a
  <2> QED BY <1>4, <2>1, <2>2 DEF Stays
<1>6. CASE k # oi /\ (od = nd \/ (k # od /\ k # nd))
  <2>1. \A q \in Place : at'[q] = k <=> at[q] = k
    BY <1>a, <1>1, <1>4, <1>6
  <2>2. Calm(k)
    BY <1>4, <1>6, <2>1 DEF RenameNew, Calm
  <2> QED BY <2>2, CalmSound
<1>7. CASE od # nd /\ k = nd
  <2>1. at[U] # k /\ at'[U] = k /\ \A q \in Place : q # U => (at'[q] = k <=> at[q] = k)
    BY <1>a, <1>1, <1>4, <1>7
  <2>2. Cardinality(Of(at', k)) = Cardinality(Of(at, k)) + 1
    <3>1. More(at, at', k, U)
      BY <1>a, <2>1 DEF More
    <3> QED BY <3>1, OfMore
  <2>3. nlink'[k] = Cardinality(Of(at', k))
    BY <1>7, <2>2 DEF RenameNew, Sound
  <2> QED BY <1>a, <1>5, <1>7, <2>3, StaysSound
<1>8. CASE od # nd /\ k = od
  <2>1. at'[U] # k /\ at[U] = k /\ U \in Place
    BY <1>a, <1>1, <1>8
  <2>2. \A q \in Place : q # U => (at[q] = k <=> at'[q] = k)
    BY <1>a, <1>4, <1>8
  <2>3. nlink'[k] = dec(nlink[k])
    BY <1>8 DEF RenameNew
  <2>4. nlink'[k] = Cardinality(Of(at', k))
    <3>1. More(at', at, k, U)
      BY <2>1, <2>2 DEF More
    <3> QED BY <2>3, <3>1, OneLess
  <2> QED BY <1>a, <1>5, <1>8, <2>4, StaysSound
<1> QED BY <1>3, <1>6, <1>7, <1>8

\* The directory takes the place of directory ni, which was empty; V and W are
\* the entries . and .. of that one.
RenameOver(oi, ni, od, nd, P, Q, U, V, W) ==
  /\ RenameDir(oi, od, nd, P, Q, U)
  /\ ni \in Ino /\ ni # oi /\ ni # od /\ ni # nd /\ ni # Root /\ Live(ni)
  /\ at[P] = ni /\ V = <<ni, 1>> /\ W = <<ni, 2>> /\ V \in Place /\ W \in Place
  /\ at[V] = ni /\ at[W] = nd
  /\ V # W /\ V # P /\ V # Q /\ V # U /\ W # P /\ W # Q /\ W # U
  /\ dead' = dead \cup {ni} /\ \A k \in Ino : Live(k)' <=> Live(k) /\ k # ni
  /\ \A k \in Ino : nlink'[k] = IF k = ni THEN dec(dec(nlink[k]))
                                ELSE IF k = od THEN dec(nlink[k]) ELSE nlink[k]
  /\ \A q \in Place : at'[q] = IF q = P THEN oi ELSE IF q \in {Q, V, W} THEN 0
                               ELSE IF q = U THEN nd ELSE at[q]

LEMMA RenameOverSound ==
  ASSUME Types, NEW oi, NEW ni, NEW od, NEW nd, NEW P, NEW Q, NEW U, NEW V, NEW W,
         RenameOver(oi, ni, od, nd, P, Q, U, V, W), NEW k \in Ino, Sound(k)
  PROVE  Sound(k)'
<1>0. k # 0 /\ nlink[k] \in 0 .. (LinkWrap - 1)
  BY Sizes DEF Types
<1>a. /\ RenameDir(oi, od, nd, P, Q, U)
      /\ oi \in Ino /\ od \in Ino /\ nd \in Ino /\ ni \in Ino /\ oi # od /\ oi # nd
      /\ ni # oi /\ ni # od /\ ni # nd
      /\ at[P] = ni /\ at[Q] = oi /\ at[U] = od /\ at[V] = ni /\ at[W] = nd
  BY DEF RenameOver, RenameDir
<1>b. /\ P \in Place /\ Q \in Place /\ U \in Place /\ V \in Place /\ W \in Place
      /\ P # Q /\ U # P /\ U # Q /\ V # W /\ V # P /\ V # Q /\ V # U
      /\ W # P /\ W # Q /\ W # U
      /\ P[2] >= 3 /\ Q[2] >= 3 /\ U = <<oi, 2>> /\ U[2] = 2
      /\ V = <<ni, 1>> /\ V[2] = 1 /\ W = <<ni, 2>> /\ W[2] = 2
  BY UpPlace DEF RenameOver, RenameDir
<1>c. Live(od) /\ Live(nd) /\ od \notin dead' /\ nd \notin dead'
  BY DEF RenameOver, RenameDir
<1>1. at'[P] = oi /\ at'[Q] = 0 /\ at'[U] = nd /\ at'[V] = 0 /\ at'[W] = 0
  BY <1>b DEF RenameOver
<1>2. \A q \in Place : q \notin {P, Q, U, V, W} => at'[q] = at[q]
  BY DEF RenameOver
<1>3. CASE k = oi
  <2>1. \A q \in Place : q # P /\ q # Q => (at'[q] = oi <=> at[q] = oi)
    BY <1>0, <1>a, <1>1, <1>2, <1>3
  <2>2. nlink'[oi] = nlink[oi]
    BY <1>a DEF RenameOver
  <2>3. Sound(oi)
    BY <1>3
  <2>4. RenameDir(oi, od, nd, P, Q, U)
    BY <1>a
  <2>5. at'[P] = oi /\ at'[Q] = 0 /\ at'[U] = nd
    BY <1>1
  <2>6. Sound(oi)'
    BY <2>1, <2>2, <2>3, <2>4, <2>5, RenameHung
  <2> QED BY <1>3, <2>6
<1>4. CASE k = ni
  <2>1. \A q \in Place : q # P /\ q # V => (at'[q] = k <=> at[q] = k)
    BY <1>0, <1>a, <1>1, <1>2, <1>4
  <2>2. Cardinality(Of(at, k)) = Cardinality(Of(at', k)) + 2
    <3>1. at[P] = k
      BY <1>a, <1>4
    <3>2. at[V] = k
      BY <1>a, <1>4
    <3>3. at'[P] # k
      BY <1>a, <1>1, <1>4
    <3>4. at'[V] # k
      BY <1>0, <1>1
    <3>5. P \in Place /\ V \in Place /\ P # V
      BY <1>b
    <3>6. Less(at, at', k, P, V)
      BY <2>1, <3>1, <3>2, <3>3, <3>4, <3>5 DEF Less
    <3> QED BY <3>6, OfLess
  <2>3. nlink'[k] = Cardinality(Of(at', k))
    <3>1. Cardinality(Of(at', k)) \in Nat /\ nlink[k] = Cardinality(Of(at', k)) + 2
      BY <2>2, OfFinite DEF Sound
    <3>2. PICK m \in Nat : m = Cardinality(Of(at', k))
      BY <3>1
    <3>3. m + 1 \in Nat /\ nlink[k] = (m + 1) + 1 /\ m + 1 \in 0 .. (LinkWrap - 1)
      BY <1>0, <3>1, <3>2, Sizes
    <3>4. dec(nlink[k]) = m + 1
      BY <1>0, <3>3, DecCount
    <3>5. dec(m + 1) = m
      BY <3>3, DecCount
    <3> QED BY <1>4, <3>2, <3>4, <3>5 DEF RenameOver
  <2>4. ASSUME NEW q \in Place, at'[q] = k PROVE q[2] < 3
    <3>1. at[q] = k /\ q # P
      BY <1>0, <1>a, <1>1, <1>2, <1>4, <2>4
    <3>2. PICK p \in Place : Hung(at, k, p)
      BY <1>4 DEF Sound, RenameOver
    <3>3. p = P
      BY <1>a, <1>b, <1>4, <3>2 DEF Hung
    <3>4. ~ (q[2] >= 3)
      BY <2>4, <3>1, <3>2, <3>3 DEF Hung
    <3> QED BY <3>4 DEF Place
  <2>5. ~ Live(k)'
    BY <1>4 DEF RenameOver
  <2> QED BY <2>3, <2>4, <2>5 DEF Sound
<1>5. ASSUME k # oi, k # ni
      PROVE  /\ \A q \in Place : q # U /\ q # W => (at'[q] = k <=> at[q] = k)
             /\ at'[<<k, 2>>] = at[<<k, 2>>]
  <2>1. \A q \in Place : q # U /\ q # W => (at'[q] = k <=> at[q] = k)
    BY <1>0, <1>a, <1>1, <1>2, <1>5
  <2>2. <<k, 2>> # U /\ <<k, 2>> # W
    BY <1>b, <1>5
  <2>3. <<k, 2>> # P /\ <<k, 2>> # Q /\ <<k, 2>> # V /\ <<k, 2>> \in Place
    BY <1>b, UpPlace
  <2> QED BY <1>2, <2>1, <2>2, <2>3
<1>6. ASSUME k = od \/ k = nd PROVE Stays(k)
  BY <1>a, <1>b, <1>5, <1>6 DEF Stays
<1>7. CASE k = nd /\ od # nd
  <2>1. \A q \in Place : q # U /\ q # W => (at'[q] = k <=> at[q] = k)
    BY <1>a, <1>5, <1>7
  <2>2. at[U] # k /\ at'[U] = k /\ at[W] = k /\ at'[W] # k /\ U # W /\ U \in Place /\ W \in Place
    BY <1>0, <1>a, <1>b, <1>1, <1>7
  <2>3. Cardinality(Of(at, k)) = Cardinality(Of(at', k))
    <3>1. Swapped(at, at', k, U, W)
      BY <2>1, <2>2 DEF Swapped
    <3> QED BY <3>1, OfMoved
  <2>4. nlink'[k] = Cardinality(Of(at', k))
    BY <1>a, <1>7, <2>3 DEF RenameOver, Sound
  <2> QED BY <1>c, <1>6, <1>7, <2>4, StaysSound
<1>8. CASE k = od
  <2>1. \A q \in Place : q # U /\ q # W => (at'[q] = k <=> at[q] = k)
    BY <1>a, <1>5, <1>8
  <2>2. PICK w \in Place : w = IF od = nd THEN W ELSE U
    BY <1>b
  <2>3. at[w] = k /\ at'[w] # k
    BY <1>0, <1>a, <1>1, <1>8, <2>2
  <2>4. \A q \in Place : q # w => (at[q] = k <=> at'[q] = k)
    BY <1>0, <1>a, <1>1, <1>8, <2>1, <2>2
  <2>5. nlink'[k] = dec(nlink[k])
    BY <1>a, <1>8 DEF RenameOver
  <2>6. nlink'[k] = Cardinality(Of(at', k))
    <3>1. More(at', at, k, w)
      BY <2>3, <2>4 DEF More
    <3> QED BY <2>5, <3>1, OneLess
  <2> QED BY <1>c, <1>6, <1>8, <2>6, StaysSound
<1>9. CASE k \notin {oi, ni, od, nd}
  <2>1. \A q \in Place : at'[q] = k <=> at[q] = k
    BY <1>0, <1>a, <1>1, <1>5, <1>9
  <2>2. Calm(k)
    BY <1>5, <1>9, <2>1 DEF RenameOver, Calm
  <2> QED BY <2>2, CalmSound
<1> QED BY <1>3, <1>4, <1>7, <1>8, <1>9

\* The counts after a rename.
RenameCount(oi, ni, od, nd, done) == nlink' = rename_links(oi, ni, od, nd, done)

\* What a rename does, whatever went wrong.
RenameBase(od, on, nd, nn, oi, ni, r) ==
  /\ oi \in Ino /\ ni \in Ino \cup {0} /\ oi = Lookup(od, on) /\ ni = Lookup(nd, nn)
  /\ Live(od) /\ Live(nd) /\ ~ (od = nd /\ on = nn)
  /\ oi # od /\ oi # nd /\ oi # ni /\ ni # nd /\ oi # Root /\ ni # Root
  /\ ni # 0 => kind[ni] # "free" /\ kind[ni] = kind[oi]
  /\ kind[oi] = "dir" => ni # od
  /\ ni = 0 /\ kind[oi] = "dir" /\ od # nd => nlink[nd] < MaxLinks
  /\ kind' = kind /\ slots' = r.dirs /\ torn \subseteq torn'
  /\ RenameCount(oi, ni, od, nd, r.done)
  /\ dead' = IF r.done = 7 /\ kind[oi] = "dir" /\ ni # 0 THEN dead \cup {ni} ELSE dead
  /\ Dentries(IF r.done = 7 THEN Moved(od, on, nd, nn, oi, ni)
              ELSE [Kept(od, on) EXCEPT ![nd][nn] = ni])

Counted(oi, ni, od, nd, done, k) ==
  /\ done < 5 => nlink'[k] = nlink[k]
  /\ k # ni /\ (kind[oi] = "dir" => k # od /\ k # nd) => nlink'[k] = nlink[k]
  /\ kind[oi] # "dir" /\ done = 7 =>
       nlink'[k] = IF k = ni THEN dec(nlink[k]) ELSE nlink[k]
  /\ kind[oi] = "dir" /\ done = 7 /\ ni = 0 =>
       nlink'[k] = IF k = nd THEN IF k = od THEN dec(inc(nlink[k])) ELSE inc(nlink[k])
                   ELSE IF k = od THEN dec(nlink[k]) ELSE nlink[k]
  /\ kind[oi] = "dir" /\ done = 7 /\ ni # 0 /\ ni # od =>
       nlink'[k] = IF k = ni THEN dec(dec(nlink[k]))
                   ELSE IF k = od THEN dec(nlink[k]) ELSE nlink[k]

LEMMA RenameCounts ==
  ASSUME Types, NEW oi, NEW ni \in Ino \cup {0}, NEW od \in Ino, NEW nd \in Ino,
         NEW done, RenameCount(oi, ni, od, nd, done), NEW k \in Ino
  PROVE  Counted(oi, ni, od, nd, done, k)
<1>0. nlink \in [Ino -> 0 .. (LinkWrap - 1)] /\ 0 \notin Ino
  BY Sizes DEF Types
<1>1. PICK isdir \in BOOLEAN : isdir = (kind[oi] = "dir")
  OBVIOUS
<1>2. PICK met : met = IF ni # 0
                       THEN [nlink EXCEPT ![ni] = IF isdir THEN dec(dec(@)) ELSE dec(@)]
                       ELSE IF isdir THEN [nlink EXCEPT ![nd] = inc(@)] ELSE nlink
  OBVIOUS
<1>3. nlink' = IF done < 5 THEN nlink
               ELSE IF isdir /\ done = 7 THEN [met EXCEPT ![od] = dec(@)] ELSE met
  BY <1>1, <1>2, Zenon DEF RenameCount, rename_links
<1>4. /\ DOMAIN met = Ino
      /\ \A j \in Ino : met[j] = IF ni # 0
                                 THEN IF j = ni THEN (IF isdir THEN dec(dec(nlink[j]))
                                                     ELSE dec(nlink[j]))
                                      ELSE nlink[j]
                                 ELSE IF isdir /\ j = nd THEN inc(nlink[j]) ELSE nlink[j]
  <2>1. CASE ni # 0
    BY <1>0, <1>2, <2>1
  <2>2. CASE ni = 0
    BY <1>0, <1>2, <2>2
  <2> QED BY <2>1, <2>2
<1>5. nlink'[k] = IF done < 5 THEN nlink[k]
                  ELSE IF isdir /\ done = 7 /\ k = od THEN dec(met[k]) ELSE met[k]
  BY <1>3, <1>4
<1> HIDE <1>2, <1>3
<1>6. done = 7 => ~ (done < 5)
  OBVIOUS
<1>7. done < 5 => nlink'[k] = nlink[k]
  BY <1>5
<1>8. k # ni /\ (isdir => k # od /\ k # nd) => nlink'[k] = nlink[k]
  BY <1>4, <1>5
<1>9. ~ isdir /\ done = 7 => nlink'[k] = IF k = ni THEN dec(nlink[k]) ELSE nlink[k]
  BY <1>0, <1>4, <1>5, <1>6
<1>10. isdir /\ done = 7 /\ ni = 0 =>
         nlink'[k] = IF k = nd THEN IF k = od THEN dec(inc(nlink[k])) ELSE inc(nlink[k])
                     ELSE IF k = od THEN dec(nlink[k]) ELSE nlink[k]
  BY <1>0, <1>4, <1>5, <1>6
<1>11. isdir /\ done = 7 /\ ni # 0 /\ ni # od =>
         nlink'[k] = IF k = ni THEN dec(dec(nlink[k]))
                     ELSE IF k = od THEN dec(nlink[k]) ELSE nlink[k]
  BY <1>0, <1>4, <1>5, <1>6
<1> QED BY <1>1, <1>7, <1>8, <1>9, <1>10, <1>11 DEF Counted

LEMMA RenameEnds ==
  ASSUME Types, Ends, NEW od \in Ino, NEW on, NEW nd \in Ino, NEW nn, NEW oi, NEW ni, NEW r,
         RenameBase(od, on, nd, nn, oi, ni, r)
  PROVE  Ends'
<1>1. /\ ni \in Ino \cup {0} /\ kind' = kind /\ RenameCount(oi, ni, od, nd, r.done)
      /\ kind[od] = "dir" /\ kind[nd] = "dir"
      /\ ni # 0 => kind[ni] # "free" /\ kind[ni] = kind[oi]
  BY DEF RenameBase, Live
<1>2. ASSUME NEW k \in Ino, kind[k] = "free" PROVE nlink'[k] = 0
  <2>1. k # ni /\ k # od /\ k # nd
    BY <1>1, <1>2, Sizes
  <2>2. Counted(oi, ni, od, nd, r.done, k)
    BY <1>1, RenameCounts
  <2>3. nlink'[k] = nlink[k]
    BY <2>1, <2>2 DEF Counted
  <2> QED BY <1>2, <2>3 DEF Ends
<1>3. \A k \in dead' : kind[k] = "dir"
  BY <1>1 DEF Ends, RenameBase
<1> QED BY <1>1, <1>2, <1>3 DEF Ends

\* The dentries of a rename that failed, as they were looked up.
BothKept(b, od, on, nd, nn, ni) == b = [Kept(od, on) EXCEPT ![nd][nn] = ni]

LEMMA KeptBoth ==
  ASSUME Types, NEW od \in Ino, NEW on \in Name, NEW nd \in Ino, NEW nn \in Name, NEW ni,
         NEW b, BothKept(b, od, on, nd, nn, ni), NEW d \in Ino, NEW n \in Name
  PROVE  b[d][n] =
           IF d = nd /\ n = nn THEN ni
           ELSE IF d = od /\ n = on THEN Lookup(od, on) ELSE dcache[d][n]
<1>1. PICK v : v = Lookup(od, on)
  OBVIOUS
<1>2. PICK c : c = [dcache EXCEPT ![od][on] = v]
  OBVIOUS
<1>3. Kept(od, on) = c
  BY <1>1, <1>2 DEF Kept
<1>4. dcache \in [Ino -> [Name -> Ino \cup {0, Fresh}]]
  BY DEF Types
<1>5. c = [q \in Ino |-> IF q = od THEN [dcache[od] EXCEPT ![on] = v] ELSE dcache[q]]
  BY <1>2, <1>4
<1>6. \A q \in Ino : DOMAIN c[q] = Name
  BY <1>4, <1>5
<1>7. \A q \in Ino, m \in Name : c[q][m] = IF q = od /\ m = on THEN v ELSE dcache[q][m]
  BY <1>4, <1>5
<1>8. DOMAIN c = Ino
  BY <1>5
<1> HIDE <1>2, <1>5
<1>9. [c EXCEPT ![nd][nn] = ni][d] = IF d = nd THEN [c[nd] EXCEPT ![nn] = ni] ELSE c[d]
  BY <1>8
<1>10. [c EXCEPT ![nd][nn] = ni][d][n] = IF d = nd /\ n = nn THEN ni ELSE c[d][n]
  BY <1>6, <1>9
<1> QED BY <1>1, <1>3, <1>7, <1>10 DEF BothKept

\* A rename that changes nothing.
LEMMA RenameNone ==
  ASSUME NameiInv, LinkInv, NEW od \in Ino, NEW on \in Name, NEW nd \in Ino, NEW nn \in Name,
         NEW oi, NEW ni, NEW r, RenameBase(od, on, nd, nn, oi, ni, r),
         slots' = slots, r.done < 5
  PROVE  LinkInv'
<1>0. Types /\ Slotted /\ Linked /\ Ends /\ DentryTrue
  BY DEF NameiInv, LinkInv
<1>1. /\ ni \in Ino \cup {0} /\ RenameCount(oi, ni, od, nd, r.done)
      /\ Live(od) /\ Live(nd) /\ oi \in Ino /\ oi = Lookup(od, on) /\ ni = Lookup(nd, nn)
      /\ torn \subseteq torn' /\ kind' = kind
  BY DEF RenameBase
<1>2. r.done # 7
  BY Sizes
<1>3. dead' = dead /\ Dentries([Kept(od, on) EXCEPT ![nd][nn] = ni])
  BY <1>2 DEF RenameBase
<1>4. \A k \in Ino : nlink'[k] = nlink[k]
  <2>1. \A k \in Ino : Counted(oi, ni, od, nd, r.done, k)
    BY <1>0, <1>1, RenameCounts
  <2> QED BY <2>1 DEF Counted
<1>5. \A k \in Ino : Live(k)' <=> Live(k)
  BY <1>1, <1>3 DEF Live
<1>6. Linked'
  BY <1>0, <1>1, <1>3, <1>4, <1>5, AtSame, CalmAll
<1>7. Ends'
  BY <1>0, RenameEnds
<1>8. PICK c : c = [Kept(od, on) EXCEPT ![nd][nn] = ni]
  OBVIOUS
<1>9. ASSUME NEW d \in Ino, NEW n \in Name, c[d][n] \in Ino \ torn'
      PROVE  Has(slots', d, n, c[d][n])
  <2>1. c[d][n] = IF d = nd /\ n = nn THEN ni
                  ELSE IF d = od /\ n = on THEN oi ELSE dcache[d][n]
    <3>1. BothKept(c, od, on, nd, nn, ni)
      BY <1>8 DEF BothKept
    <3> QED BY <1>0, <1>1, <3>1, KeptBoth
  <2>2. PICK i \in Ino : i = c[d][n] /\ i \notin torn
    BY <1>1, <1>9
  <2>3. CASE d = nd /\ n = nn
    BY <1>1, <2>1, <2>2, <2>3, LookupTrue
  <2>4. CASE ~ (d = nd /\ n = nn) /\ d = od /\ n = on
    BY <1>1, <2>1, <2>2, <2>4, LookupTrue
  <2>5. CASE ~ (d = nd /\ n = nn) /\ ~ (d = od /\ n = on)
    BY <1>0, <2>1, <2>2, <2>5 DEF DentryTrue
  <2> QED BY <2>3, <2>4, <2>5
<1>10. DentryTrue'
  BY <1>3, <1>8, <1>9, TrueStep
<1> QED BY <1>6, <1>7, <1>10 DEF LinkInv

\* A rename that found its entries: x is the inode that the old entry led to,
\* z the one at the place of the new entry.
RenameFirm(od, on, nd, oi, ni, e, p, x, z, done) ==
  /\ Leads(od, e, on, x) /\ x \in Ino /\ e >= 3 /\ p >= 3
  /\ IF ni = 0 THEN z = 0 ELSE z \in Ino
  /\ <<nd, p>> \in Place => at[<<nd, p>>] = z
  /\ RenameAt(AtOf(slots', Dirs), e, oi, od, nd, p, done)

\* What is torn when it does not do what it should.
RenameTears(od, nd, oi, ni, x, z) ==
  /\ {oi, x} \subseteq torn' /\ (ni # 0 => {ni, z} \subseteq torn')
  /\ kind[oi] = "dir" => {od, nd} \subseteq torn' /\ (Live(oi) => at[<<oi, 2>>] \in torn')
  /\ kind[oi] = "dir" /\ ni # 0 =>
       Inside(ni) \subseteq torn' /\ (Live(ni) => at[<<ni, 2>>] \in torn')

LEMMA RenameCalm ==
  ASSUME Types, Slotted, NEW od \in Ino, NEW on, NEW nd \in Ino, NEW nn, NEW oi, NEW ni,
         NEW r, RenameBase(od, on, nd, nn, oi, ni, r), NEW e, NEW p, NEW x, NEW z,
         RenameFirm(od, on, nd, oi, ni, e, p, x, z, r.done),
         RenameTears(od, nd, oi, ni, x, z), NEW k \in Ino \ torn'
  PROVE  Calm(k)
<1>0. k # 0 /\ k \in Ino
  BY Sizes
<1>1. PICK A : A = AtOf(slots', Dirs)
  OBVIOUS
<1>2. PICK P, Q, U : P = <<nd, p>> /\ Q = <<od, e>> /\ U = <<oi, 2>>
  OBVIOUS
<1>3. \A q \in Place : \/ A[q] = at[q] \/ (q = P /\ A[q] = oi) \/ (q = Q /\ A[q] = 0)
                       \/ (q = U /\ A[q] = nd /\ kind[oi] = "dir" /\ Live(oi))
  BY <1>1, <1>2 DEF RenameFirm, RenameAt
<1>4. k # oi /\ k # x /\ k # ni /\ k # z
  <2>1. CASE ni = 0
    BY <1>0, <2>1 DEF RenameTears, RenameFirm
  <2>2. CASE ni # 0
    BY <2>2 DEF RenameTears
  <2> QED BY <2>1, <2>2
<1>5. kind[oi] = "dir" => k # od /\ k # nd /\ (Live(oi) => at[U] # k)
  BY <1>2 DEF RenameTears
<1>6. at[Q] = x /\ (P \in Place => at[P] = z)
  BY <1>2 DEF RenameFirm, Leads
<1>7. \A q \in Place : A[q] = k <=> at[q] = k
  BY <1>0, <1>3, <1>4, <1>5, <1>6
<1>8. <<k, 2>> \in Place /\ <<k, 2>>[1] = k /\ <<k, 2>> # P /\ <<k, 2>> # Q /\ <<k, 2>> # U
  <2>1. e # 2 /\ p # 2
    BY DEF RenameFirm
  <2> QED BY <1>0, <1>2, <1>4, <2>1, UpPlace
<1>9. A[<<k, 2>>] = at[<<k, 2>>]
  BY <1>3, <1>8
<1>10. nlink'[k] = nlink[k]
  <2>1. RenameCount(oi, ni, od, nd, r.done) /\ ni \in Ino \cup {0}
    BY DEF RenameBase
  <2>2. Counted(oi, ni, od, nd, r.done, k)
    BY <1>0, <2>1, RenameCounts
  <2> QED BY <1>4, <1>5, <2>2 DEF Counted
<1>11. kind' = kind
  BY DEF RenameBase
<1>12. CASE ~ (r.done = 7 /\ kind[oi] = "dir" /\ ni # 0)
  <2>1. dead' = dead
    BY <1>12 DEF RenameBase
  <2>2. Dirs' = Dirs /\ (Live(k)' <=> Live(k))
    BY <1>11, <2>1 DEF Dirs, Live
  <2>3. at' = A
    BY <1>1, <2>2 DEF at
  <2> QED BY <1>7, <1>9, <1>10, <2>1, <2>2, <2>3 DEF Calm
<1>13. CASE r.done = 7 /\ kind[oi] = "dir" /\ ni # 0
  <2>1. dead' = dead \cup {ni} /\ ni \in Ino
    BY <1>13 DEF RenameBase
  <2>2. Dirs' = Dirs \ {ni} /\ (Live(k)' => Live(k))
    BY <1>11, <2>1 DEF Dirs, Live
  <2>3. \A q \in Place : at'[q] = IF q[1] = ni THEN 0 ELSE A[q]
    BY <1>1, <2>2, AtDead
  <2>4. ASSUME NEW q \in Place, q[1] = ni, at[q] # 0 PROVE at[q] # k
    <3>1. Live(ni)
      BY <2>4, AtShape
    <3>2. q[2] \in 1 .. MaxSlots /\ (q[2] >= 3 => at[q] \in Inside(ni))
      BY <2>1, <2>4, <3>1, InDir
    <3>3. q[2] < 3 => at[q] = ni \/ q = <<ni, 2>>
      BY <2>1, <2>4, <3>1, InDir
    <3>4. k \notin Inside(ni) /\ k # at[<<ni, 2>>]
      BY <1>13, <3>1 DEF RenameTears
    <3> QED BY <1>4, <3>2, <3>3, <3>4
  <2>5. \A q \in Place : at'[q] = k <=> at[q] = k
    BY <1>0, <1>7, <2>3, <2>4
  <2>6. at'[<<k, 2>>] = at[<<k, 2>>]
    BY <1>4, <1>8, <1>9, <2>3
  <2> QED BY <1>4, <1>10, <2>1, <2>2, <2>5, <2>6 DEF Calm
<1> QED BY <1>12, <1>13

\* A rename that did what it should.
LEMMA RenameMoved ==
  ASSUME NameiInv, LinkInv, NEW od \in Ino, NEW on \in Name, NEW nd \in Ino, NEW nn \in Name,
         NEW oi, NEW ni, NEW r, RenameBase(od, on, nd, nn, oi, ni, r), NEW e, NEW p,
         RenameFirm(od, on, nd, oi, ni, e, p, oi, ni, r.done), r.done = 7,
         od = nd => p # e, oi \notin torn, ni \notin torn,
         kind[oi] = "dir" /\ ni # 0 => empty_dir(slots[ni], ni, {}),
         NEW k \in Ino, Sound(k)
  PROVE  Sound(k)'
<1>0. Types /\ Slotted /\ Linked /\ Ends
  BY DEF NameiInv, LinkInv
<1>a. /\ oi \in Ino /\ ni \in Ino \cup {0} /\ oi = Lookup(od, on) /\ ni = Lookup(nd, nn)
      /\ Live(od) /\ Live(nd) /\ oi # od /\ oi # nd /\ oi # ni /\ ni # nd
      /\ oi # Root /\ ni # Root
      /\ ni # 0 => kind[ni] = kind[oi]
      /\ kind[oi] = "dir" => ni # od
      /\ ni = 0 /\ kind[oi] = "dir" /\ od # nd => nlink[nd] < MaxLinks
      /\ kind' = kind /\ RenameCount(oi, ni, od, nd, r.done)
      /\ dead' = IF kind[oi] = "dir" /\ ni # 0 THEN dead \cup {ni} ELSE dead
  BY DEF RenameBase
<1>1. PICK A : A = AtOf(slots', Dirs)
  OBVIOUS
<1>2. PICK P, Q, U : P = <<nd, p>> /\ Q = <<od, e>> /\ U = <<oi, 2>>
  OBVIOUS
<1>3. /\ P \in Place
      /\ \A q \in Place : A[q] = IF q = P THEN oi ELSE IF q = Q THEN 0
                                 ELSE IF q = U /\ kind[oi] = "dir" /\ Live(oi) THEN nd ELSE at[q]
  BY <1>1, <1>2 DEF RenameFirm, RenameAt
<1>4. /\ Q \in Place /\ at[Q] = oi /\ at[P] = ni /\ P # Q
      /\ P[1] = nd /\ P[2] >= 3 /\ Q[1] = od /\ Q[2] >= 3
  BY <1>2, <1>3 DEF RenameFirm, Leads
<1>5. U \in Place /\ U[1] = oi /\ U[2] = 2 /\ U # P /\ U # Q
  BY <1>2, <1>4, <1>a, UpPlace
<1>6. \A j \in Ino : Counted(oi, ni, od, nd, 7, j)
  BY <1>0, <1>a, RenameCounts
<1>7. CASE kind[oi] # "dir"
  <2>1. dead' = dead /\ Dirs' = Dirs /\ \A j \in Ino : Live(j)' <=> Live(j)
    BY <1>7, <1>a DEF Dirs, Live
  <2>2. at' = A
    BY <1>1, <2>1 DEF at
  <2>3. \A j \in Ino : nlink'[j] = IF j = ni THEN dec(nlink[j]) ELSE nlink[j]
    BY <1>6, <1>7 DEF Counted
  <2>4. ~ Live(oi)' /\ oi \notin dead' /\ (ni # 0 => ~ Live(ni)' /\ ni \notin dead')
    BY <1>0, <1>7, <1>a, <2>1 DEF Ends, Live
  <2>5. \A q \in Place : at'[q] = IF q = P THEN oi ELSE IF q = Q THEN 0 ELSE at[q]
    BY <1>3, <1>7, <2>2
  <2>6. RenameFile(oi, ni, P, Q)
    BY <1>3, <1>4, <1>a, <2>1, <2>3, <2>4, <2>5 DEF RenameFile
  <2> QED BY <1>0, <2>6, RenameFileSound
<1>8. CASE kind[oi] = "dir"
  <2>1. Live(oi) /\ at[U] = od
    BY <1>2, <1>8, <1>a, DirNamed
  <2>2. oi \notin dead /\ od \notin dead /\ nd \notin dead
    BY <1>a, <2>1 DEF Live
  <2>3. Live(oi)' /\ Live(od)' /\ Live(nd)' /\ {oi, od, nd} \cap dead' = {}
    BY <1>8, <1>a, <2>1, <2>2 DEF Live
  <2>4. at[P] # od /\ at[P] # nd /\ at[P] # oi
    BY <1>4, <1>8, <1>a
  <2>5. RenameDir(oi, od, nd, P, Q, U)
    BY <1>2, <1>3, <1>4, <1>5, <1>a, <2>1, <2>3, <2>4 DEF RenameDir
  <2>6. CASE ni = 0
    <3>1. dead' = dead /\ Dirs' = Dirs /\ \A j \in Ino : Live(j)' <=> Live(j)
      BY <1>a, <2>6 DEF Dirs, Live
    <3>2. at' = A
      BY <1>1, <3>1 DEF at
    <3>3. \A q \in Place : at'[q] = IF q = P THEN oi ELSE IF q = Q THEN 0
                                    ELSE IF q = U THEN nd ELSE at[q]
      BY <1>3, <1>8, <2>1, <3>2
    <3>4. ASSUME NEW j \in Ino
          PROVE  nlink'[j] = IF od = nd THEN nlink[j]
                             ELSE IF j = nd THEN nlink[j] + 1
                             ELSE IF j = od THEN dec(nlink[j]) ELSE nlink[j]
      <4>1. nlink'[j] = IF j = nd THEN IF j = od THEN dec(inc(nlink[j])) ELSE inc(nlink[j])
                        ELSE IF j = od THEN dec(nlink[j]) ELSE nlink[j]
        BY <1>6, <1>8, <2>6 DEF Counted
      <4>2. nlink[j] \in 0 .. (LinkWrap - 1)
        BY <1>0 DEF Types
      <4>3. dec(inc(nlink[j])) = nlink[j]
        BY <4>2, Counts
      <4>4. j = nd /\ od # nd => inc(nlink[j]) = nlink[j] + 1
        <5>1. j = nd /\ od # nd => nlink[j] # LinkWrap - 1
          BY <1>8, <1>a, <2>6, <4>2, NameiAssumption
        <5> QED BY <4>2, <5>1, Counts
      <4> QED BY <4>1, <4>3, <4>4
    <3>5. RenameNew(oi, od, nd, P, Q, U)
      BY <1>4, <2>5, <2>6, <3>1, <3>3, <3>4 DEF RenameNew
    <3> QED BY <1>0, <3>5, RenameNewSound
  <2>7. CASE ni # 0
    <3>0. ni \in Ino /\ kind[ni] = "dir"
      BY <1>8, <1>a, <2>7
    <3>1. Live(ni) /\ at[<<ni, 2>>] = nd
      BY <1>a, <3>0, DirNamed
    <3>2. at[<<ni, 1>>] = ni
      BY <1>0, <3>0, <3>1, AtShape
    <3>3. PICK V, W : V = <<ni, 1>> /\ W = <<ni, 2>>
      OBVIOUS
    <3>4. /\ V \in Place /\ W \in Place /\ V[1] = ni /\ W[1] = ni /\ V[2] = 1 /\ W[2] = 2
          /\ at[V] = ni /\ at[W] = nd
      <4>1. 1 \in 1 .. MaxSlots /\ 2 \in 1 .. MaxSlots
        BY Sizes
      <4> QED BY <3>0, <3>1, <3>2, <3>3, <4>1, PlaceIn
    <3>5. V # W /\ V # P /\ V # Q /\ V # U /\ W # P /\ W # Q /\ W # U
      BY <1>4, <1>5, <1>a, <3>4
    <3>6. dead' = dead \cup {ni} /\ Dirs' = Dirs \ {ni}
      BY <1>8, <1>a, <2>7 DEF Dirs, Live
    <3>7. \A j \in Ino : Live(j)' <=> Live(j) /\ j # ni
      BY <1>a, <3>6 DEF Live
    <3>8. \A j \in Ino : nlink'[j] = IF j = ni THEN dec(dec(nlink[j]))
                                     ELSE IF j = od THEN dec(nlink[j]) ELSE nlink[j]
      BY <1>6, <1>8, <1>a, <2>7 DEF Counted
    <3>9. ASSUME NEW q \in Place
          PROVE  at'[q] = IF q = P THEN oi ELSE IF q \in {Q, V, W} THEN 0
                          ELSE IF q = U THEN nd ELSE at[q]
      <4>1. at'[q] = IF q[1] = ni THEN 0 ELSE A[q]
        BY <1>1, <3>6, AtDead
      <4>2. CASE q[1] # ni
        BY <1>3, <1>8, <2>1, <3>4, <4>1, <4>2
      <4>3. CASE q[1] = ni
        <5>1. q # P /\ q # Q /\ q # U
          BY <1>4, <1>5, <1>8, <1>a, <4>3
        <5>2. q[2] >= 3 => at[q] = 0
          BY <1>0, <1>8, <2>7, <3>0, <3>1, <4>3, EmptyInside
        <5>3. ~ (q[2] >= 3) => q = V \/ q = W
          <6>1. PICK j \in 1 .. MaxSlots : q = <<ni, j>>
            BY <4>3 DEF Place
          <6>2. q[2] = j
            BY <6>1
          <6>3. ~ (j >= 3) => j = 1 \/ j = 2
            OBVIOUS
          <6> QED BY <3>3, <6>1, <6>2, <6>3
        <5> QED BY <4>1, <4>3, <5>1, <5>2, <5>3
      <4> QED BY <4>2, <4>3
    <3>10. RenameOver(oi, ni, od, nd, P, Q, U, V, W)
      BY <1>4, <1>8, <1>a, <2>5, <3>0, <3>1, <3>3, <3>4, <3>5, <3>6, <3>7, <3>8, <3>9
         DEF RenameOver
    <3> QED BY <1>0, <3>10, RenameOverSound
  <2> QED BY <2>6, <2>7
<1> QED BY <1>7, <1>8

\* The dentries after a rename that changed an entry.
LEMMA RenameTrue ==
  ASSUME NameiInv, LinkInv, NEW od \in Ino, NEW on \in Name, NEW nd \in Ino, NEW nn \in Name,
         NEW oi, NEW ni, NEW r, RenameBase(od, on, nd, nn, oi, ni, r),
         \A q \in Ino, m \in Name, v \in Ino :
            Has(slots, q, m, v) /\ ~ (q = od /\ m = on) /\ ~ (q = nd /\ m = nn) =>
              Has(slots', q, m, v),
         r.done = 7 => Has(slots', nd, nn, oi),
         r.done # 7 => oi \in torn' /\ ni \in torn' \cup {0}
  PROVE  DentryTrue'
<1>0. Types /\ DentryTrue
  BY DEF NameiInv, LinkInv
<1>1. /\ oi \in Ino /\ ni \in Ino \cup {0} /\ oi = Lookup(od, on)
      /\ ~ (od = nd /\ on = nn) /\ torn \subseteq torn' /\ 0 \notin Ino /\ Fresh \notin Ino
  BY Sizes DEF RenameBase
<1>2. ASSUME NEW d \in Ino, NEW n \in Name, dcache[d][n] \in Ino \ torn',
             ~ (d = od /\ n = on), ~ (d = nd /\ n = nn)
      PROVE  Has(slots', d, n, dcache[d][n])
  <2>1. Has(slots, d, n, dcache[d][n])
    BY <1>0, <1>1, <1>2 DEF DentryTrue
  <2> QED BY <1>2, <2>1
<1>3. CASE r.done = 7
  <2>1. PICK c : c = Moved(od, on, nd, nn, oi, ni)
    OBVIOUS
  <2>2. Dentries(c)
    BY <1>3, <2>1 DEF RenameBase
  <2>3. ASSUME NEW d \in Ino, NEW n \in Name, c[d][n] \in Ino \ torn'
        PROVE  Has(slots', d, n, c[d][n])
    <3>1. c[d][n] = IF d = nd /\ n = nn THEN oi
                    ELSE IF (d = od /\ n = on) \/ d = ni THEN Fresh ELSE dcache[d][n]
      BY <2>1 DEF Moved
    <3>2. CASE d = nd /\ n = nn
      BY <1>3, <3>1, <3>2
    <3>3. CASE ~ (d = nd /\ n = nn)
      <4>1. c[d][n] = dcache[d][n] /\ ~ (d = od /\ n = on)
        BY <1>1, <2>3, <3>1, <3>3
      <4> QED BY <1>2, <2>3, <3>3, <4>1
    <3> QED BY <3>2, <3>3
  <2> QED BY <2>2, <2>3, TrueStep
<1>4. CASE r.done # 7
  <2>1. PICK c : c = [Kept(od, on) EXCEPT ![nd][nn] = ni]
    OBVIOUS
  <2>2. Dentries(c)
    BY <1>4, <2>1 DEF RenameBase
  <2>3. ASSUME NEW d \in Ino, NEW n \in Name, c[d][n] \in Ino \ torn'
        PROVE  Has(slots', d, n, c[d][n])
    <3>1. BothKept(c, od, on, nd, nn, ni)
      BY <2>1 DEF BothKept
    <3>2. c[d][n] = IF d = nd /\ n = nn THEN ni
                    ELSE IF d = od /\ n = on THEN oi ELSE dcache[d][n]
      BY <1>0, <1>1, <3>1, KeptBoth
    <3>3. c[d][n] = dcache[d][n] /\ ~ (d = od /\ n = on) /\ ~ (d = nd /\ n = nn)
      BY <1>1, <1>4, <2>3, <3>2
    <3> QED BY <1>2, <2>3, <3>3
  <2> QED BY <2>2, <2>3, TrueStep
<1> QED BY <1>3, <1>4

\* A rename that found its entries keeps the tree.
RenameErr(oi, ni, x, z, f, done) == done # 7 \/ oi # x \/ ni # z \/ f.step = 3

\* is are the inodes it is about; they are torn when it did not do what it
\* should.
RenameAbout(is, od, nd, oi, ni, x, z, f, done) ==
  /\ {oi, x} \subseteq is /\ (ni # 0 => {ni, z} \subseteq is)
  /\ kind[oi] = "dir" => {od, nd} \subseteq is
  /\ kind[oi] = "dir" /\ ni # 0 => Inside(ni) \subseteq is
  /\ RenameErr(oi, ni, x, z, f, done) \/ is \cap torn # {} => is \ {0} \subseteq torn'
  /\ is \cap torn # {} => Up(oi) \cup Up(ni) \subseteq torn'

LEMMA RenameWent ==
  ASSUME NameiInv, LinkInv, NEW od \in Ino, NEW on \in Name, NEW nd \in Ino, NEW nn \in Name,
         NEW oi, NEW ni, NEW r, RenameBase(od, on, nd, nn, oi, ni, r), NEW e, NEW p, NEW f,
         NEW x, NEW z, RenameFirm(od, on, nd, oi, ni, e, p, x, z, r.done), od = nd => p # e,
         kind[oi] = "dir" /\ ni # 0 => empty_dir(slots[ni], ni, Bad(f, 3)),
         NEW is, RenameAbout(is, od, nd, oi, ni, x, z, f, r.done)
  PROVE  Linked'
<1>0. Types /\ Slotted /\ Linked
  BY DEF NameiInv, LinkInv
<1>1. /\ oi \in Ino /\ ni \in Ino \cup {0} /\ oi = Lookup(od, on) /\ ni = Lookup(nd, nn)
      /\ Live(od) /\ Live(nd) /\ torn \subseteq torn' /\ 0 \notin Ino
      /\ (ni # 0 => kind[ni] = kind[oi]) /\ oi # Root /\ ni # Root
  BY Sizes DEF RenameBase
<1>2. x \in Ino /\ (IF ni = 0 THEN z = 0 ELSE z \in Ino)
  BY DEF RenameFirm
<1>u. /\ {oi, x} \subseteq is /\ (ni # 0 => {ni, z} \subseteq is)
      /\ kind[oi] = "dir" => {od, nd} \subseteq is
      /\ kind[oi] = "dir" /\ ni # 0 => Inside(ni) \subseteq is
      /\ RenameErr(oi, ni, x, z, f, r.done) \/ is \cap torn # {} => is \ {0} \subseteq torn'
      /\ is \cap torn # {} => Up(oi) \cup Up(ni) \subseteq torn'
  BY DEF RenameAbout
<1> USE <1>u
<1>3. CASE RenameErr(oi, ni, x, z, f, r.done) \/ is \cap torn # {}
  <2>1. is \ {0} \subseteq torn'
    BY <1>3
  <2>2. ASSUME NEW j \in Ino, kind[j] = "dir", Live(j), NEW d \in Ino, NEW n \in Name,
               Live(d), j = Lookup(d, n), j # Root, j \in is, d \in torn',
               is \cap torn # {} => Up(j) \subseteq torn'
        PROVE  at[<<j, 2>>] \in torn'
    <3>1. CASE j \in torn
      <4>1. at[<<j, 2>>] = slots[j][2].ino
        BY <1>0, <2>2, AtShape
      <4>2. at[<<j, 2>>] \in Up(j)
        BY <2>2, <4>1 DEF Up
      <4> QED BY <2>2, <3>1, <4>2
    <3>2. CASE j \notin torn
      <4>1. at[<<j, 2>>] = d
        BY <2>2, <3>2, DirNamed
      <4> QED BY <2>2, <4>1
    <3> QED BY <3>1, <3>2
  <2>3. kind[oi] = "dir" => od \in torn' /\ nd \in torn'
    BY <1>1, <2>1
  <2>4. kind[oi] = "dir" /\ Live(oi) => at[<<oi, 2>>] \in torn'
    BY <1>1, <2>2, <2>3
  <2>5. kind[oi] = "dir" /\ ni # 0 /\ Live(ni) => at[<<ni, 2>>] \in torn'
    BY <1>1, <2>2, <2>3
  <2>6. kind[oi] = "dir" /\ ni # 0 => Inside(ni) \subseteq torn'
    <3>1. ni # 0 => Inside(ni) \subseteq Ino
      BY <1>0, <1>1, InsideUp
    <3> QED BY <1>1, <2>1, <3>1
  <2>7. {oi, x} \subseteq torn' /\ (ni # 0 => {ni, z} \subseteq torn')
    BY <1>1, <1>2, <2>1
  <2>8. RenameTears(od, nd, oi, ni, x, z)
    BY <2>3, <2>4, <2>5, <2>6, <2>7 DEF RenameTears
  <2>9. \A k \in Ino \ torn' : Calm(k)
    BY <1>0, <2>8, RenameCalm
  <2> QED BY <1>0, <1>1, <2>9, LinkedStep
<1>4. CASE ~ RenameErr(oi, ni, x, z, f, r.done) /\ is \cap torn = {}
  <2>1. r.done = 7 /\ x = oi /\ z = ni /\ f.step # 3
    BY <1>4 DEF RenameErr
  <2>2. Bad(f, 3) = {}
    BY <2>1 DEF Bad
  <2>3. oi \notin torn /\ ni \notin torn
    <3>1. torn \subseteq Ino
      BY <1>0 DEF Types
    <3> QED BY <1>1, <1>4, <3>1
  <2>4. ASSUME NEW k \in Ino \ torn' PROVE Sound(k)'
    <3>1. Sound(k)
      BY <1>0, <1>1, <2>4 DEF Linked
    <3>2. RenameFirm(od, on, nd, oi, ni, e, p, oi, ni, r.done)
      BY <2>1
    <3>3. kind[oi] = "dir" /\ ni # 0 => empty_dir(slots[ni], ni, {})
      BY <2>2
    <3>4. r.done = 7 /\ k \in Ino
      BY <2>1, <2>4
    <3> HIDE <2>1
    <3> QED BY <2>3, <3>1, <3>2, <3>3, <3>4, RenameMoved
  <2> QED BY <1>0, <1>1, <2>4, LinkedStep
<1> QED BY <1>3, <1>4

LEMMA RenameTree ==
  ASSUME NameiInv, LinkInv, NEW od \in Ino, NEW nd \in Ino, NEW on \in Name, NEW nn \in Name,
         Rename(od, on, nd, nn)
  PROVE  LinkInv'
<1>0. Types /\ Slotted /\ Single /\ Dentry /\ Linked /\ Ends
  BY DEF NameiInv, LinkInv
<1>1. PICK oi \in {Lookup(od, on)}, ni \in {Lookup(nd, nn)} :
        /\ MayRename(od, on, nd, nn, oi, ni)
        /\ UNCHANGED <<kind, tmp>>
        /\ \E f \in Fault({5, 6, 7}, {1, 2, 3, 4, 5}) : Renamed(od, on, nd, nn, oi, ni, f)
  BY Zenon DEF Rename
<1>f. PICK f \in Fault({5, 6, 7}, {1, 2, 3, 4, 5}) : Renamed(od, on, nd, nn, oi, ni, f)
  BY <1>1
<1> DEFINE isdir == kind[oi] = "dir"
<1>2. PICK e : e = find_entry(slots[od], on, Bad(f, 1))
  OBVIOUS
<1>3. PICK t : t = IF ni = 0 THEN 0 ELSE find_entry(slots[nd], nn, Bad(f, 4))
  OBVIOUS
<1> DEFINE go == /\ e # 0 /\ (isdir => dotdot(slots[oi], Bad(f, 2)) # 0)
                 /\ ni # 0 => t # 0 /\ (isdir => empty_dir(slots[ni], ni, Bad(f, 3)))
<1>4. PICK r : r = IF go THEN rename_dirs(e, t, oi, od, nd, nn, f)
                   ELSE [dirs |-> slots, done |-> 0]
  OBVIOUS
<1>x. PICK x : x = inode_by_name(slots[od], on, Bad(f, 1))
  OBVIOUS
<1>z. PICK z : z = IF ni = 0 THEN 0 ELSE inode_by_name(slots[nd], nn, Bad(f, 4))
  OBVIOUS
<1>o. PICK old, new : /\ old = About(od, on, Bad(f, 1))
                      /\ new = IF ni = 0 THEN {} ELSE About(nd, nn, Bad(f, 4))
  OBVIOUS
<1>s. PICK is, ds : /\ is = old \cup new \cup (IF isdir THEN {od, nd} ELSE {})
                              \cup (IF isdir /\ ni # 0 THEN Inside(ni) ELSE {})
                    /\ ds = Up(oi) \cup Up(ni)
  OBVIOUS
<1> DEFINE wrote == r.done >= 5 \/ slots' # slots
           err == r.done # 7 \/ Cardinality(old) > 1 \/ Cardinality(new) > 1 \/ f.step = 3
<1>5. /\ slots' = r.dirs
      /\ nlink' = rename_links(oi, ni, od, nd, r.done)
      /\ dead' = IF r.done = 7 /\ isdir /\ ni # 0 THEN dead \cup {ni} ELSE dead
      /\ Dentries(IF r.done = 7 THEN Moved(od, on, nd, nn, oi, ni)
                  ELSE [Kept(od, on) EXCEPT ![nd][nn] = ni])
      /\ Outcome(f, wrote, err, is, ds)
  BY <1>f, <1>2, <1>3, <1>4, <1>o, <1>s, Zenon DEF Renamed
<1>6. torn \subseteq torn'
  BY <1>5, OutcomeTorn
<1>7. /\ Live(od) /\ Live(nd) /\ ~ (od = nd /\ on = nn) /\ oi # 0
      /\ oi # ni /\ oi # Root /\ ni # Root
      /\ ni = 0 => CanCreate(nd, nn)
      /\ ni # 0 => kind[ni] # "free" /\ kind[ni] = kind[oi]
      /\ kind[oi] = "dir" => nd \notin Below(oi) /\ (ni # 0 => od \notin Below(ni))
      /\ ni = 0 /\ kind[oi] = "dir" /\ od # nd => nlink[nd] < MaxLinks
  BY <1>1 DEF MayRename, Positive
<1>8. oi \in Ino /\ oi # od /\ ni \in Ino \cup {0} /\ ni # nd
  BY <1>0, <1>1, <1>7, LookupOK
<1>9. oi # nd /\ (kind[oi] = "dir" => ni # od)
  <2>1. kind[oi] = "dir" => oi \in Below(oi)
    BY <1>8 DEF Below
  <2>2. ni # 0 => ni \in Below(ni)
    BY <1>8 DEF Below
  <2> QED BY <1>7, <2>1, <2>2, Sizes DEF Live
<1>10. RenameBase(od, on, nd, nn, oi, ni, r)
  BY <1>1, <1>5, <1>6, <1>7, <1>8, <1>9 DEF RenameBase, RenameCount
<1>11. Ends'
  BY <1>0, <1>10, RenameEnds
<1>12. CASE ~ go
  <2>1. slots' = slots /\ r.done = 0
    BY <1>4, <1>5, <1>12
  <2>2. r.done < 5
    BY <2>1
  <2> QED BY <1>10, <2>1, <2>2, RenameNone
<1>13. CASE go
  <2>1. /\ e # 0 /\ (ni # 0 => t # 0) /\ r = rename_dirs(e, t, oi, od, nd, nn, f)
        /\ isdir /\ ni # 0 => empty_dir(slots[ni], ni, Bad(f, 3))
    BY <1>4, <1>13
  <2>2. /\ Leads(od, e, on, x) /\ x \in Ino
        /\ ni # 0 => Leads(nd, t, nn, z) /\ z \in Ino
    <3>1. Leads(od, e, on, x) /\ x \in Ino
      BY <1>2, <1>7, <1>x, <2>1, FoundLeads
    <3>2. ASSUME ni # 0 PROVE Leads(nd, t, nn, z) /\ z \in Ino
      BY <1>3, <1>7, <1>z, <2>1, <3>2, FoundLeads
    <3> QED BY <3>1, <3>2
  <2>3. RenameFound(e, t, oi, od, on, nd, nn)
    <3>1. Holds(slots[od], e) /\ slots[od][e].name = on
      BY <2>2 DEF Leads, Slot
    <3>2. t # 0 => Holds(slots[nd], t) /\ slots[nd][t].name = nn
      BY <1>3, <2>2 DEF Leads, Slot
    <3> QED BY <1>7, <1>8, <1>9, <2>1, <3>1, <3>2 DEF RenameFound
  <2>4. /\ RenameSound(r, e, oi, od, nd, nn)
        /\ \E p, s5, e5, s6, e6, s7, e7 :
             RenameWrites(r, e, t, oi, od, nd, nn, p, s5, e5, s6, e6, s7, e7)
    BY <1>0, <2>1, <2>3, RenameDirs
  <2>5. PICK p, s5, e5, s6, e6, s7, e7 :
               RenameWrites(r, e, t, oi, od, nd, nn, p, s5, e5, s6, e6, s7, e7)
    BY <2>4
  <2>6. p \in 3 .. (Len(slots[nd]) + 1) /\ (od = nd => p # e)
        /\ IF t = 0 THEN ~ Holds(slots[nd], p) ELSE p = t
    BY <2>5 DEF RenameWrites
  <2>7. e >= 3
    BY <2>2 DEF Leads
  <2>8. RenameAt(AtOf(slots', Dirs), e, oi, od, nd, p, r.done)
    <3>1. RenameAt(AtOf(r.dirs, Dirs), e, oi, od, nd, p, r.done)
      BY <2>3, <2>5, <2>7, RenamePlaces
    <3> QED BY <1>5, <3>1
  <2>9. <<nd, p>> \in Place => at[<<nd, p>>] = z
    <3>1. CASE ni # 0
      BY <2>1, <2>2, <2>6, <3>1 DEF Leads
    <3>2. CASE ni = 0
      <4>1. <<nd, p>> \in Place => p \in 1 .. MaxSlots
        BY DEF Place
      <4>2. nd \in Dirs /\ kind[nd] = "dir" /\ Formed(slots, kind)
        BY <1>0, <1>7 DEF Dirs, Live, Slotted
      <4>3. <<nd, p>> \in Place => at[<<nd, p>>] =
              IF Holds(slots[nd], p) THEN slots[nd][p].ino ELSE 0
        BY <4>1, <4>2, AtSlot DEF at
      <4> QED BY <1>3, <1>z, <2>6, <3>2, <4>3
    <3> QED BY <3>1, <3>2
  <2>10. RenameFirm(od, on, nd, oi, ni, e, p, x, z, r.done)
    <3>1. p >= 3
      BY <2>6
    <3> QED BY <1>z, <2>2, <2>7, <2>8, <2>9, <3>1 DEF RenameFirm
  <2>11. CASE ~ wrote
    <3>1. slots' = slots /\ r.done < 5
      <4>1. r.done \in {4, 5, 6, 7}
        BY <2>4 DEF RenameSound
      <4> QED BY <2>11, <4>1
    <3> QED BY <1>10, <3>1, RenameNone
  <2>12. CASE wrote
    <3>1. old = {oi, x} /\ (ni # 0 => new = {ni, z})
      BY <1>1, <1>o, <1>x, <1>z DEF About
    <3>2. RenameErr(oi, ni, x, z, f, r.done) => err
      <4>1. oi # x => Cardinality(old) > 1
        <5>1. oi # x => Cardinality({oi, x}) = 2
          BY PairCount, Zenon
        <5> QED BY <3>1, <5>1
      <4>2. ni # 0 /\ ni # z => Cardinality(new) > 1
        <5>1. ni # z => Cardinality({ni, z}) = 2
          BY PairCount, Zenon
        <5> QED BY <3>1, <5>1
      <4>3. ni # z => ni # 0
        BY <1>z
      <4> QED BY <4>1, <4>2, <4>3 DEF RenameErr
    <3>3. /\ err \/ is \cap torn # {} => is \ {0} \subseteq torn'
          /\ is \cap torn # {} => ds \subseteq torn'
      <4>1. PICK w \in BOOLEAN, er \in BOOLEAN : w = wrote /\ er = err
        OBVIOUS
      <4>2. Outcome(f, w, er, is, ds)
        BY <1>5, <4>1
      <4> HIDE DEF wrote, err
      <4>3. w
        BY <2>12, <4>1
      <4> QED BY <4>1, <4>2, <4>3, OutcomeTorn
    <3>4. /\ {oi, x} \subseteq is /\ (ni # 0 => {ni, z} \subseteq is)
          /\ (kind[oi] = "dir" => {od, nd} \subseteq is)
          /\ (kind[oi] = "dir" /\ ni # 0 => Inside(ni) \subseteq is)
      BY <1>s, <3>1
    <3>5. /\ RenameErr(oi, ni, x, z, f, r.done) \/ is \cap torn # {} => is \ {0} \subseteq torn'
          /\ is \cap torn # {} => Up(oi) \cup Up(ni) \subseteq torn'
      BY <1>s, <3>2, <3>3
    <3> HIDE DEF err, wrote
    <3>a. RenameAbout(is, od, nd, oi, ni, x, z, f, r.done)
      BY <3>4, <3>5 DEF RenameAbout
    <3>b. /\ od = nd => p # e
          /\ kind[oi] = "dir" /\ ni # 0 => empty_dir(slots[ni], ni, Bad(f, 3))
      BY <2>1, <2>6
    <3>6. Linked'
      BY <1>10, <2>10, <3>a, <3>b, RenameWent
    <3>7. r.done # 7 => oi \in torn' /\ ni \in torn' \cup {0}
      BY <1>7, <1>8, <3>4, <3>5, Sizes DEF RenameErr
    <3>8. r.done = 7 => Has(slots', nd, nn, oi)
      BY <1>5, <2>4 DEF RenameSound, Has, Holds
    <3>9. ASSUME NEW q \in Ino, NEW m \in Name, NEW v \in Ino, Has(slots, q, m, v),
                 ~ (q = od /\ m = on), ~ (q = nd /\ m = nn)
          PROVE  Has(slots', q, m, v)
      <4>1. v # 0
        BY Sizes
      <4>2. Has(r.dirs, q, m, v)
        BY <2>3, <2>5, <3>9, <4>1, RenameHas
      <4> QED BY <1>5, <4>2
    <3>10. DentryTrue'
      BY <1>10, <3>7, <3>8, <3>9, RenameTrue
    <3> QED BY <1>11, <3>6, <3>10 DEF LinkInv
  <2> QED BY <2>11, <2>12
<1> QED BY <1>12, <1>13

-----------------------------------------------------------------------------
(* Every state satisfies LinkInv.                                          *)

LEMMA LinksInit == Init => LinkInv
<1> SUFFICES ASSUME Init PROVE LinkInv
  OBVIOUS
<1>0. NameiInv
  BY NameiInit
<1>1. Types /\ Slotted /\ Root \in Ino
  BY <1>0, Sizes DEF NameiInv
<1>2. Dirs = {Root} /\ Live(Root)
  BY <1>1 DEF Init, Dirs, Live
<1>3. slots[Root] = <<Slot(Dot, Root), Slot(DotDot, Root)>>
  BY <1>1 DEF Init, make_empty
<1>4. Len(slots[Root]) = 2 /\ slots[Root][2].ino = Root
  BY <1>3 DEF Slot
<1>5. at[<<Root, 1>>] = Root /\ at[<<Root, 2>>] = Root
  BY <1>1, <1>2, <1>4, AtShape
<1>6. PICK a, b : a = <<Root, 1>> /\ b = <<Root, 2>>
  OBVIOUS
<1>7. a \in Place /\ b \in Place /\ a # b /\ at[a] = Root /\ at[b] = Root
  <2>1. 1 \in 1 .. MaxSlots /\ 2 \in 1 .. MaxSlots
    BY Sizes
  <2> QED BY <1>1, <1>5, <1>6, <2>1, PlaceIn
<1>8. ASSUME NEW q \in Place, at[q] # 0 PROVE q = a \/ q = b
  <2>1. PICK d \in Ino, j \in 1 .. MaxSlots : q = <<d, j>>
    BY DEF Place
  <2>2. d = Root /\ j <= 2
    BY <1>2, <1>4, <1>8, <2>1 DEF at, AtOf
  <2>3. j = 1 \/ j = 2
    BY <2>2
  <2> QED BY <1>6, <2>1, <2>2, <2>3
<1>9. ASSUME NEW i \in Ino PROVE Sound(i)
  <2>1. i \notin dead /\ i # 0 /\ (Live(i) => i = Root)
    BY <1>2, Sizes DEF Init, Dirs
  <2>2. CASE i = Root
    <3>1. Of(at, i) = {a, b}
      BY <1>7, <1>8, <2>1, <2>2 DEF Of
    <3>2. Cardinality({a, b}) = 2
      BY <1>7, PairCount
    <3>3. nlink[i] = Cardinality(Of(at, i))
      BY <2>2, <3>1, <3>2 DEF Init
    <3> QED BY <2>1, <2>2, <3>3 DEF Sound
  <2>3. CASE i # Root
    <3>1. Of(at, i) = {}
      BY <1>7, <1>8, <2>1, <2>3 DEF Of
    <3>2. nlink[i] = Cardinality(Of(at, i))
      BY <2>3, <3>1, FS_EmptySet DEF Init
    <3> QED BY <2>1, <2>3, <3>2 DEF Sound
  <2> QED BY <2>2, <2>3
<1>10. Linked
  BY <1>9 DEF Linked
<1>11. Ends
  BY <1>1 DEF Init, Ends
<1>12. DentryTrue
  BY Sizes DEF Init, DentryTrue
<1> QED BY <1>10, <1>11, <1>12 DEF LinkInv

LEMMA LinksStep == NameiInv /\ LinkInv /\ [Next]_vars => LinkInv'
<1> SUFFICES ASSUME NameiInv, LinkInv, [Next]_vars PROVE LinkInv'
  OBVIOUS
<1>1. CASE UNCHANGED vars
  <2>1. UNCHANGED <<kind, nlink, slots, dead, dcache, torn>>
    BY <1>1 DEF vars
  <2>2. \A i \in Ino : Live(i)' <=> Live(i)
    BY <2>1 DEF Live
  <2>3. Linked'
    BY <2>1, <2>2, AtSame, CalmAll DEF LinkInv
  <2> QED BY <2>1, <2>3 DEF LinkInv, Ends, DentryTrue
<1>2. CASE Next
  BY <1>2, MknodLinks, MkdirLinks, UnlinkLinks, RmdirLinks, DropDentryLinks, LinkLinks,
     LookupBlindLinks, RenameTree, EvictLinks, TmpfileLinks DEF Next
<1> QED BY <1>1, <1>2

LEMMA LinksAlways == Spec => [](NameiInv /\ LinkInv)
  BY NameiInit, NameiStep, LinksInit, LinksStep, PTL DEF Spec

\* The entries of the model and the places of the proof are the same.
LEMMA NamesPlaces ==
  ASSUME NameiInv, NEW i \in Ino
  PROVE  /\ Names(i) = Of(at, i)
         /\ Outside(i) = {p \in Of(at, i) : p[2] >= 3}
<1>0. Types /\ Slotted /\ i # 0
  BY Sizes DEF NameiInv
<1>1. ASSUME NEW d \in Dirs
      PROVE  /\ d \in Ino /\ kind[d] = "dir" /\ DirOK(d, slots[d]) /\ slots[d] \in Seq(AnySlot)
             /\ Len(slots[d]) \in Nat /\ Len(slots[d]) <= MaxSlots
  <2>1. d \in Ino /\ Live(d)
    BY <1>1 DEF Dirs
  <2>2. DirOK(d, slots[d]) /\ slots[d] \in Seq(AnySlot) /\ kind[d] = "dir"
    BY <1>0, <2>1, LiveDir
  <2> QED BY <2>1, <2>2 DEF DirOK
<1>2. ASSUME NEW d \in Dirs, NEW j \in 1 .. MaxSlots
      PROVE  /\ <<d, j>> \in Place
             /\ at[<<d, j>>] = i <=> Holds(slots[d], j) /\ slots[d][j].ino = i
  <2>1. /\ <<d, j>> \in Place
        /\ at[<<d, j>>] = IF Holds(slots[d], j) THEN slots[d][j].ino ELSE 0
    BY <1>0, <1>1, <1>2, AtSlot DEF at, Slotted
  <2> QED BY <1>0, <2>1
<1>3. ASSUME NEW p, p \in Names(i) PROVE p \in Of(at, i)
  <2>1. PICK d \in Dirs : \E j \in Used(slots[d], {}) : p = <<d, j>> /\ slots[d][j].ino = i
    BY <1>3 DEF Names
  <2>j. PICK j \in Used(slots[d], {}) : p = <<d, j>> /\ slots[d][j].ino = i
    BY <2>1
  <2>2. Holds(slots[d], j)
    BY <1>1, <2>j, UsedSlots
  <2>3. j \in 1 .. MaxSlots
    <3>1. MaxSlots \in Nat /\ j \in 1 .. Len(slots[d])
      BY <2>2, Sizes DEF Holds
    <3> QED BY <1>1, <2>1, <3>1
  <2> QED BY <1>2, <2>j, <2>2, <2>3 DEF Of
<1>4. ASSUME NEW p, p \in Of(at, i)
      PROVE  p \in Names(i) /\ (slots[p[1]][p[2]].name \in Name <=> p[2] >= 3)
  <2>1. p \in Place /\ at[p] = i
    BY <1>4 DEF Of
  <2>2. PICK d \in Ino, j \in 1 .. MaxSlots : p = <<d, j>>
    BY <2>1 DEF Place
  <2>3. p[1] = d /\ p[2] = j
    BY <2>2
  <2>4. d \in Dirs
    BY <1>0, <2>1, <2>3, AtShape DEF Dirs
  <2>5. Holds(slots[d], j) /\ slots[d][j].ino = i
    BY <1>2, <2>1, <2>2, <2>4
  <2>6. j \in Used(slots[d], {})
    BY <1>1, <2>4, <2>5, UsedSlots
  <2>7. p \in Names(i)
    BY <2>2, <2>4, <2>5, <2>6 DEF Names
  <2>8. slots[d][j].name \in Name <=> j >= 3
    <3>1. DirOK(d, slots[d]) /\ Len(slots[d]) \in Nat /\ j \in 1 .. Len(slots[d])
      BY <1>1, <2>4, <2>5 DEF Holds
    <3>2. j >= 3 => slots[d][j].name \in Name
      BY <1>0, <2>5, <3>1 DEF DirOK
    <3>3. ~ (j >= 3) => slots[d][j].name \notin Name
      <4>1. ~ (j >= 3) => j = 1 \/ j = 2
        BY <3>1
      <4> QED BY <3>1, <4>1, Sizes DEF DirOK
    <3> QED BY <3>2, <3>3
  <2> QED BY <2>3, <2>7, <2>8
<1>5. Names(i) = Of(at, i)
  BY <1>3, <1>4
<1>6. Outside(i) = {p \in Of(at, i) : p[2] >= 3}
  BY <1>4, <1>5 DEF Outside
<1> QED BY <1>5, <1>6

\* i_nlink is the number of entries that name the inode, through every step of
\* every operation of namei.c and every failure in it, but for the inodes of an
\* operation that failed when an entry was already changed.
THEOREM LinksExactCorrect == Spec => []LinksExact
<1>1. NameiInv /\ LinkInv => LinksExact
  <2> SUFFICES ASSUME NameiInv, LinkInv, NEW i \in Ino \ torn
               PROVE  nlink[i] = Cardinality(Names(i))
    BY DEF LinksExact
  <2>1. nlink[i] = Cardinality(Of(at, i))
    BY DEF LinkInv, Linked, Sound
  <2>2. Names(i) = Of(at, i)
    BY NamesPlaces
  <2> QED BY <2>1, <2>2
<1> QED BY <1>1, LinksAlways, PTL

\* The directories stay a tree: mkdir, rmdir and rename leave every directory
\* that no failed operation tore with one name, in the directory its .. leads to.
THEOREM TreeShapeCorrect == Spec => []TreeShape
<1>1. NameiInv /\ LinkInv => TreeShape
  <2> SUFFICES ASSUME NameiInv, LinkInv, NEW d \in (Dirs \ torn) \ {Root}
               PROVE  \E dj \in Outside(d) :
                        Outside(d) = {dj} /\ slots[d][2] = Slot(DotDot, dj[1])
    BY DEF TreeShape
  <2>0. d \in Ino /\ Live(d) /\ d # Root /\ Types /\ Slotted
    BY DEF Dirs, NameiInv
  <2>1. PICK p \in Place : Hung(at, d, p)
    BY <2>0 DEF LinkInv, Linked, Sound
  <2>2. Outside(d) = {q \in Of(at, d) : q[2] >= 3}
    BY <2>0, NamesPlaces
  <2>3. Outside(d) = {p}
    BY <2>1, <2>2 DEF Hung, Of
  <2>4. slots[d][2].ino = p[1]
    BY <2>0, <2>1, AtShape DEF Hung
  <2>5. slots[d][2] = Slot(DotDot, p[1])
    <3>1. DirOK(d, slots[d])
      BY <2>0, LiveDir
    <3>2. slots[d][2] \in AnySlot /\ slots[d][2].name = DotDot
      BY <3>1 DEF DirOK
    <3> QED BY <2>4, <3>2 DEF AnySlot, Slot
  <2> QED BY <2>3, <2>5
<1> QED BY <1>1, LinksAlways, PTL

=============================================================================
