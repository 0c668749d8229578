---------------------------- MODULE MountProofs -----------------------------
(***************************************************************************)
(* Proofs about Mount, for every set of zones, every size of a pad, every  *)
(* heap and every set of chunk sizes.                                      *)
(***************************************************************************)
EXTENDS Mount, WellFoundedInduction, TLAPS

-----------------------------------------------------------------------------
(* Arithmetic.                                                             *)

\* find_first_zero_bit finds a bit when there is one.
LEMMA MinIn ==
  ASSUME NEW S, S \subseteq Nat, S # {}
  PROVE  Min(S) \in S
<1> DEFINE R == OpToRel(<, Nat)
<1>1. IsWellFoundedOn(R, Nat)
  BY NatLessThanWellFounded, Zenon
<1>2. PICK x \in S : \A y \in S : ~ (<<y, x>> \in R)
  BY <1>1, WFMin, Zenon
<1>3. ASSUME NEW y \in S PROVE x =< y
  <2>1. x \in Nat /\ y \in Nat
    BY <1>3
  <2>2. ~ (y < x)
    BY <1>2, <1>3, <2>1, Zenon DEF OpToRel
  <2> QED BY <2>1, <2>2
<1> QED BY <1>3, Zenon DEF Min

\* The two pads hold a zone number, whatever the zone is.
LEMMA Pads ==
  ASSUME NEW z \in Zone
  PROVE  /\ pad_low(z) \in 0 .. (Half - 1)
         /\ pad_high(z) \in 0 .. (Half - 1)
         /\ pad_high(z) * Half + pad_low(z) = z
<1>1. z \in Nat /\ z < Half * Half /\ Half \in Nat \ {0}
  <2>1. Half * Half \in Nat
    BY MountAssumption, Z3
  <2> QED BY <2>1, MountAssumption
<1> DEFINE q == z \div Half
           r == z % Half
<1>2. q \in Nat /\ r \in 0 .. (Half - 1) /\ z = q * Half + r
  BY <1>1, Z3
<1>3. q < Half
  <2> SUFFICES ASSUME q >= Half PROVE FALSE
    BY <1>1, <1>2
  <2>1. q * Half >= Half * Half
    BY <1>1, <1>2, Z3
  <2>2. q * Half \in Nat /\ Half * Half \in Nat
    BY <1>1, <1>2, Z3
  <2> QED BY <1>1, <1>2, <2>1, <2>2
<1>4. pad_high(z) = q /\ pad_low(z) = r
  BY DEF pad_low, pad_high
<1> HIDE DEF q, r
<1> QED BY <1>1, <1>2, <1>3, <1>4

LEMMA Bounds ==
  /\ HeapBase \in Nat \ {0} /\ MaxBrk \in Nat /\ HeapBase < MaxBrk
  /\ Size \subseteq Nat \ {0} /\ Half \in Nat \ {0}
  /\ Zone \subseteq Nat \ {0}
<1>1. Half * Half \in Nat
  BY MountAssumption, Z3
<1> QED BY <1>1, MountAssumption

-----------------------------------------------------------------------------
(* The inductive invariant.                                                *)

Mounted == mode \in {"ro", "rw"}

\* A file system without an extra super block has not been mounted, or the
\* mount went on without one.
NoEsb == esb_loc = 0 /\ Mounted => without /\ extra_sb_location = 0

\* The break is in the heap, in memory and in the extra super block, or there
\* are only zeros.
BreakSound ==
  /\ Mounted => Zeros \/ HeapBase <= brk
  /\ \A z \in Zone : esb[z] = 0 \/ HeapBase <= esb[z]

\* The chunks end at or below the break of the extra super block; there are
\* none before there is one.
ChunksBelow ==
  without \/ /\ esb_loc = 0 => stored = {}
             /\ esb_loc # 0 => \A c \in stored : c.at + c.size <= esb[esb_loc]

MountInv ==
  /\ TypeOK /\ EsbSound /\ NoEsb /\ BreakSound /\ ChunksBelow /\ ChunksKept
  /\ BootKept

LEMMA MountInit == Init => MountInv
<1> SUFFICES ASSUME Init PROVE MountInv
  OBVIOUS
<1>1. esb_loc = 0
  BY Bounds DEF Init, esb_loc
<1>2. 0 \in 0 .. (MaxBrk - 1) /\ 0 \in 0 .. (Half - 1)
  BY Bounds
<1>3. TypeOK
  BY <1>2, Zenon DEF Init, TypeOK
<1> QED BY <1>1, <1>3
        DEF Init, MountInv, EsbSound, NoEsb, Mounted, BreakSound, ChunksBelow,
            ChunksKept, BootKept

Modes == {"out", "ro", "rw", "stuck", "killed", "bug"}

\* Steps that leave the disk alone.
LEMMA DiskSame ==
  ASSUME MountInv,
         UNCHANGED <<pad0, pad1, esb, boot, used, files, stored, found, lost,
                     without>>,
         mode' \in Modes, extra_sb_location' \in Zone \cup {0}, brk' \in Nat,
         Mounted' => Mounted /\ UNCHANGED <<extra_sb_location, brk>>
  PROVE  MountInv'
<1>1. esb_loc' = esb_loc
  BY DEF esb_loc
<1> QED BY <1>1
        DEF MountInv, TypeOK, EsbSound, NoEsb, Mounted, BreakSound, ChunksBelow,
            ChunksKept, BootKept, Modes, Zeros

\* The mount that makes the extra super block.
LEMMA MountNew ==
  ASSUME MountInv, NEW m \in {"ro", "rw"}, Mount(m), esb_loc = 0, used # Zone
  PROVE  MountInv'
<1> DEFINE z == Min(Zone \ used)
<1>1. z \in Zone /\ z \notin used /\ z # 0
  <2>1. Zone \ used \subseteq Nat /\ Zone \ used # {}
    BY Bounds DEF MountInv, TypeOK
  <2> QED BY <2>1, MinIn, Bounds
<1>2. /\ used' = used \cup {z} /\ extra_sb_location' = z
      /\ esb' = [esb EXCEPT ![z] = HeapBase] /\ brk' = HeapBase
      /\ pad0' = pad_low(z) /\ pad1' = pad_high(z)
      /\ found' = {} /\ mode' = m
      /\ UNCHANGED <<boot, files, stored, lost, without>>
  BY Zenon DEF Mount, alloc_new_esb, fill_extra_super
<1> HIDE DEF z
<1>3. esb_loc' = z
  BY <1>1, <1>2, Pads DEF esb_loc
<1>4. TypeOK'
  BY <1>1, <1>2, Pads, Bounds DEF MountInv, TypeOK
<1>5. esb'[z] = HeapBase /\ \A y \in Zone : y # z => esb'[y] = esb[y]
  BY <1>1, <1>2 DEF MountInv, TypeOK
<1>6. EsbSound' /\ NoEsb' /\ BreakSound' /\ BootKept' /\ ChunksKept'
  BY <1>1, <1>2, <1>3, <1>5, Bounds
  DEF MountInv, TypeOK, EsbSound, NoEsb, BreakSound, Mounted, BootKept, ChunksKept
<1>7. ChunksBelow'
  BY <1>1, <1>2, <1>3 DEF MountInv, ChunksBelow
<1> QED BY <1>4, <1>6, <1>7 DEF MountInv

\* A mount that finds it, or goes on without.
LEMMA MountAgain ==
  ASSUME MountInv, NEW m \in {"ro", "rw"}, Mount(m), esb_loc # 0 \/ used = Zone
  PROVE  MountInv'
<1>1. /\ extra_sb_location' = esb_loc /\ brk' = fill_extra_super(esb_loc)
      /\ without' = (without \/ esb_loc = 0) /\ mode' = m
      /\ UNCHANGED <<used, esb, pad0, pad1, found, boot, files, stored, lost>>
  BY Zenon DEF Mount, alloc_new_esb
<1>2. esb_loc' = esb_loc
  BY <1>1 DEF esb_loc
<1>3. esb_loc \in Zone \cup {0}
  BY DEF MountInv, TypeOK, EsbSound
<1>4. /\ brk' \in Nat /\ (brk' = 0 \/ HeapBase <= brk')
      /\ esb_loc # 0 => brk' = esb[esb_loc]
  BY <1>1, <1>3, Bounds DEF MountInv, TypeOK, BreakSound, fill_extra_super
<1>5. TypeOK'
  BY <1>1, <1>3, <1>4, Bounds DEF MountInv, TypeOK
<1>6. EsbSound' /\ BreakSound'
  BY <1>1, <1>2, <1>4, Bounds DEF MountInv, EsbSound, BreakSound, Mounted, Zeros
<1>7. NoEsb'
  BY <1>1, <1>2 DEF NoEsb
<1>8. ChunksBelow' /\ ChunksKept' /\ BootKept'
  BY <1>1, <1>2 DEF MountInv, ChunksBelow, ChunksKept, BootKept
<1> QED BY <1>5, <1>6, <1>7, <1>8 DEF MountInv

\* A mount that is killed leaves at most a zone that nobody has, or that was
\* never written and is all zeros.
LEMMA KilledStep ==
  ASSUME MountInv, MountKilled PROVE MountInv'
<1>1. CASE UNCHANGED <<used, pad0, pad1, found>>
  BY <1>1, DiskSame DEF MountKilled, MountInv, TypeOK, Mounted, Modes
<1>2. CASE esb_loc = 0 /\ used # Zone
  <2> DEFINE z == Min(Zone \ used)
  <2>1. z \in Zone /\ z \notin used /\ z # 0
    <3>1. Zone \ used \subseteq Nat /\ Zone \ used # {}
      BY <1>2, Bounds DEF MountInv, TypeOK
    <3> QED BY <3>1, MinIn, Bounds
  <2>2. /\ used' = used \cup {z} /\ mode' = "killed"
        /\ \/ UNCHANGED <<pad0, pad1, found>>
           \/ pad0' = pad_low(z) /\ pad1' = pad_high(z) /\ found' \subseteq found
        /\ UNCHANGED <<esb, boot, files, stored, extra_sb_location, brk, lost,
                       without>>
    BY <1>2, Zenon DEF MountKilled, alloc_new_esb
  <2> HIDE DEF z
  <2>3. esb_loc' \in {0, z} /\ pad0' \in 0 .. (Half - 1) /\ pad1' \in 0 .. (Half - 1)
    BY <1>2, <2>1, <2>2, Pads DEF esb_loc, MountInv, TypeOK
  <2>4. TypeOK'
    BY <2>1, <2>2, <2>3 DEF MountInv, TypeOK
  <2>5. EsbSound' /\ NoEsb' /\ BreakSound' /\ BootKept' /\ ChunksKept'
    BY <2>1, <2>2, <2>3
    DEF MountInv, TypeOK, EsbSound, NoEsb, BreakSound, Mounted, BootKept, ChunksKept
  <2>6. ChunksBelow'
    BY <1>2, <2>2 DEF MountInv, ChunksBelow
  <2> QED BY <2>4, <2>5, <2>6 DEF MountInv
<1> QED BY <1>1, <1>2 DEF MountKilled, alloc_new_esb

LEMMA ZoneStep ==
  ASSUME MountInv, NEW z \in Zone, Take(z) \/ Free(z)
  PROVE  MountInv'
<1>1. /\ UNCHANGED <<pad0, pad1, esb, boot, stored, found, mode, lost, without,
                     extra_sb_location, brk>>
      /\ used' \subseteq Zone /\ files' \subseteq used'
      /\ used \ files \subseteq used' \ files'
  BY DEF Take, Free, memory, MountInv, TypeOK
<1>2. esb_loc' = esb_loc
  BY <1>1 DEF esb_loc
<1> QED BY <1>1, <1>2
        DEF MountInv, TypeOK, EsbSound, NoEsb, Mounted, BreakSound, ChunksBelow,
            ChunksKept, BootKept, Zeros

\* With an extra super block nothing that is stored reaches over the break,
\* so the new chunk is written over nothing.
LEMMA StoreStep ==
  ASSUME MountInv, NEW n \in Size, Store(n)
  PROVE  MountInv'
<1> DEFINE c == [at |-> brk, size |-> n]
           over == {d \in stored : Extent(d) \cap Extent(c) # {}}
<1>1. /\ mode = "rw" /\ brk + n < MaxBrk /\ brk' = brk + n
      /\ stored' = (stored \ over) \cup {c}
      /\ found' = found \cup {c} /\ lost' = lost \cup over
      /\ UNCHANGED <<pad0, pad1, used, files, mode, extra_sb_location,
                     without>>
  BY DEF Store, chunk_alloc
<1>2. update_brk_on_disk(brk + n)
  BY DEF Store, chunk_alloc
<1>3. n \in Nat \ {0} /\ brk \in HeapBase .. (MaxBrk - 1)
  <2>1. HeapBase <= brk
    BY <1>1 DEF MountInv, BreakSound, Mounted, Store
  <2> QED BY <1>1, <2>1, Bounds DEF MountInv, TypeOK
<1>4. c \in Chunk
  BY <1>3, Bounds DEF Chunk
<1>5. esb_loc' = esb_loc
  BY <1>1 DEF esb_loc
<1>6. CASE esb_loc = 0
  <2>1. without /\ extra_sb_location = 0
    BY <1>1, <1>6 DEF MountInv, NoEsb, Mounted
  <2>2. boot' = TRUE /\ esb' = esb
    BY <1>2, <2>1 DEF update_brk_on_disk
  <2>3. over \subseteq Chunk
    BY DEF MountInv, TypeOK
  <2> HIDE DEF c, over
  <2>4. TypeOK'
    BY <1>1, <1>3, <1>4, <2>2, <2>3, Bounds DEF MountInv, TypeOK
  <2> QED BY <1>1, <1>3, <1>5, <1>6, <2>1, <2>2, <2>4, Bounds
          DEF MountInv, EsbSound, NoEsb, Mounted, BreakSound, ChunksBelow,
              ChunksKept, BootKept
<1>7. CASE esb_loc # 0
  <2>1. /\ extra_sb_location = esb_loc /\ esb[esb_loc] = brk
        /\ esb_loc \in Zone /\ esb_loc \in used \ files
    BY <1>1, <1>7 DEF MountInv, EsbSound, TypeOK
  <2>2. /\ esb' = [esb EXCEPT ![esb_loc] = brk + n] /\ boot' = boot
        /\ esb'[esb_loc] = brk + n
        /\ \A y \in Zone : y # esb_loc => esb'[y] = esb[y]
    BY <1>2, <1>7, <2>1 DEF update_brk_on_disk, MountInv, TypeOK
  <2>3. over \subseteq stored /\ over \subseteq Chunk
    BY DEF MountInv, TypeOK
  <2>4. ASSUME ~without, NEW d \in stored
        PROVE  d.at \in Nat /\ d.size \in Nat /\ d.at + d.size <= brk
    <3>1. d \in Chunk /\ d.at + d.size <= esb[esb_loc]
      BY <1>7, <2>4 DEF MountInv, ChunksBelow, TypeOK
    <3>2. d.at \in HeapBase .. (MaxBrk - 1) /\ d.size \in Size
      BY <3>1 DEF Chunk
    <3>3. d.size \in Nat
      BY <3>2, Bounds
    <3>4. d.at \in Nat
      BY <3>2, Bounds
    <3> QED BY <2>1, <3>1, <3>3, <3>4, Zenon
  <2>5. without \/ over = {}
    <3> SUFFICES ASSUME ~without, NEW d \in stored
                 PROVE  Extent(d) \cap Extent(c) = {}
      OBVIOUS
    <3>1. d.at \in Nat /\ d.size \in Nat /\ d.at + d.size <= brk
      BY <2>4
    <3>2. \A x \in Extent(d) : x \in Int /\ x < brk
      BY <1>3, <3>1, Bounds DEF Extent
    <3>3. \A x \in Extent(c) : x >= brk
      BY <1>3, Bounds DEF Extent
    <3> QED BY <1>3, <3>2, <3>3, Bounds
  <2>6. c.at + c.size = brk + n
    OBVIOUS
  <2>7. ASSUME ~without, NEW d \in stored PROVE d.at + d.size <= brk + n
    BY <1>3, <2>4, <2>7, Bounds
  <2> HIDE DEF c, over
  <2>8. TypeOK'
    BY <1>1, <1>3, <1>4, <2>1, <2>2, <2>3, Bounds DEF MountInv, TypeOK
  <2>9. ChunksBelow' /\ ChunksKept'
    BY <1>1, <1>3, <1>5, <1>7, <2>2, <2>5, <2>6, <2>7, Bounds
    DEF MountInv, ChunksBelow, ChunksKept
  <2>10. EsbSound' /\ NoEsb' /\ BreakSound' /\ BootKept'
    BY <1>1, <1>3, <1>5, <1>7, <2>1, <2>2, Bounds
    DEF MountInv, EsbSound, NoEsb, Mounted, BreakSound, BootKept
  <2> QED BY <2>8, <2>9, <2>10 DEF MountInv
<1> QED BY <1>6, <1>7

LEMMA MountStep == MountInv /\ [Next]_vars => MountInv'
<1> SUFFICES ASSUME MountInv, [Next]_vars PROVE MountInv'
  OBVIOUS
<1>1. ASSUME NEW m \in {"ro", "rw"}, Mount(m) PROVE MountInv'
  BY <1>1, MountNew, MountAgain
<1>2. ASSUME NEW m \in {"ro", "rw"}, Remount(m) PROVE MountInv'
  BY <1>2, DiskSame DEF Remount, Mounted, MountInv, TypeOK, Modes
<1>3. ASSUME NEW t \in Trouble, MountFails(t) PROVE MountInv'
  BY <1>3, DiskSame DEF MountFails, Mounted, MountInv, TypeOK, Modes
<1>4. CASE Umount \/ Reboot
  BY <1>4, DiskSame DEF Umount, Reboot, Forget, Mounted, Modes
<1>5. ASSUME NEW z \in Zone, Take(z) \/ Free(z) PROVE MountInv'
  BY <1>5, ZoneStep
<1>6. ASSUME NEW n \in Size, Store(n) PROVE MountInv'
  BY <1>6, StoreStep
<1>7. CASE UNCHANGED vars
  BY <1>7, DiskSame DEF vars, Mounted, MountInv, TypeOK, Modes
<1>8. CASE MountKilled
  BY <1>8, KilledStep
<1>9. ASSUME NEW n \in Size, StoreKilled(n) PROVE MountInv'
  <2>1. brk' \in Nat
    BY <1>9, Bounds DEF StoreKilled, chunk_alloc, MountInv, TypeOK
  <2> QED BY <1>9, <2>1, DiskSame DEF StoreKilled, Mounted, MountInv, TypeOK, Modes
<1> QED BY <1>1, <1>2, <1>3, <1>4, <1>5, <1>6, <1>7, <1>8, <1>9 DEF Next

LEMMA MountAlways == Spec => []MountInv
  BY MountInit, MountStep, PTL DEF Spec

-----------------------------------------------------------------------------
(* What follows.                                                           *)

\* The words of the super blocks stay in their types.
THEOREM MountTypes == Spec => []TypeOK
<1>1. MountInv => TypeOK
  BY DEF MountInv
<1> QED BY <1>1, MountAlways, PTL

\* The pads always lead to the extra super block, which belongs to no file and
\* holds the break while the file system is mounted.
THEOREM EsbCorrect == Spec => []EsbSound
<1>1. MountInv => EsbSound
  BY DEF MountInv
<1> QED BY <1>1, MountAlways, PTL

\* Through any sequence of mounts, failed and killed mounts, remounts and chunkers
\* no chunk that a file refers to is written over, and the hash table leads to
\* none that is gone; unless a mount went on without an extra super block.
THEOREM ChunksCorrect == Spec => []ChunksKept
<1>1. MountInv => ChunksKept
  BY DEF MountInv
<1> QED BY <1>1, MountAlways, PTL

\* Block 0 is written only after such a mount.
THEOREM BootCorrect == Spec => []BootKept
<1>1. MountInv => BootKept
  BY DEF MountInv
<1> QED BY <1>1, MountAlways, PTL

\* An extra super block, once made, stays the one of the file system.
THEOREM EsbStays == Spec => EsbOnce
<1>1. MountInv /\ [Next]_vars => [esb_loc # 0 => esb_loc' = esb_loc]_vars
  <2> SUFFICES ASSUME Next, esb_loc # 0 PROVE esb_loc' = esb_loc
    BY DEF vars, esb_loc
  <2>1. UNCHANGED <<pad0, pad1>>
    BY DEF Next, Mount, alloc_new_esb, MountFails, MountKilled, Umount, Remount,
           Reboot, Take, Free, Store, StoreKilled
  <2> QED BY <2>1 DEF esb_loc
<1> QED BY <1>1, MountAlways, PTL DEF Spec, EsbOnce

=============================================================================
