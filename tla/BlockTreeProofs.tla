--------------------------- MODULE BlockTreeProofs ---------------------------
(***************************************************************************)
(* Proofs about BlockTree, for every number of readers, every zone area    *)
(* and every size of a block.  There are three invariants, one on top of   *)
(* the other.  IInv says how the zones of the file hang together at every  *)
(* step of an allocation or a truncate: a height for every zone, so that   *)
(* pointers lead one level down and to nothing twice, and what the stack   *)
(* of truncate has still to do.  Limits says which blocks that stack takes *)
(* away: all of those behind i_size, and none in front of it.  ReadersOK   *)
(* says what a reader without the inode lock has read so far.              *)
(***************************************************************************)
EXTENDS BlockTree, FiniteSetTheorems, TLAPS

-----------------------------------------------------------------------------
(* Paths and branches.                                                     *)

LEMMA UpTo4 ==
  ASSUME NEW m \in 1 .. DEPTH
  PROVE  /\ m \in Nat /\ 1 <= m /\ m <= 4
         /\ m = 1 \/ m = 2 \/ m = 3 \/ m = 4
<1>1. m \in 1 .. 4 BY DEF DEPTH
<1>2. m = 1 \/ m = 2 \/ m = 3 \/ m = 4 BY <1>1
<1> QED BY <1>2

LEMMA SameSeq ==
  ASSUME NEW X, NEW s \in Seq(X), NEW t \in Seq(X), Len(s) = Len(t),
         \A n \in 1 .. Len(s) : s[n] = t[n]
  PROVE  s = t
OBVIOUS

\* What block_to_path returns for a block in front of s_maxbytes.
IsPath(path) ==
  /\ path \in Seq(Nat)
  /\ Len(path) \in 1 .. DEPTH
  /\ IF Len(path) = 1 THEN path[1] < DIRECT ELSE path[1] = DIRECT + Len(path) - 2
  /\ \A n \in 2 .. Len(path) : path[n] \in Index

\* Division by the number of pointers in a block.
LEMMA Sizes ==
  /\ IndirCount \in Nat \ {0} /\ DIRECT \in Nat \ {0} /\ MaxBlocks \in Nat
  /\ MaxErrors \in Nat /\ MaxWrite \in Nat
BY BlockTreeAssumption

LEMMA DivMod ==
  ASSUME NEW b \in Nat, NEW q, NEW r, q = b \div IndirCount, r = b % IndirCount
  PROVE  q \in Nat /\ r \in Index /\ b = IndirCount * q + r
<1>1. q \in Int /\ r \in Int /\ 0 <= r /\ r < IndirCount
  BY Sizes
<1>2. b = IndirCount * q + r
  BY <1>1, Sizes, SMT
<1>3. q >= 0
  BY Sizes, Z3
<1> QED BY <1>1, <1>2, <1>3, Sizes DEF Index

LEMMA DivIndex ==
  ASSUME NEW b \in Nat
  PROVE  b \div IndirCount \in Nat /\ b % IndirCount \in Index
<1> DEFINE q == b \div IndirCount
           r == b % IndirCount
<1>1. q = b \div IndirCount /\ r = b % IndirCount
  OBVIOUS
<1> HIDE DEF q, r
<1>2. q \in Nat /\ r \in Index
  BY <1>1, DivMod
<1> QED BY <1>1, <1>2

LEMMA DivBelow ==
  ASSUME NEW b \in Nat, NEW x \in Nat, b < IndirCount * x
  PROVE  b \div IndirCount < x
<1> DEFINE q == b \div IndirCount
           r == b % IndirCount
<1>1. q = b \div IndirCount /\ r = b % IndirCount
  OBVIOUS
<1> HIDE DEF q, r
<1>2. q \in Nat /\ r \in Nat /\ b = IndirCount * q + r
  BY <1>1, DivMod DEF Index
<1>3. ~ (q >= x)
  BY <1>2, Sizes, Z3
<1> QED
  BY <1>1, <1>2, <1>3

LEMMA PathIs ==
  ASSUME NEW b \in Nat
  PROVE  IF b < MaxBlocks THEN IsPath(block_to_path(b)) ELSE block_to_path(b) = <<>>
<1> DEFINE b1 == b - DIRECT
           b2 == b1 - IndirCount
           b3 == b2 - IndirCount * IndirCount
           I2 == IndirCount * IndirCount
           I3 == IndirCount * I2
<1> USE BlockTreeAssumption
<1>0. /\ IndirCount \in Nat /\ DIRECT \in Nat /\ MaxBlocks \in Nat
      /\ I2 \in Nat /\ I3 \in Nat /\ IndirCount * IndirCount * IndirCount = I3
  <2>1. IndirCount * IndirCount \in Nat OBVIOUS
  <2>2. IndirCount * I2 \in Nat BY <2>1
  <2>3. IndirCount * IndirCount * IndirCount = IndirCount * I2 BY Z3
  <2> QED BY <2>1, <2>2, <2>3
<1>1. CASE b >= MaxBlocks
  BY <1>1 DEF block_to_path
<1>2. CASE b < MaxBlocks /\ b < DIRECT
  BY <1>2 DEF block_to_path, IsPath, DEPTH
<1>3. CASE b < MaxBlocks /\ ~ (b < DIRECT) /\ b1 < IndirCount
  <2>1. block_to_path(b) = <<DIRECT, b1>>
    BY <1>3 DEF block_to_path
  <2>2. b1 \in Index
    BY <1>3 DEF Index
  <2> HIDE DEF b1
  <2> QED BY <1>3, <2>1, <2>2 DEF IsPath, DEPTH, Index
<1>4. CASE b < MaxBlocks /\ ~ (b < DIRECT) /\ ~ (b1 < IndirCount) /\ b2 < I2
  <2>1. block_to_path(b) = <<DIRECT + 1, b2 \div IndirCount, b2 % IndirCount>>
    BY <1>4 DEF block_to_path
  <2>2. b2 \in Nat
    BY <1>4
  <2>3. b2 \div IndirCount \in Index /\ b2 % IndirCount \in Index
    <3> HIDE DEF b2
    <3>1. b2 \div IndirCount < IndirCount
      BY <1>4, <2>2, DivBelow
    <3> QED BY <2>2, <3>1, DivIndex DEF Index
  <2> HIDE DEF b2
  <2>4. \A x, y \in Index : IsPath(<<DIRECT + 1, x, y>>)
    BY DEF IsPath, DEPTH, Index
  <2> QED BY <1>4, <2>1, <2>3, <2>4
<1>5. CASE b < MaxBlocks /\ ~ (b < DIRECT) /\ ~ (b1 < IndirCount) /\ ~ (b2 < I2)
  <2> DEFINE q == b3 \div IndirCount
  <2>1. block_to_path(b) = <<DIRECT + 2, q \div IndirCount, q % IndirCount,
                             b3 % IndirCount>>
    BY <1>5 DEF block_to_path
  <2>2. b3 \in Nat /\ b3 < I3
    <3>1. b3 = b - DIRECT - IndirCount - I2
      OBVIOUS
    <3>2. MaxBlocks <= DIRECT + IndirCount + I2 + I3
      BY <1>0
    <3>3. ~ (b - DIRECT - IndirCount < I2)
      BY <1>5
    <3> HIDE DEF b3, I2, I3
    <3> QED BY <1>0, <1>5, <3>1, <3>2, <3>3
  <2>3. q \in Nat /\ b3 % IndirCount \in Index
    <3> HIDE DEF b3
    <3> QED BY <2>2, DivIndex
  <2>4. q < I2
    <3> HIDE DEF b3
    <3> QED BY <1>0, <2>2, DivBelow
  <2> HIDE DEF q
  <2>5. q \div IndirCount < IndirCount
    BY <2>3, <2>4, DivBelow
  <2>6. q \div IndirCount \in Index /\ q % IndirCount \in Index
    BY <2>3, <2>5, DivIndex DEF Index
  <2>7. \A x, y, z \in Index : IsPath(<<DIRECT + 2, x, y, z>>)
    BY DEF IsPath, DEPTH, Index
  <2> HIDE DEF b3
  <2> QED BY <1>5, <2>1, <2>3, <2>6, <2>7
<1> QED
  BY <1>1, <1>2, <1>3, <1>4, <1>5

IsCells(s) == s \in Seq(({Inode} \cup Zone) \X Nat)

\* What get_branch returns: the cells on the path as far as pointers lead.
IsBranch(p, path, s) ==
  /\ IsCells(s)
  /\ Len(s) \in 1 .. Len(path)
  /\ s[1] = <<Inode, path[1]>>
  /\ \A n \in 2 .. Len(s) : p[s[n - 1]] \in Zone /\ s[n] = <<p[s[n - 1]], path[n]>>
  /\ Len(s) < Len(path) => p[s[Len(s)]] \notin Zone

\* One more step on the way.
Longer(p, path, s, n) ==
  IF Len(s) = n - 1 /\ p[s[Len(s)]] \in Zone
  THEN Append(s, <<p[s[Len(s)]], path[n]>>) ELSE s

\* The prefix of a branch up to n cells.
BranchTo(p, path, s, n) ==
  /\ IsCells(s)
  /\ Len(s) \in 1 .. n
  /\ s[1] = <<Inode, path[1]>>
  /\ \A i \in 2 .. Len(s) : p[s[i - 1]] \in Zone /\ s[i] = <<p[s[i - 1]], path[i]>>
  /\ Len(s) < n => p[s[Len(s)]] \notin Zone

LEMMA LongerIs ==
  ASSUME NEW p, NEW path \in Seq(Nat), NEW s, NEW n \in 2 .. Len(path),
         BranchTo(p, path, s, n - 1)
  PROVE  BranchTo(p, path, Longer(p, path, s, n), n)
<1> DEFINE t == Longer(p, path, s, n)
<1>0. s \in Seq(({Inode} \cup Zone) \X Nat)
  BY DEF BranchTo, IsCells
<1>n. Len(s) \in 1 .. n - 1 /\ path[n] \in Nat /\ n \in Nat /\ Len(path) \in Nat
  BY DEF BranchTo
<1>1. CASE Len(s) = n - 1 /\ p[s[Len(s)]] \in Zone
  <2> DEFINE c == <<p[s[Len(s)]], path[n]>>
  <2>1. t = Append(s, c)
    BY <1>1 DEF Longer
  <2>2. c \in ({Inode} \cup Zone) \X Nat
    BY <1>n, <1>1
  <2> HIDE DEF c, t
  <2>3. t \in Seq(({Inode} \cup Zone) \X Nat) /\ Len(t) = n /\ t[n] = c
        /\ \A i \in 1 .. n - 1 : t[i] = s[i]
    BY <1>0, <1>1, <2>1, <2>2, SMTT(30)
  <2>n. Len(t) = n
    BY <2>3
  <2>4. t[1] = <<Inode, path[1]>>
    BY <2>3, SMTT(30) DEF BranchTo
  <2>5. ASSUME NEW i \in 2 .. Len(t)
        PROVE  p[t[i - 1]] \in Zone /\ t[i] = <<p[t[i - 1]], path[i]>>
    <3>1. CASE i = n
      BY <1>n, <1>1, <2>3, <3>1, n - 1 \in 1 .. n - 1 DEF c
    <3>2. CASE i # n
      <4>1. i \in 2 .. Len(s) /\ i - 1 \in 1 .. n - 1 /\ i \in 1 .. n - 1
        BY <1>n, <1>1, <2>n, <3>2
      <4>2. p[s[i - 1]] \in Zone /\ s[i] = <<p[s[i - 1]], path[i]>>
        BY <4>1 DEF BranchTo
      <4> QED BY <2>3, <4>1, <4>2
    <3> QED BY <3>1, <3>2
  <2>6. Len(t) \in 1 .. n /\ ~ (Len(t) < n)
    BY <2>3
  <2>7. BranchTo(p, path, t, n)
    BY <2>3, <2>4, <2>5, <2>6 DEF BranchTo, IsCells
  <2> QED BY <2>7 DEF t
<1>2. CASE ~ (Len(s) = n - 1 /\ p[s[Len(s)]] \in Zone)
  <2>1. t = s
    BY <1>2 DEF Longer
  <2> HIDE DEF t
  <2>2. Len(s) \in 1 .. n
    BY <1>n
  <2>3. Len(s) < n => p[s[Len(s)]] \notin Zone
    <3>1. Len(s) < n - 1 => p[s[Len(s)]] \notin Zone
      BY DEF BranchTo
    <3> QED BY <1>n, <1>2, <3>1
  <2>4. BranchTo(p, path, t, n)
    BY <2>1, <2>2, <2>3 DEF BranchTo
  <2> QED BY <2>4 DEF t
<1> QED BY <1>1, <1>2

LEMMA BranchIs ==
  ASSUME NEW p, NEW path \in Seq(Nat), Len(path) \in 1 .. DEPTH
  PROVE  IsBranch(p, path, get_branch(p, path))
<1>0. /\ Len(path) \in Nat /\ Len(path) <= 4
      /\ Len(path) = 1 \/ Len(path) = 2 \/ Len(path) = 3 \/ Len(path) = 4
  BY UpTo4
<1> DEFINE s1 == << <<Inode, path[1]>> >>
           s2 == Longer(p, path, s1, 2)
           s3 == Longer(p, path, s2, 3)
           s4 == Longer(p, path, s3, 4)
           body(f, n) == IF n = 1 THEN << <<Inode, path[1]>> >>
             ELSE LET last == f[n - 1][Len(f[n - 1])]
                  IN IF Len(f[n - 1]) = n - 1 /\ p[last] \in Zone
                     THEN Append(f[n - 1], <<p[last], path[n]>>)
                     ELSE f[n - 1]
           g == [n \in 1 .. Len(path) |->
                   IF n = 1 THEN s1 ELSE IF n = 2 THEN s2 ELSE IF n = 3 THEN s3 ELSE s4]
           f == CHOOSE f : f = [n \in 1 .. Len(path) |-> body(f, n)]
<1>1. \A h, n : n # 1 => body(h, n) = Longer(p, path, h[n - 1], n)
  BY DEF Longer
<1>2. g = [n \in 1 .. Len(path) |-> body(g, n)]
  <2>1. ASSUME NEW n \in 1 .. Len(path)
        PROVE  g[n] = body(g, n)
    <3>1. CASE n = 1
      BY <3>1
    <3>2. CASE n = 2
      <4>1. g[n] = s2 /\ g[n - 1] = s1 BY <3>2
      <4> HIDE DEF g, s2, body
      <4>2. body(g, n) = Longer(p, path, g[n - 1], n)
        BY <1>1, <3>2, 2 # 1
      <4> QED BY <4>1, <4>2, <3>2 DEF s2
    <3>3. CASE n = 3
      <4>1. g[n] = s3 /\ g[n - 1] = s2 BY <3>3
      <4> HIDE DEF g, s2, s3, body
      <4>2. body(g, n) = Longer(p, path, g[n - 1], n)
        BY <1>1, <3>3, 3 # 1
      <4> QED BY <4>1, <4>2, <3>3 DEF s3
    <3>4. CASE n = 4
      <4>1. g[n] = s4 /\ g[n - 1] = s3 BY <3>4
      <4> HIDE DEF g, s3, s4, body
      <4>2. body(g, n) = Longer(p, path, g[n - 1], n)
        BY <1>1, <3>4, 4 # 1
      <4> QED BY <4>1, <4>2, <3>4 DEF s4
    <3>5. n \in 1 .. 4
      <4> QED BY <1>0
    <3> HIDE DEF g, body
    <3> QED BY <3>1, <3>2, <3>3, <3>4, <3>5
  <2> HIDE DEF body, s1, s2, s3, s4
  <2>2. g = [n \in 1 .. Len(path) |-> g[n]]
    OBVIOUS
  <2> QED BY <2>1, <2>2
<1>3. f = [n \in 1 .. Len(path) |-> body(f, n)]
  <2> HIDE DEF g, body
  <2> QED BY <1>2
<1>4. get_branch(p, path) = f[Len(path)]
  BY DEF get_branch
<1> HIDE DEF g, f
<1>5. BranchTo(p, path, f[1], 1)
  <2>1. f[1] = s1 BY <1>3
  <2>2. path[1] \in Nat OBVIOUS
  <2>3. s1 \in Seq(({Inode} \cup Zone) \X Nat) /\ Len(s1) = 1 /\ s1[1] = <<Inode, path[1]>>
    BY <2>2
  <2> HIDE DEF s1
  <2> QED BY <2>1, <2>3 DEF BranchTo, IsCells
<1>6. ASSUME NEW n \in 2 .. Len(path), BranchTo(p, path, f[n - 1], n - 1)
      PROVE  BranchTo(p, path, f[n], n)
  <2> n \in 1 .. Len(path) /\ n # 1
    OBVIOUS
  <2> HIDE DEF body
  <2>1. f[n] = body(f, n) BY <1>3
  <2>2. f[n] = Longer(p, path, f[n - 1], n)
    BY <1>1, <2>1
  <2> QED BY <1>6, <2>2, LongerIs
<1>7. BranchTo(p, path, f[Len(path)], Len(path))
  <2>1. CASE Len(path) = 1 BY <2>1, <1>5
  <2>2. Len(path) >= 2 => BranchTo(p, path, f[2], 2)
    BY <1>5, <1>6
  <2>3. Len(path) >= 3 => BranchTo(p, path, f[3], 3)
    BY <2>2, <1>6
  <2>4. Len(path) >= 4 => BranchTo(p, path, f[4], 4)
    BY <2>3, <1>6
  <2> DEFINE m == Len(path)
  <2> HIDE DEF m
  <2>5. m = 1 \/ m = 2 \/ m = 3 \/ m = 4
    BY <1>0 DEF m
  <2>6. CASE m = 2 BY <2>2, <2>6 DEF m
  <2>7. CASE m = 3 BY <2>3, <2>7 DEF m
  <2>8. CASE m = 4 BY <2>4, <2>8 DEF m
  <2> QED BY <2>1, <2>5, <2>6, <2>7, <2>8 DEF m
<1> QED BY <1>4, <1>7 DEF BranchTo, IsBranch

LEMMA BranchStep ==
  ASSUME NEW p, NEW path, NEW s, IsBranch(p, path, s),
         NEW n \in Nat, 1 <= n, n < Len(s)
  PROVE  p[s[n]] \in Zone /\ s[n + 1] = <<p[s[n]], path[n + 1]>>
<1>1. n + 1 \in 2 .. Len(s) /\ (n + 1) - 1 = n
  BY DEF IsBranch
<1> QED BY <1>1 DEF IsBranch

\* The branch depends only on the cells it leads through.
LEMMA BranchSame ==
  ASSUME NEW p, NEW q, NEW path \in Seq(Nat), Len(path) \in 1 .. DEPTH, NEW s, NEW t,
         IsBranch(p, path, s), IsBranch(q, path, t),
         \A n \in 1 .. Len(s) : p[s[n]] = q[s[n]]
  PROVE  s = t
<1>0. Len(s) \in 1 .. Len(path) /\ Len(t) \in 1 .. Len(path) /\ Len(path) \in Nat
  BY DEF IsBranch
<1>1. s[1] = t[1]
  BY DEF IsBranch
<1>2. ASSUME NEW n \in 1 .. Len(path) - 1, n <= Len(s), n <= Len(t), s[n] = t[n]
      PROVE  /\ n + 1 <= Len(s) <=> n + 1 <= Len(t)
             /\ n + 1 <= Len(s) => s[n + 1] = t[n + 1]
  <2>1. p[s[n]] = q[t[n]]
    BY <1>0, <1>2
  <2>2. n < Len(s) => p[s[n]] \in Zone /\ s[n + 1] = <<p[s[n]], path[n + 1]>>
    BY <1>0, BranchStep, SMTT(30)
  <2>3. n < Len(t) => q[t[n]] \in Zone /\ t[n + 1] = <<q[t[n]], path[n + 1]>>
    BY <1>0, BranchStep, SMTT(30)
  <2>4. Len(s) = n => p[s[n]] \notin Zone
    BY <1>0 DEF IsBranch
  <2>5. Len(t) = n => q[t[n]] \notin Zone
    BY <1>0 DEF IsBranch
  <2> DEFINE a == Len(s)
             b == Len(t)
  <2>6. a \in Nat /\ b \in Nat
    BY <1>0
  <2>7. n < a <=> n < b
    <3>1. a # n => n < a
      BY <1>2, <2>6
    <3>2. b # n => n < b
      BY <1>2, <2>6
    <3> QED BY <2>1, <2>2, <2>3, <2>4, <2>5, <3>1, <3>2
  <2> HIDE DEF a, b
  <2>8. n + 1 <= a <=> n + 1 <= b
    BY <2>6, <2>7
  <2>9. n + 1 <= a => s[n + 1] = t[n + 1]
    <3>1. n + 1 <= a => n < a /\ n < b
      BY <2>6, <2>7
    <3> QED BY <2>1, <2>2, <2>3, <3>1 DEF a, b
  <2> QED BY <2>8, <2>9 DEF a, b
<1>3. Len(s) = Len(t) /\ \A n \in 1 .. Len(s) : s[n] = t[n]
  <2>1. (2 <= Len(s) <=> 2 <= Len(t)) /\ (2 <= Len(s) => s[2] = t[2])
    BY <1>0, <1>1, <1>2
  <2>2. (3 <= Len(s) <=> 3 <= Len(t)) /\ (3 <= Len(s) => s[3] = t[3])
    BY <1>0, <2>1, <1>2
  <2>3. (4 <= Len(s) <=> 4 <= Len(t)) /\ (4 <= Len(s) => s[4] = t[4])
    BY <1>0, <2>2, <1>2
  <2>4. Len(path) <= 4
    BY UpTo4
  <2> DEFINE a == Len(s)
             b == Len(t)
  <2>5. a \in Nat /\ b \in Nat /\ a <= 4 /\ b <= 4 /\ 1 <= a /\ 1 <= b
    BY <1>0, <2>4
  <2> HIDE DEF a, b
  <2>6. (2 <= a <=> 2 <= b) /\ (3 <= a <=> 3 <= b) /\ (4 <= a <=> 4 <= b)
    BY <2>1, <2>2, <2>3 DEF a, b
  <2>7. a = b
    BY <2>5, <2>6
  <2>8. ASSUME NEW n \in 1 .. a PROVE s[n] = t[n]
    <3>1. n = 1 \/ n = 2 \/ n = 3 \/ n = 4
      BY <2>5
    <3>2. n <= a
      BY <2>5
    <3> QED BY <1>1, <2>1, <2>2, <2>3, <3>1, <3>2 DEF a
  <2> QED BY <2>7, <2>8 DEF a, b
<1>4. s \in Seq(({Inode} \cup Zone) \X Nat) /\ t \in Seq(({Inode} \cup Zone) \X Nat)
  BY DEF IsBranch, IsCells
<1> QED BY <1>3, <1>4, SameSeq

-----------------------------------------------------------------------------
(* The inductive invariant.                                                *)

Item == [kind : {"cell"}, cell : Cell, d : 0 .. 3]
        \cup [kind : {"tree"}, zone : Zone, d : 0 .. 3]

TypeOK ==
  /\ ptr \in [Cell -> Pointer]
  /\ free \subseteq Zone /\ own \subseteq Zone /\ lost \subseteq own
  /\ free \cap own = {}
  /\ isize \in 0 .. MaxBlocks /\ fsize \in 0 .. MaxBlocks
  /\ w \in {"idle", "map", "alloc", "failed", "trunc", "chunking", "chunked"}
  /\ wb \in Nat /\ wend \in 0 .. MaxBlocks
  /\ w = "alloc" => wb < wend
  /\ new \in Seq(Zone) /\ (new # <<>> => w = "alloc")
  /\ stack \in Seq(Item) /\ (stack # <<>> => Truncating)

\* The zones of the branch that is being built; no pointer leads to it yet.
New == {new[n] : n \in DOMAIN new}

\* Indirect blocks, when h gives the levels below every zone, and the cells
\* that are pointers of the file: those of the inode and of indirect blocks.
Node(h) == {z \in own \ New : h[z] > 0}
Ref(h) == {c \in Cell : c[1] = Inode \/ c[1] \in Node(h)}
Height(h, c) ==
  IF c[1] # Inode THEN h[c[1]] - 1
  ELSE IF c[2] < DIRECT THEN 0 ELSE c[2] - DIRECT + 1

CellAt(k, c, d) == k \in DOMAIN stack /\ stack[k] = CellItem(c, d)
TreeAt(k, z, d) == k \in DOMAIN stack /\ stack[k] = TreeItem(z, d)

\* Cells that truncate has still to clear, and zones that it has cut off.
OnStack(c) == \E k, d : CellAt(k, c, d)
Cut(z) == \E k, d : TreeAt(k, z, d)

\* A pointer leads one level down, to a zone that is nowhere else.
EdgesOK(h) ==
  /\ \A c \in Ref(h) :
       \/ ptr[c] = NoZone
       \/ /\ ptr[c] \in own \ New
          /\ h[ptr[c]] = Height(h, c)
          /\ ~ Cut(ptr[c])
          /\ ptr[c] \in lost <=> c[1] \in lost
  /\ \A c, d \in Ref(h) : ptr[c] \in Zone /\ ptr[c] = ptr[d] => c = d

\* Every zone of the file is still reached from somewhere.
ClaimedOK(h) ==
  \A z \in own \ (lost \cup New) : Cut(z) \/ \E c \in Ref(h) : ptr[c] = z

\* Every indirect block that stays keeps a pointer.
FilledOK(h) ==
  \A z \in Node(h) \ lost :
    Cut(z) \/ \E j \in Index : ptr[<<z, j>>] \in Zone /\ ~ OnStack(<<z, j>>)

\* The branch being built is a path.
NewOK(h) ==
  w = "alloc" =>
  /\ Map(wb) = NoZone
  /\ Len(new) <= Left
  /\ \A n \in DOMAIN new : new[n] \in own \ lost /\ h[new[n]] = Left - n
  /\ \A n, m \in DOMAIN new : new[n] = new[m] => n = m
  /\ \A n \in DOMAIN new : n < Len(new) =>
       \A j \in Index : ptr[<<new[n], j>>] =
          IF j = block_to_path(wb)[Len(block_to_path(wb)) - Left + n + 1]
          THEN new[n + 1] ELSE NoZone

\* A cell on the stack is in a block that stays or is freed after it.
CellsOK(h, K) ==
  \A k, c, d : CellAt(k, c, d) =>
    /\ c \in Ref(h) /\ d = Height(h, c)
    /\ c[1] \in K \cup {Inode} \/ \E m : m > k /\ TreeAt(m, c[1], 0)

\* A zone on the stack is there once; it is freed after its cells are cleared.
TreesOK(h) ==
  \A k, z, d : TreeAt(k, z, d) =>
    /\ z \in own \ (lost \cup New)
    /\ d = h[z] \/ d = 0
    /\ \A m, j, e : CellAt(m, <<z, j>>, e) => m < k
    /\ d # h[z] => \A j \in Index :
         ptr[<<z, j>>] = NoZone \/ \E m, e : m < k /\ CellAt(m, <<z, j>>, e)
    /\ \A m, e : TreeAt(m, z, e) => m = k

\* The blocks that stay hang together from the inode on.
KeptOK(h, K) ==
  \A z \in K : z \notin lost /\ \E c \in Ref(h) :
    ptr[c] = z /\ ~ OnStack(c) /\ c[1] \in K \cup {Inode}

Forest(h, K) ==
  /\ EdgesOK(h) /\ ClaimedOK(h) /\ FilledOK(h)
  /\ CellsOK(h, K) /\ TreesOK(h) /\ KeptOK(h, K)

Sound(h, K) == Forest(h, K) /\ NewOK(h)

Heights == [Zone -> 0 .. 3]

IInv == TypeOK /\ \E h \in Heights, K \in SUBSET Zone : Sound(h, K)

-----------------------------------------------------------------------------
(* Chains.                                                                 *)

\* The beginning of a branch.
OnPath(p, path, s) ==
  /\ IsCells(s)
  /\ Len(s) \in 1 .. Len(path)
  /\ s[1] = <<Inode, path[1]>>
  /\ \A n \in 2 .. Len(s) : p[s[n - 1]] \in Zone /\ s[n] = <<p[s[n - 1]], path[n]>>

LEMMA OnPathStep ==
  ASSUME NEW p, NEW path, NEW s, OnPath(p, path, s),
         NEW n \in Nat, 1 <= n, n < Len(s)
  PROVE  p[s[n]] \in Zone /\ s[n + 1] = <<p[s[n]], path[n + 1]>>
<1>1. n + 1 \in 2 .. Len(s) /\ (n + 1) - 1 = n
  BY DEF OnPath
<1> QED BY <1>1 DEF OnPath

\* What the cells of a chain are.
ChainOK(h, path, s) ==
  \A n \in 1 .. Len(s) :
    /\ s[n] \in Ref(h)
    /\ s[n] = <<s[n][1], path[n]>>
    /\ Height(h, s[n]) = Len(path) - n
    /\ s[n][1] \notin lost
    /\ n = 1 => s[n][1] = Inode
    /\ n > 1 => s[n][1] \in Node(h) /\ s[n][1] = ptr[s[n - 1]]

LEMMA ChainIs ==
  ASSUME TypeOK, NEW h \in Heights, EdgesOK(h),
         NEW path, IsPath(path), NEW s, OnPath(ptr, path, s)
  PROVE  ChainOK(h, path, s)
<1> DEFINE P(n) == /\ s[n] \in Ref(h)
                   /\ s[n] = <<s[n][1], path[n]>>
                   /\ Height(h, s[n]) = Len(path) - n
                   /\ s[n][1] \notin lost
                   /\ n = 1 => s[n][1] = Inode
                   /\ n > 1 => s[n][1] \in Node(h) /\ s[n][1] = ptr[s[n - 1]]
<1>0. /\ Len(path) \in Nat /\ Len(path) <= 4 /\ 1 <= Len(path)
      /\ Len(s) \in Nat /\ 1 <= Len(s) /\ Len(s) <= Len(path)
      /\ path \in Seq(Nat)
  BY UpTo4 DEF IsPath, OnPath
<1>1. P(1)
  <2>1. s[1] = <<Inode, path[1]>>
    BY DEF OnPath
  <2> DEFINE m == Len(path)
  <2>2. m \in Nat /\ 1 <= m /\ m <= 4 /\ path[1] \in Nat
        /\ IF m = 1 THEN path[1] < DIRECT ELSE path[1] = DIRECT + m - 2
    BY <1>0 DEF IsPath
  <2> HIDE DEF m
  <2>3. path[1] \in 0 .. (DIRECT + DEPTH - 2)
    BY <2>2, Sizes DEF DEPTH
  <2>4. <<Inode, path[1]>> \in Cell
    BY <2>3 DEF Cell
  <2>5. IF path[1] < DIRECT THEN m - 1 = 0 ELSE m - 1 = path[1] - DIRECT + 1
    BY <2>2, Sizes
  <2>6. Height(h, s[1]) = m - 1
    BY <2>1, <2>5 DEF Height
  <2>7. Inode \notin lost
    BY BlockTreeAssumption DEF TypeOK
  <2> QED BY <2>1, <2>4, <2>6, <2>7 DEF Ref, m
<1>2. ASSUME NEW n \in Nat, 1 <= n, n < Len(s), P(n)
      PROVE  P(n + 1)
  <2> DEFINE z == ptr[s[n]]
  <2>1. z \in Zone /\ s[n + 1] = <<z, path[n + 1]>>
    BY <1>2, OnPathStep
  <2>2. z # NoZone
    BY <2>1, BlockTreeAssumption
  <2>3. z \in own \ New /\ h[z] = Height(h, s[n]) /\ (z \in lost <=> s[n][1] \in lost)
    BY <1>2, <2>2 DEF EdgesOK
  <2>4. h[z] = Len(path) - n
    BY <1>2, <2>3
  <2>5. h[z] > 0
    BY <1>0, <1>2, <2>4
  <2>6. z \in Node(h)
    BY <2>3, <2>5 DEF Node
  <2>7. path[n + 1] \in Index
    BY <1>0, <1>2 DEF IsPath
  <2>8. s[n + 1] \in Cell
    BY <2>1, <2>7 DEF Cell
  <2>9. z # Inode
    BY <2>1, BlockTreeAssumption
  <2>10. Height(h, s[n + 1]) = Len(path) - (n + 1)
    <3>1. Height(h, s[n + 1]) = h[z] - 1
      BY <2>1, <2>9 DEF Height
    <3> QED BY <1>0, <1>2, <2>4, <3>1
  <2>11. (n + 1) - 1 = n
    BY <1>2
  <2> HIDE DEF z
  <2>12. s[n + 1][1] = z
    BY <2>1
  <2>13. s[n + 1] \in Ref(h)
    BY <2>6, <2>8, <2>12 DEF Ref
  <2> QED BY <1>2, <2>1, <2>3, <2>6, <2>10, <2>11, <2>12, <2>13 DEF z
<1> HIDE DEF P
<1>3. \A n \in 1 .. Len(s) : P(n)
  <2>1. Len(s) >= 2 => P(2)
    BY <1>0, <1>1, <1>2, 1 + 1 = 2
  <2>2. Len(s) >= 3 => P(3)
    BY <1>0, <2>1, <1>2, 2 + 1 = 3
  <2>3. Len(s) >= 4 => P(4)
    BY <1>0, <2>2, <1>2, 3 + 1 = 4
  <2> TAKE n \in 1 .. Len(s)
  <2>4. n = 1 \/ n = 2 \/ n = 3 \/ n = 4
    BY <1>0
  <2>5. n <= Len(s)
    BY <1>0
  <2> QED BY <1>1, <2>1, <2>2, <2>3, <2>4, <2>5
<1> QED BY <1>3 DEF P, ChainOK


\* The chain of a block.
LEMMA BranchRef ==
  ASSUME TypeOK, NEW h \in Heights, EdgesOK(h), NEW b \in Block,
         NEW path, path = block_to_path(b), NEW s, s = get_branch(ptr, path)
  PROVE  /\ IsPath(path) /\ path # <<>> /\ path \in Seq(Nat) /\ Len(path) \in 1 .. DEPTH
         /\ IsBranch(ptr, path, s) /\ OnPath(ptr, path, s) /\ ChainOK(h, path, s)
<1>1. IsPath(path)
  BY PathIs, Sizes DEF Block
<1>2. path \in Seq(Nat) /\ Len(path) \in 1 .. DEPTH
  BY <1>1 DEF IsPath
<1>3. path # <<>>
  BY <1>2, UpTo4
<1>4. IsBranch(ptr, path, s)
  BY <1>2, BranchIs
<1>5. OnPath(ptr, path, s)
  BY <1>4 DEF IsBranch, OnPath
<1>6. ChainOK(h, path, s)
  BY <1>1, <1>5, ChainIs
<1> QED BY <1>1, <1>2, <1>3, <1>4, <1>5, <1>6

\* A block is mapped the same way as long as the file's own cells stay.
LEMMA BranchStays ==
  ASSUME TypeOK, NEW h \in Heights, EdgesOK(h), NEW b \in Block,
         \A c \in Ref(h) : ptr'[c] = ptr[c]
  PROVE  /\ get_branch(ptr', block_to_path(b)) = get_branch(ptr, block_to_path(b))
         /\ MapIn(ptr', b) = Map(b)
<1> DEFINE path == block_to_path(b)
           s == get_branch(ptr, path)
           t == get_branch(ptr', path)
<1>0. path = block_to_path(b) /\ s = get_branch(ptr, path) /\ t = get_branch(ptr', path)
  OBVIOUS
<1> HIDE DEF path, s, t
<1>1. /\ path \in Seq(Nat) /\ Len(path) \in 1 .. DEPTH
      /\ IsBranch(ptr, path, s) /\ ChainOK(h, path, s)
  BY <1>0, BranchRef
<1>2. IsBranch(ptr', path, t)
  BY <1>0, <1>1, BranchIs
<1>3. \A n \in 1 .. Len(s) : ptr[s[n]] = ptr'[s[n]]
  BY <1>1 DEF ChainOK
<1>4. s = t
  BY <1>1, <1>2, <1>3, BranchSame
<1>5. ptr'[s[Len(s)]] = ptr[s[Len(s)]]
  <2>1. Len(s) \in 1 .. Len(s)
    BY <1>1, UpTo4 DEF IsBranch
  <2> QED BY <1>3, <2>1
<1>6. MapIn(ptr', b) = MapIn(ptr, b)
  BY <1>0, <1>4, <1>5 DEF MapIn
<1> QED BY <1>0, <1>4, <1>6 DEF Map

\* A step that leaves the file's own cells alone.
LEMMA ForestStays ==
  ASSUME TypeOK, NEW h \in Heights, NEW K \in SUBSET Zone, Forest(h, K),
         NEW g \in Heights, own' \ New' = own \ New,
         \A z \in own \ New : g[z] = h[z],
         lost' = lost, stack' = stack,
         \A c \in Ref(h) : ptr'[c] = ptr[c]
  PROVE  Forest(g, K)'
<1>1. Node(g)' = Node(h)
  BY DEF Node
<1>2. Ref(g)' = Ref(h)
  BY <1>1 DEF Ref
<1>3. \A c \in Ref(h) : Height(g, c) = Height(h, c)
  <2> TAKE c \in Ref(h)
  <2>1. c[1] # Inode => g[c[1]] = h[c[1]]
    BY DEF Ref, Node
  <2> QED BY <2>1 DEF Height
<1>4. \A z : Cut(z)' <=> Cut(z)
  BY DEF Cut, TreeAt
<1>5. \A c : OnStack(c)' <=> OnStack(c)
  BY DEF OnStack, CellAt
<1>6. EdgesOK(g)'
  <2>1. \A c \in Ref(h) : ptr[c] \in own \ New => g[ptr[c]] = h[ptr[c]] /\ ptr[c] \in own' \ New'
    OBVIOUS
  <2> QED BY <1>2, <1>3, <1>4, <2>1 DEF Forest, EdgesOK, Height
<1>7. ClaimedOK(g)'
  BY <1>2, <1>4 DEF Forest, ClaimedOK
<1>8. FilledOK(g)'
  <2> SUFFICES ASSUME NEW z \in Node(h) \ lost, ~ Cut(z)
               PROVE  \E j \in Index : ptr'[<<z, j>>] \in Zone /\ ~ OnStack(<<z, j>>)
    BY <1>1, <1>4, <1>5 DEF FilledOK
  <2>1. PICK j \in Index : ptr[<<z, j>>] \in Zone /\ ~ OnStack(<<z, j>>)
    BY DEF Forest, FilledOK
  <2>2. <<z, j>> \in Ref(h)
    BY DEF Ref, Node, Cell, TypeOK
  <2> QED BY <2>1, <2>2
<1>9. CellsOK(g, K)'
  <2>1. \A k, c, d : CellAt(k, c, d)' <=> CellAt(k, c, d)
    BY DEF CellAt
  <2>2. \A k, z, d : TreeAt(k, z, d)' <=> TreeAt(k, z, d)
    BY DEF TreeAt
  <2> QED BY <1>2, <1>3, <2>1, <2>2 DEF Forest, CellsOK, Height
<1>10. TreesOK(g)'
  <2>1. \A k, c, d : CellAt(k, c, d)' <=> CellAt(k, c, d)
    BY DEF CellAt
  <2>2. \A k, z, d : TreeAt(k, z, d)' <=> TreeAt(k, z, d)
    BY DEF TreeAt
  <2> SUFFICES ASSUME NEW k, NEW z, NEW d, TreeAt(k, z, d)
        PROVE  /\ z \in own' \ (lost' \cup New')
               /\ d = g[z] \/ d = 0
               /\ \A m, j, e : CellAt(m, <<z, j>>, e) => m < k
               /\ d # g[z] => \A j \in Index :
                    ptr'[<<z, j>>] = NoZone \/ \E m, e : m < k /\ CellAt(m, <<z, j>>, e)
               /\ \A m, e : TreeAt(m, z, e) => m = k
    BY <2>1, <2>2 DEF TreesOK
  <2>3. /\ z \in own \ (lost \cup New)
        /\ d = h[z] \/ d = 0
        /\ \A m, j, e : CellAt(m, <<z, j>>, e) => m < k
        /\ d # h[z] => \A j \in Index :
             ptr[<<z, j>>] = NoZone \/ \E m, e : m < k /\ CellAt(m, <<z, j>>, e)
        /\ \A m, e : TreeAt(m, z, e) => m = k
    BY DEF Forest, TreesOK
  <2>4. z \in Zone /\ h[z] \in 0 .. 3 /\ g[z] = h[z]
    BY <2>3 DEF TypeOK, Heights
  <2>5. d # h[z] => \A j \in Index : <<z, j>> \in Ref(h)
    BY <2>3, <2>4 DEF Ref, Node, Cell
  <2> QED BY <2>3, <2>4, <2>5
<1>11. KeptOK(g, K)'
  BY <1>2, <1>5 DEF Forest, KeptOK
<1> QED BY <1>6, <1>7, <1>8, <1>9, <1>10, <1>11 DEF Forest

\* The branch under construction, when neither it nor the file changes.
LEMMA NewStays ==
  ASSUME TypeOK, NEW h \in Heights, EdgesOK(h), NewOK(h),
         w' = "alloc" => w = "alloc",
         UNCHANGED <<own, lost, new, wb>>,
         \A c \in Ref(h) : ptr'[c] = ptr[c],
         \A c \in Cell : c[1] \in New => ptr'[c] = ptr[c]
  PROVE  NewOK(h)'
<1> SUFFICES ASSUME w = "alloc", w' = "alloc" PROVE NewOK(h)'
  BY DEF NewOK
<1>1. wb \in Block
  BY Sizes DEF TypeOK, Block
<1>2. get_branch(ptr', block_to_path(wb)) = get_branch(ptr, block_to_path(wb))
      /\ MapIn(ptr', wb) = Map(wb)
  BY <1>1, BranchStays
<1>3. Left' = Left
  BY <1>2 DEF Left
<1>4. Map(wb)' = NoZone
  BY <1>2 DEF Map, NewOK
<1>5. ASSUME NEW n \in DOMAIN new, NEW j \in Index
      PROVE  ptr'[<<new[n], j>>] = ptr[<<new[n], j>>]
  <2>1. new[n] \in Zone
    BY DEF TypeOK
  <2>2. <<new[n], j>> \in Cell /\ new[n] \in New
    BY <2>1 DEF Cell, New
  <2> QED BY <2>2
<1> QED BY <1>3, <1>4, <1>5 DEF NewOK


LEMMA EmptyStack ==
  ASSUME stack = <<>>
  PROVE  /\ \A k, c, d : ~ CellAt(k, c, d) /\ ~ TreeAt(k, c, d)
         /\ \A c : ~ OnStack(c) /\ ~ Cut(c)
BY DEF CellAt, TreeAt, OnStack, Cut

-----------------------------------------------------------------------------
(* Allocation.                                                             *)

\* Where the branch is missing and how long it is.
LEMMA PartialIs ==
  ASSUME TypeOK, NEW h \in Heights, EdgesOK(h), NewOK(h), w = "alloc"
  PROVE  /\ wb \in Block /\ IsPath(block_to_path(wb))
         /\ Left \in Nat /\ 1 <= Left /\ Left <= Len(block_to_path(wb))
         /\ Left <= 4 /\ Len(block_to_path(wb)) \in Nat
         /\ Partial \in Ref(h) /\ Height(h, Partial) = Left - 1
         /\ Partial[1] \notin lost
         /\ \A n \in Nat : 1 <= n /\ n < Left =>
              block_to_path(wb)[Len(block_to_path(wb)) - Left + n + 1] \in Index
<1> DEFINE path == block_to_path(wb)
           s == get_branch(ptr, path)
           m == Len(path)
           l == Len(s)
<1>0. path = block_to_path(wb) /\ s = get_branch(ptr, path) /\ m = Len(path) /\ l = Len(s)
  OBVIOUS
<1> HIDE DEF path, s, m, l
<1>1. wb \in Block
  BY Sizes DEF TypeOK, Block
<1>2. IsPath(path) /\ IsBranch(ptr, path, s) /\ ChainOK(h, path, s) /\ Len(path) \in 1 .. DEPTH
  BY <1>0, <1>1, BranchRef
<1>3. m \in Nat /\ 1 <= m /\ m <= 4
  BY <1>0, <1>2, UpTo4
<1>4. l \in Nat /\ 1 <= l /\ l <= m /\ l \in 1 .. l
  BY <1>0, <1>2, <1>3 DEF IsBranch
<1>5. Left = m - l + 1
  BY <1>0 DEF Left
<1>6. Partial = s[l]
  BY <1>0 DEF Partial
<1>7. Partial \in Ref(h) /\ Height(h, Partial) = m - l /\ Partial[1] \notin lost
  BY <1>0, <1>2, <1>4, <1>6 DEF ChainOK
<1>8. ASSUME NEW n \in Nat, 1 <= n, n < Left
      PROVE  path[m - Left + n + 1] \in Index
  <2>1. m - Left + n + 1 \in 2 .. m
    BY <1>3, <1>4, <1>5, <1>8
  <2> QED BY <1>0, <1>2, <2>1 DEF IsPath
<1> QED BY <1>0, <1>1, <1>2, <1>3, <1>4, <1>5, <1>7, <1>8

LEMMA AllocBlockSound ==
  ASSUME TypeOK, NEW h \in Heights, NEW K \in SUBSET Zone, Sound(h, K), AllocBlock
  PROVE  TypeOK' /\ \E g \in Heights : Sound(g, K)'
<1> DEFINE path == block_to_path(wb)
           at == path[Len(path) - Left + 1 + Len(new)]
<1>0. path = block_to_path(wb) /\ at = path[Len(path) - Left + 1 + Len(new)]
  OBVIOUS
<1>1. PICK z \in free :
        /\ free' = free \ {z}
        /\ own' = own \cup {z}
        /\ new' = Append(new, z)
        /\ ptr' = [c \in Cell |->
              IF new # <<>> /\ c[1] = new[Len(new)]
              THEN IF c[2] = at THEN z ELSE NoZone
              ELSE IF c[1] = z /\ Len(new) + 1 = Left THEN Junk
              ELSE ptr[c]]
  BY Zenon DEF AllocBlock
<1> HIDE DEF path, at
<1>2. /\ w = "alloc" /\ w' = "alloc" /\ Len(new) < Left
      /\ UNCHANGED <<lost, isize, errs, w, wb, wend, stack, fsize>>
  BY DEF AllocBlock
<1>3. EdgesOK(h) /\ NewOK(h) /\ Forest(h, K)
  BY DEF Sound, Forest
<1> DEFINE l == Len(new)
           m == Len(path)
<1>4. /\ wb \in Block /\ Left \in Nat /\ Left <= 4 /\ m \in Nat
      /\ l \in Nat /\ l < Left /\ l = Len(new) /\ m = Len(path)
  BY <1>0, <1>2, <1>3, PartialIs DEF TypeOK
<1> HIDE DEF l, m
<1>5. z \in Zone /\ z \notin own /\ z # Inode /\ new \in Seq(Zone)
  BY BlockTreeAssumption DEF TypeOK
<1>6. /\ new' \in Seq(Zone) /\ Len(new') = l + 1 /\ new'[l + 1] = z
      /\ \A n \in 1 .. l : new'[n] = new[n]
  BY <1>1, <1>4, <1>5
<1>7. \A n \in 1 .. l : /\ new[n] \in own /\ new[n] \in New /\ new[n] # z
                       /\ new[n] \notin lost /\ h[new[n]] = Left - n
  BY <1>2, <1>3, <1>4, <1>5 DEF NewOK, New
<1>8. New' = New \cup {z}
  <2>1. DOMAIN new = 1 .. l /\ DOMAIN new' = 1 .. (l + 1)
    BY <1>4, <1>5, <1>6
  <2>2. 1 .. (l + 1) = (1 .. l) \cup {l + 1}
    BY <1>4
  <2> QED BY <1>6, <2>1, <2>2 DEF New
<1>9. own' \ New' = own \ New
  BY <1>1, <1>5, <1>8
<1>g. PICK g \in Heights : g = [h EXCEPT ![z] = Left - l - 1]
  <2>1. Left - l - 1 \in 0 .. 3
    BY <1>4
  <2> QED BY <2>1 DEF Heights
<1>10. g \in Heights /\ \A y \in Zone : y # z => g[y] = h[y]
  BY <1>g DEF Heights
<1>11. g[z] = Left - l - 1
  BY <1>5, <1>g DEF Heights
<1>12. new # <<>> => l \in 1 .. l
  BY <1>4, <1>5
<1>13. \A c \in Ref(h) : ptr'[c] = ptr[c]
  <2> TAKE c \in Ref(h)
  <2>1. c \in Cell /\ c[1] # z
    BY <1>5 DEF Ref, Node
  <2>2. new # <<>> => c[1] # new[Len(new)]
    <3>1. new # <<>> => new[l] \in New /\ new[l] \in own
      BY <1>7, <1>12
    <3>2. Inode \notin own
      BY BlockTreeAssumption DEF TypeOK
    <3>3. c[1] \notin New \/ c[1] = Inode
      BY DEF Ref, Node
    <3> QED BY <1>4, <3>1, <3>2, <3>3
  <2> QED BY <1>1, <2>1, <2>2
<1>14. Forest(g, K)'
  <2>1. \A y \in own \ New : g[y] = h[y]
    BY <1>5, <1>10 DEF TypeOK
  <2> QED BY <1>2, <1>3, <1>9, <1>10, <1>13, <2>1, ForestStays
<1>15. /\ get_branch(ptr', path) = get_branch(ptr, path)
       /\ MapIn(ptr', wb) = Map(wb)
  BY <1>0, <1>3, <1>4, <1>13, BranchStays
<1>16. Left' = Left
  BY <1>0, <1>2, <1>15 DEF Left
<1>17. NewOK(g)'
  <2>1. Map(wb)' = NoZone
    BY <1>2, <1>3, <1>15 DEF Map, NewOK
  <2>2. Len(new') <= Left'
    BY <1>4, <1>6, <1>16
  <2>3. DOMAIN new' = 1 .. (l + 1)
    BY <1>6
  <2>4. ASSUME NEW n \in DOMAIN new'
        PROVE  new'[n] \in own' \ lost' /\ g[new'[n]] = Left' - n
    <3>1. CASE n = l + 1
      <4>1. z \notin lost
        BY <1>5 DEF TypeOK
      <4> QED BY <1>1, <1>2, <1>4, <1>6, <1>11, <1>16, <3>1, <4>1
    <3>2. CASE n # l + 1
      <4>1. n \in 1 .. l
        BY <1>4, <2>3, <3>2
      <4>2. g[new[n]] = h[new[n]]
        BY <1>5, <1>7, <1>10, <4>1 DEF TypeOK
      <4> QED BY <1>1, <1>2, <1>6, <1>7, <1>16, <4>1, <4>2
    <3> QED BY <3>1, <3>2
  <2>5. ASSUME NEW n \in DOMAIN new', NEW i \in DOMAIN new', new'[n] = new'[i]
        PROVE  n = i
    <3>1. \A a, b \in 1 .. l : new[a] = new[b] => a = b
      BY <1>2, <1>3, <1>4, <1>5 DEF NewOK
    <3>2. (n \in 1 .. l \/ n = l + 1) /\ (i \in 1 .. l \/ i = l + 1)
      BY <1>4, <2>3
    <3> QED BY <1>6, <1>7, <2>5, <3>1, <3>2
  <2>6. ASSUME NEW n \in DOMAIN new', n < Len(new'), NEW j \in Index
        PROVE  ptr'[<<new'[n], j>>] =
                 IF j = path[m - Left + n + 1] THEN new'[n + 1] ELSE NoZone
    <3>1. n \in 1 .. l /\ n \in Nat
      BY <1>4, <1>6, <2>3, <2>6
    <3>2. new'[n] = new[n] /\ new[n] \in own /\ new[n] # z /\ new[n] \in Zone
      BY <1>6, <1>7, <3>1 DEF TypeOK
    <3>3. <<new[n], j>> \in Cell /\ <<new[n], j>>[1] = new[n] /\ <<new[n], j>>[2] = j
      BY <3>2 DEF Cell
    <3>4. CASE n = l
      <4>1. new # <<>>
        BY <1>5, <3>1, <3>4, <1>4
      <4>2. m - Left + 1 + l = m - Left + n + 1
        BY <1>4, <3>1, <3>4
      <4>3. at = path[m - Left + n + 1]
        BY <1>0, <1>4, <4>2
      <4>4. new'[n + 1] = z
        BY <1>6, <3>4
      <4>5. ptr'[<<new[n], j>>] = IF j = at THEN z ELSE NoZone
        BY <1>1, <1>4, <3>3, <3>4, <4>1
      <4> QED BY <3>2, <4>3, <4>4, <4>5
    <3>5. CASE n # l
      <4>1. n < l /\ l \in 1 .. l /\ n + 1 \in 1 .. l
        BY <1>4, <3>1, <3>5
      <4>2. new[n] # new[l]
        BY <1>2, <1>3, <1>4, <1>5, <3>1, <3>5, <4>1 DEF NewOK
      <4>3. ptr'[<<new[n], j>>] = ptr[<<new[n], j>>]
        BY <1>1, <1>4, <3>2, <3>3, <4>2
      <4>4. ptr[<<new[n], j>>] = IF j = path[m - Left + n + 1] THEN new[n + 1] ELSE NoZone
        <5>1. n \in DOMAIN new /\ n < Len(new)
          BY <1>4, <1>5, <3>1, <4>1
        <5> QED BY <1>0, <1>2, <1>3, <1>4, <5>1 DEF NewOK
      <4> QED BY <1>6, <3>2, <4>1, <4>3, <4>4
    <3> QED BY <3>4, <3>5
  <2>7. block_to_path(wb)' = path
    BY <1>0, <1>2
  <2>8. \A n \in DOMAIN new' : n < Len(new') =>
          \A j \in Index : ptr'[<<new'[n], j>>] =
             IF j = block_to_path(wb)'[Len(block_to_path(wb)') - Left' + n + 1]
             THEN new'[n + 1] ELSE NoZone
    <3>1. m = Len(block_to_path(wb)')
      BY <1>4, <2>7
    <3> QED BY <1>16, <2>6, <2>7, <3>1
  <2> QED BY <2>1, <2>2, <2>4, <2>5, <2>8 DEF NewOK
<1>18. TypeOK'
  <2>1. ptr' \in [Cell -> Pointer]
    <3>1. z \in Pointer /\ NoZone \in Pointer /\ Junk \in Pointer
      BY <1>5 DEF Pointer
    <3>2. \A c \in Cell : ptr[c] \in Pointer
      BY DEF TypeOK
    <3> QED BY <1>1, <3>1, <3>2
  <2>2. /\ free' \subseteq Zone /\ own' \subseteq Zone /\ lost' \subseteq own'
        /\ free' \cap own' = {}
    BY <1>1, <1>2, <1>5 DEF TypeOK
  <2> QED BY <1>2, <1>6, <2>1, <2>2 DEF TypeOK, Truncating
<1> QED BY <1>10, <1>14, <1>17, <1>18 DEF Sound

LEMMA AllocFailSound ==
  ASSUME TypeOK, NEW h \in Heights, NEW K \in SUBSET Zone, Sound(h, K), AllocFail
  PROVE  TypeOK' /\ Sound(h, K)'
<1>1. /\ w = "alloc" /\ w' = "failed" /\ new' = <<>>
      /\ free' = free \cup New /\ own' = own \ New
      /\ UNCHANGED <<ptr, lost, isize, wb, wend, stack, fsize>>
  BY DEF AllocFail, FreeBlocks, New
<1>2. EdgesOK(h) /\ NewOK(h) /\ Forest(h, K)
  BY DEF Sound, Forest
<1>3. New \subseteq own \ lost
  BY <1>1, <1>2 DEF NewOK, New
<1>4. New' = {}
  BY <1>1 DEF New
<1>5. Forest(h, K)'
  <2>1. own' \ New' = own \ New
    BY <1>1, <1>4
  <2> QED BY <1>1, <1>2, <2>1, ForestStays
<1>6. NewOK(h)'
  BY <1>1 DEF NewOK
<1>7. TypeOK'
  <2>1. stack = <<>>
    BY <1>1 DEF TypeOK, Truncating
  <2> QED BY <1>1, <1>3, <2>1 DEF TypeOK, Truncating
<1> QED BY <1>5, <1>6, <1>7 DEF Sound


LEMMA SpliceBranchSound ==
  ASSUME TypeOK, NEW h \in Heights, NEW K \in SUBSET Zone, Sound(h, K), SpliceBranch
  PROVE  TypeOK' /\ Sound(h, {})'
<1> DEFINE path == block_to_path(wb)
           m == Len(path)
           P == Partial
           L == Left
           At(n) == path[m - L + n + 1]
<1>0. path = block_to_path(wb) /\ m = Len(path) /\ P = Partial /\ L = Left
  OBVIOUS
<1>1. /\ w = "alloc" /\ w' = "map" /\ Len(new) = L
      /\ ptr[P] = NoZone /\ ptr' = [ptr EXCEPT ![P] = new[1]] /\ new' = <<>>
      /\ UNCHANGED <<free, own, lost, isize, errs, wb, wend, stack, fsize>>
  BY DEF SpliceBranch
<1>2. EdgesOK(h) /\ NewOK(h) /\ Forest(h, K)
  BY DEF Sound, Forest
<1>3. /\ L \in Nat /\ 1 <= L /\ P \in Ref(h) /\ Height(h, P) = L - 1
      /\ P[1] \notin lost
      /\ \A n \in Nat : 1 <= n /\ n < L => At(n) \in Index
  BY <1>1, <1>2, PartialIs
<1>4. /\ DOMAIN new = 1 .. L /\ Len(new) = L
      /\ \A n \in 1 .. L : /\ new[n] \in own \ lost /\ new[n] \in New
                           /\ new[n] \in Zone /\ h[new[n]] = L - n
      /\ \A n, i \in 1 .. L : new[n] = new[i] => n = i
  <2>1. DOMAIN new = 1 .. L
    BY <1>1, <1>3 DEF TypeOK
  <2>2. \A n \in 1 .. L : new[n] \in Zone
    BY <1>1, <2>1 DEF TypeOK
  <2> QED BY <1>1, <1>2, <2>1, <2>2 DEF NewOK, New
<1>5. \A n \in 1 .. L - 1, j \in Index :
         ptr[<<new[n], j>>] = IF j = At(n) THEN new[n + 1] ELSE NoZone
  <2> TAKE n \in 1 .. L - 1, j \in Index
  <2>1. n \in DOMAIN new /\ n < Len(new)
    BY <1>3, <1>4
  <2> QED BY <1>1, <1>2, <2>1 DEF NewOK
<1> HIDE DEF path, m, P, L, At
<1>6. stack = <<>> /\ stack' = <<>>
  BY <1>1 DEF TypeOK, Truncating
<1>7. New' = {}
  BY <1>1 DEF New
<1>9. New = {new[n] : n \in 1 .. L}
  BY <1>4 DEF New
<1>8. P \in Cell /\ P[1] \notin New
  <2>1. Inode \notin New
    BY <1>4, <1>9, BlockTreeAssumption
  <2> QED BY <1>3, <2>1 DEF Ref, Node
<1>10. Node(h)' = Node(h) \cup {new[n] : n \in 1 .. L - 1}
  <2>1. Node(h)' = {z \in own : h[z] > 0}
    BY <1>1, <1>7 DEF Node
  <2>2. \A n \in 1 .. L : h[new[n]] > 0 <=> n \in 1 .. L - 1
    BY <1>3, <1>4
  <2>3. \A n \in 1 .. L - 1 : n \in 1 .. L
    BY <1>3
  <2> QED BY <1>4, <1>9, <2>1, <2>2, <2>3 DEF Node
<1>11. Ref(h) \subseteq Ref(h)'
  BY <1>10 DEF Ref
<1>12. ASSUME NEW c \in Ref(h)'
       PROVE  c \in Ref(h) \/ \E n \in 1 .. L - 1, j \in Index : c = <<new[n], j>>
  <2>1. c \in Cell /\ (c[1] = Inode \/ c[1] \in Node(h)')
    BY DEF Ref
  <2>2. CASE c[1] = Inode \/ c[1] \in Node(h)
    BY <2>1, <2>2 DEF Ref
  <2>3. CASE \E n \in 1 .. L - 1 : c[1] = new[n]
    <3>1. PICK n \in 1 .. L - 1 : c[1] = new[n]
      BY <2>3
    <3>2. n \in 1 .. L
      BY <1>3
    <3>3. c[1] # Inode
      BY <1>4, <3>1, <3>2, BlockTreeAssumption
    <3>4. c[2] \in Index /\ c = <<c[1], c[2]>>
      BY <2>1, <3>3 DEF Cell
    <3> QED BY <3>1, <3>4
  <2> QED BY <1>10, <2>1, <2>2, <2>3
<1>13. \A c \in Ref(h) : c # P => ptr'[c] = ptr[c]
  BY <1>1 DEF TypeOK, Ref
<1>14. ptr'[P] = new[1] /\ 1 \in 1 .. L
  BY <1>1, <1>3, <1>8 DEF TypeOK
<1>15. ASSUME NEW n \in 1 .. L - 1, NEW j \in Index
       PROVE  /\ ptr'[<<new[n], j>>] = IF j = At(n) THEN new[n + 1] ELSE NoZone
              /\ Height(h, <<new[n], j>>) = L - n - 1
              /\ <<new[n], j>> # P /\ <<new[n], j>> \in Ref(h)' /\ n \in 1 .. L /\ n + 1 \in 1 .. L
  <2>1. n \in 1 .. L /\ n + 1 \in 1 .. L
    BY <1>3
  <2>2. <<new[n], j>> # P
    BY <1>4, <1>8, <2>1
  <2>3. <<new[n], j>> \in Cell
    BY <1>4, <2>1 DEF Cell
  <2>4. ptr'[<<new[n], j>>] = ptr[<<new[n], j>>]
    BY <1>1, <2>2, <2>3 DEF TypeOK
  <2>5. Height(h, <<new[n], j>>) = h[new[n]] - 1
    BY <1>4, <2>1, BlockTreeAssumption DEF Height
  <2>6. h[new[n]] - 1 = L - n - 1
    BY <1>4, <2>1
  <2>7. <<new[n], j>> \in Ref(h)'
    BY <1>10, <2>3 DEF Ref
  <2> QED BY <1>5, <2>1, <2>2, <2>4, <2>5, <2>6, <2>7
<1>16. \A z : ~ Cut(z) /\ ~ Cut(z)'
  BY <1>6 DEF Cut, TreeAt
<1>17. \A z : ~ OnStack(z) /\ ~ OnStack(z)'
  BY <1>6 DEF OnStack, CellAt
<1>18. \A c \in Ref(h) : ptr[c] = NoZone \/ ptr[c] \in own \ New
  BY <1>2 DEF EdgesOK
<1>19. EdgesOK(h)'
  <2>1. ASSUME NEW c \in Ref(h)'
        PROVE  \/ ptr'[c] = NoZone
               \/ /\ ptr'[c] \in own' \ New'
                  /\ h[ptr'[c]] = Height(h, c)
                  /\ ~ Cut(ptr[c])'
                  /\ ptr'[c] \in lost' <=> c[1] \in lost'
    <3>1. CASE c = P
      <4>1. h[new[1]] = L - 1 /\ new[1] \in own \ lost
        BY <1>4, <1>14
      <4> QED BY <1>1, <1>3, <1>7, <1>14, <1>16, <3>1, <4>1
    <3>2. CASE c \in Ref(h) /\ c # P
      <4>1. ptr'[c] = ptr[c]
        BY <1>13, <3>2
      <4> QED BY <1>1, <1>2, <1>7, <1>16, <3>2, <4>1 DEF EdgesOK
    <3>3. CASE \E n \in 1 .. L - 1, j \in Index : c = <<new[n], j>>
      <4>1. PICK n \in 1 .. L - 1, j \in Index : c = <<new[n], j>>
        BY <3>3
      <4>2. /\ ptr'[c] = IF j = At(n) THEN new[n + 1] ELSE NoZone
            /\ Height(h, c) = L - n - 1 /\ n \in 1 .. L /\ n + 1 \in 1 .. L
        BY <1>15, <4>1
      <4>3. h[new[n + 1]] = L - (n + 1) /\ new[n + 1] \in own \ lost /\ new[n] \notin lost
        BY <1>4, <4>2
      <4>4. L - (n + 1) = L - n - 1
        BY <1>3
      <4>5. c[1] = new[n]
        BY <4>1
      <4> QED BY <1>1, <1>7, <1>16, <4>2, <4>3, <4>4, <4>5
    <3> QED BY <1>12, <3>1, <3>2, <3>3
  <2>2. ASSUME NEW c \in Ref(h)', NEW e \in Ref(h)', ptr'[c] \in Zone, ptr'[c] = ptr'[e]
        PROVE  c = e
    <3> DEFINE Old(x) == x \in Ref(h) /\ x # P /\ ptr'[x] = ptr[x]
                         /\ (ptr[x] \in Zone => ptr[x] \notin New)
               Fresh(x, n) == n \in 1 .. L - 1 /\ ptr'[x] = new[n + 1] /\ n + 1 \in 1 .. L
                              /\ x = <<new[n], At(n)>>
    <3>1. ASSUME NEW x \in Ref(h)', ptr'[x] \in Zone
          PROVE  x = P \/ Old(x) \/ \E n : Fresh(x, n)
      <4>1. CASE x \in Ref(h)
        BY <1>13, <1>18, <4>1, BlockTreeAssumption
      <4>2. CASE x \notin Ref(h)
        <5>1. PICK n \in 1 .. L - 1, j \in Index : x = <<new[n], j>>
          BY <1>12, <4>2
        <5>2. j = At(n) /\ ptr'[x] = new[n + 1] /\ n + 1 \in 1 .. L
          BY <1>15, <3>1, <5>1, BlockTreeAssumption
        <5>3. Fresh(x, n)
          BY <5>1, <5>2
        <5> QED BY <5>3
      <4> QED BY <4>1, <4>2
    <3>2. ptr'[P] \in New
      BY <1>4, <1>14
    <3>3. \A x, n : Fresh(x, n) => ptr'[x] \in New /\ ptr'[x] # ptr'[P]
      <4> TAKE x, n
      <4> HAVE Fresh(x, n)
      <4>1. n + 1 # 1
        BY <1>3
      <4> QED BY <1>4, <1>14, <4>1
    <3>4. \A x, n, y, i : Fresh(x, n) /\ Fresh(y, i) /\ ptr'[x] = ptr'[y] => x = y
      <4> TAKE x, n, y, i
      <4> HAVE Fresh(x, n) /\ Fresh(y, i) /\ ptr'[x] = ptr'[y]
      <4>1. n + 1 = i + 1
        BY <1>4
      <4>2. n = i
        BY <1>3, <4>1
      <4> QED BY <4>2
    <3>5. Old(c) /\ Old(e) => c = e
      BY <1>2, <2>2 DEF EdgesOK
    <3>6. ptr'[e] \in Zone
      BY <2>2
    <3>7. (c = P \/ Old(c) \/ \E n : Fresh(c, n)) /\ (e = P \/ Old(e) \/ \E n : Fresh(e, n))
      BY <2>2, <3>1, <3>6
    <3>8. (Old(c) => ptr'[c] \notin New) /\ (Old(e) => ptr'[e] \notin New)
      BY <2>2
    <3> HIDE DEF Old, Fresh
    <3> QED BY <2>2, <3>2, <3>3, <3>4, <3>5, <3>7, <3>8
  <2> QED BY <2>1, <2>2 DEF EdgesOK
<1>20. ClaimedOK(h)'
  <2> SUFFICES ASSUME NEW z \in own \ lost PROVE \E c \in Ref(h)' : ptr'[c] = z
    BY <1>1, <1>7 DEF ClaimedOK
  <2>1. CASE z \notin New
    <3>1. PICK c \in Ref(h) : ptr[c] = z
      BY <1>2, <1>16, <2>1 DEF Forest, ClaimedOK
    <3>2. c # P
      BY <1>1, <3>1, BlockTreeAssumption DEF TypeOK
    <3> QED BY <1>11, <1>13, <3>1, <3>2
  <2>2. CASE z \in New
    <3>1. PICK n \in 1 .. L : z = new[n]
      BY <1>9, <2>2
    <3>2. CASE n = 1
      BY <1>3, <1>11, <1>14, <3>1, <3>2
    <3>3. CASE n # 1
      <4>1. n - 1 \in 1 .. L - 1 /\ (n - 1) + 1 = n /\ n - 1 \in Nat /\ 1 <= n - 1 /\ n - 1 < L
        BY <1>3, <3>3
      <4>2. At(n - 1) \in Index
        BY <1>3, <4>1
      <4>3. ptr'[<<new[n - 1], At(n - 1)>>] = new[n] /\ <<new[n - 1], At(n - 1)>> \in Ref(h)'
        BY <1>15, <4>1, <4>2
      <4> QED BY <3>1, <4>3
    <3> QED BY <3>2, <3>3
  <2> QED BY <2>1, <2>2
<1>21. FilledOK(h)'
  <2> SUFFICES ASSUME NEW z \in Node(h)' \ lost
               PROVE  \E j \in Index : ptr'[<<z, j>>] \in Zone
    BY <1>1, <1>17 DEF FilledOK
  <2>1. CASE z \in Node(h)
    <3>1. PICK j \in Index : ptr[<<z, j>>] \in Zone
      BY <1>2, <1>16, <2>1 DEF Forest, FilledOK
    <3>2. <<z, j>> \in Ref(h)
      BY <2>1 DEF Ref, Node, Cell, TypeOK
    <3>3. <<z, j>> # P
      BY <1>1, <3>1, BlockTreeAssumption
    <3> QED BY <1>13, <3>1, <3>2, <3>3
  <2>2. CASE \E n \in 1 .. L - 1 : z = new[n]
    <3>1. PICK n \in 1 .. L - 1 : z = new[n]
      BY <2>2
    <3>2. n \in Nat /\ 1 <= n /\ n < L
      BY <1>3
    <3>3. At(n) \in Index
      BY <1>3, <3>2
    <3>4. ptr'[<<z, At(n)>>] = new[n + 1] /\ n + 1 \in 1 .. L
      BY <1>15, <3>1, <3>3
    <3> QED BY <1>4, <3>3, <3>4
  <2> QED BY <1>10, <2>1, <2>2
<1>22. CellsOK(h, {})' /\ TreesOK(h)' /\ KeptOK(h, {})'
  <2>1. \A k, c, d : ~ CellAt(k, c, d)' /\ ~ TreeAt(k, c, d)'
    BY <1>6 DEF CellAt, TreeAt
  <2> QED BY <2>1 DEF CellsOK, TreesOK, KeptOK
<1>23. NewOK(h)'
  BY <1>1 DEF NewOK
<1>24. TypeOK'
  <2>1. new[1] \in Pointer
    BY <1>4, <1>14 DEF Pointer
  <2>2. ptr' \in [Cell -> Pointer]
    BY <1>1, <2>1 DEF TypeOK
  <2> QED BY <1>1, <1>6, <2>2 DEF TypeOK
<1> QED BY <1>19, <1>20, <1>21, <1>22, <1>23, <1>24 DEF Sound, Forest


-----------------------------------------------------------------------------
(* The stack of truncate.                                                  *)

LEMMA ItemKinds ==
  /\ \A c, d, e, f : CellItem(c, d) = CellItem(e, f) => c = e /\ d = f
  /\ \A c, d, e, f : TreeItem(c, d) = TreeItem(e, f) => c = e /\ d = f
  /\ \A c, d, e, f : CellItem(c, d) # TreeItem(e, f)
<1>1. \A c, d : /\ CellItem(c, d).cell = c /\ CellItem(c, d).d = d
                /\ CellItem(c, d).kind = "cell"
  BY DEF CellItem
<1>2. \A c, d : /\ TreeItem(c, d).zone = c /\ TreeItem(c, d).d = d
                /\ TreeItem(c, d).kind = "tree"
  BY DEF TreeItem
<1> QED BY <1>1, <1>2

\* The item on top.
LEMMA TopIs ==
  ASSUME TypeOK, stack # <<>>
  PROVE  /\ Top.kind = "cell" => /\ Top.cell \in Cell /\ Top.d \in 0 .. 3
                                 /\ CellAt(1, Top.cell, Top.d)
         /\ Top.kind = "tree" => /\ Top.zone \in Zone /\ Top.d \in 0 .. 3
                                 /\ TreeAt(1, Top.zone, Top.d)
<1>1. 1 \in DOMAIN stack /\ stack[1] \in Item
  BY DEF TypeOK
<1>2. Top.kind = "cell" => /\ Top.cell \in Cell /\ Top.d \in 0 .. 3
                           /\ stack[1] = CellItem(Top.cell, Top.d)
  BY <1>1 DEF Item, Top, CellItem
<1>3. Top.kind = "tree" => /\ Top.zone \in Zone /\ Top.d \in 0 .. 3
                           /\ stack[1] = TreeItem(Top.zone, Top.d)
  BY <1>1 DEF Item, Top, TreeItem
<1> QED BY <1>1, <1>2, <1>3 DEF CellAt, TreeAt

IsLength(a, A) == a = Len(A)

\* The items in A, of which there are a, take the place of the top one.
Replacement(A, a) ==
  /\ stack' \in Seq(Item) /\ a \in Nat
  /\ \A k \in DOMAIN stack' : k \in Nat /\ 1 <= k
  /\ \A k \in DOMAIN stack : k \in Nat /\ 1 <= k
  /\ \A k \in DOMAIN stack' : k <= a => k \in DOMAIN A /\ stack'[k] = A[k]
  /\ \A k \in DOMAIN stack' : k > a => k - a + 1 \in DOMAIN stack /\ k - a + 1 > 1
                                       /\ stack'[k] = stack[k - a + 1]
  /\ \A k \in DOMAIN A : k \in Nat /\ 1 <= k /\ k <= a
                         /\ k \in DOMAIN stack' /\ stack'[k] = A[k]
  /\ \A k \in DOMAIN stack : k # 1 => k + a - 1 \in DOMAIN stack' /\ k + a - 1 > a
                                       /\ stack'[k + a - 1] = stack[k]

LEMMA Replaced ==
  ASSUME TypeOK, stack # <<>>, NEW A \in Seq(Item), stack' = A \o Tail(stack),
         NEW a, IsLength(a, A)
  PROVE  Replacement(A, a)
<1>1. stack \in Seq(Item) /\ Tail(stack) \in Seq(Item) /\ Len(stack) \in Nat
      /\ Len(stack) >= 1 /\ Len(Tail(stack)) = Len(stack) - 1
  BY DEF TypeOK
<1>2. \A k \in 1 .. Len(stack) - 1 : Tail(stack)[k] = stack[k + 1]
  BY <1>1
<1>3. /\ stack' \in Seq(Item) /\ Len(stack') = a + Len(stack) - 1 /\ a \in Nat
      /\ DOMAIN stack' = 1 .. (a + Len(stack) - 1)
      /\ DOMAIN stack = 1 .. Len(stack) /\ DOMAIN A = 1 .. a
  BY <1>1 DEF IsLength
<1>4. \A k \in 1 .. (a + Len(stack) - 1) :
         stack'[k] = IF k <= a THEN A[k] ELSE Tail(stack)[k - a]
  BY <1>1, <1>3
<1>5. ASSUME NEW k \in DOMAIN stack', k > a
      PROVE  k - a + 1 \in DOMAIN stack /\ k - a + 1 > 1 /\ stack'[k] = stack[k - a + 1]
  <2>1. /\ k - a \in 1 .. Len(stack) - 1 /\ ~ (k <= a)
        /\ k - a + 1 \in 1 .. Len(stack) /\ k - a + 1 > 1
    BY <1>1, <1>3, <1>5
  <2> QED BY <1>2, <1>3, <1>4, <2>1
<1>6. ASSUME NEW k \in DOMAIN stack, k # 1
      PROVE  k + a - 1 \in DOMAIN stack' /\ k + a - 1 > a
             /\ stack'[k + a - 1] = stack[k]
  <2>1. k + a - 1 \in 1 .. (a + Len(stack) - 1) /\ k + a - 1 > a /\ (k + a - 1) - a + 1 = k
    BY <1>1, <1>3, <1>6, SMTT(30)
  <2> QED BY <1>3, <1>5, <2>1
<1>7. ASSUME NEW k \in DOMAIN A
      PROVE  k \in Nat /\ 1 <= k /\ k <= a /\ k \in DOMAIN stack' /\ stack'[k] = A[k]
  <2>1. k \in Nat /\ 1 <= k /\ k <= a /\ k \in 1 .. (a + Len(stack) - 1)
    BY <1>1, <1>3
  <2> QED BY <1>3, <1>4, <2>1
<1>8. ASSUME NEW k \in DOMAIN stack', k <= a
      PROVE  k \in DOMAIN A /\ stack'[k] = A[k]
  BY <1>3, <1>4, <1>8
<1>9. /\ \A k \in DOMAIN stack' : k \in Nat /\ 1 <= k
      /\ \A k \in DOMAIN stack : k \in Nat /\ 1 <= k
  BY <1>1, <1>3
<1> QED BY <1>3, <1>5, <1>6, <1>7, <1>8, <1>9 DEF Replacement

\* The items after the top one has been taken off.
LEMMA Popped ==
  ASSUME TypeOK, stack # <<>>, stack' = <<>> \o Tail(stack)
  PROVE  /\ stack' \in Seq(Item)
         /\ \A k, c, d : CellAt(k, c, d)' => k \in Nat /\ 1 <= k /\ CellAt(k + 1, c, d)
         /\ \A k, c, d : TreeAt(k, c, d)' => k \in Nat /\ 1 <= k /\ TreeAt(k + 1, c, d)
         /\ \A k, c, d : CellAt(k, c, d) => k \in Nat /\ 1 <= k /\ (k # 1 => CellAt(k - 1, c, d)')
         /\ \A k, c, d : TreeAt(k, c, d) => k \in Nat /\ 1 <= k /\ (k # 1 => TreeAt(k - 1, c, d)')
<1>1. PICK A : A = <<>>
  OBVIOUS
<1>2. A \in Seq(Item) /\ stack' = A \o Tail(stack) /\ Len(A) = 0
  BY <1>1
<1>3. PICK a : IsLength(a, A)
  BY DEF IsLength
<1>4. a = 0
  BY <1>2, <1>3 DEF IsLength
<1>5. /\ stack' \in Seq(Item)
      /\ \A k \in DOMAIN stack' : k \in Nat /\ 1 <= k
      /\ \A k \in DOMAIN stack : k \in Nat /\ 1 <= k
      /\ \A k \in DOMAIN stack' : k > a => k - a + 1 \in DOMAIN stack /\ k - a + 1 > 1
                                            /\ stack'[k] = stack[k - a + 1]
      /\ \A k \in DOMAIN stack : k # 1 => k + a - 1 \in DOMAIN stack' /\ k + a - 1 > a
                                            /\ stack'[k + a - 1] = stack[k]
  <2>1. Replacement(A, a)
    BY <1>2, <1>3, Replaced
  <2> QED BY <2>1 DEF Replacement
<1>6. /\ \A k \in DOMAIN stack' : k + 1 \in DOMAIN stack /\ stack'[k] = stack[k + 1]
      /\ \A k \in DOMAIN stack : k # 1 => k - 1 \in DOMAIN stack' /\ stack'[k - 1] = stack[k]
  <2>1. ASSUME NEW k \in DOMAIN stack'
        PROVE  k + 1 \in DOMAIN stack /\ stack'[k] = stack[k + 1]
    <3>1. k > a /\ k - a + 1 = k + 1
      BY <1>4, <1>5
    <3> QED BY <1>5, <3>1
  <2>2. ASSUME NEW k \in DOMAIN stack, k # 1
        PROVE  k - 1 \in DOMAIN stack' /\ stack'[k - 1] = stack[k]
    <3>1. k + a - 1 = k - 1
      BY <1>4, <1>5
    <3> QED BY <1>5, <2>2, <3>1
  <2> QED BY <2>1, <2>2
<1> QED BY <1>5, <1>6 DEF CellAt, TreeAt

\* The items after the top one has been exchanged for another.
LEMMA Exchanged ==
  ASSUME TypeOK, stack # <<>>, NEW x \in Item, stack' = <<x>> \o Tail(stack)
  PROVE  /\ stack' \in Seq(Item)
         /\ \A k \in DOMAIN stack : k \in Nat /\ 1 <= k
         /\ DOMAIN stack' = DOMAIN stack
         /\ 1 \in DOMAIN stack /\ stack'[1] = x
         /\ \A k \in DOMAIN stack : k # 1 => stack'[k] = stack[k]
<1>1. PICK A : A = <<x>>
  OBVIOUS
<1>2. A \in Seq(Item) /\ stack' = A \o Tail(stack) /\ Len(A) = 1 /\ A[1] = x
  BY <1>1
<1>3. PICK a : IsLength(a, A)
  BY DEF IsLength
<1>4. a = 1
  BY <1>2, <1>3 DEF IsLength
<1>5. /\ stack' \in Seq(Item)
      /\ \A k \in DOMAIN stack' : k \in Nat /\ 1 <= k
      /\ \A k \in DOMAIN stack : k \in Nat /\ 1 <= k
      /\ \A k \in DOMAIN stack' : k > a => k - a + 1 \in DOMAIN stack
                                            /\ stack'[k] = stack[k - a + 1]
      /\ \A k \in DOMAIN A : k \in DOMAIN stack' /\ stack'[k] = A[k]
      /\ \A k \in DOMAIN stack : k # 1 => k + a - 1 \in DOMAIN stack'
                                            /\ stack'[k + a - 1] = stack[k]
  <2>1. Replacement(A, a)
    BY <1>2, <1>3, Replaced
  <2> QED BY <2>1 DEF Replacement
<1>6. 1 \in DOMAIN stack /\ 1 \in DOMAIN A
  BY <1>2 DEF TypeOK
<1>7. ASSUME NEW k \in DOMAIN stack, k # 1
      PROVE  k \in DOMAIN stack' /\ stack'[k] = stack[k]
  <2>1. k + a - 1 = k
    BY <1>4, <1>5
  <2> QED BY <1>5, <1>7, <2>1
<1>8. ASSUME NEW k \in DOMAIN stack'
      PROVE  k \in DOMAIN stack
  <2>1. k # 1 => k > a /\ k - a + 1 = k
    BY <1>4, <1>5
  <2> QED BY <1>5, <1>6, <2>1
<1> QED BY <1>2, <1>5, <1>6, <1>7, <1>8


-----------------------------------------------------------------------------
(* The steps of truncate.                                                  *)

\* A step of truncate with the item on top of the stack.
LEMMA FreeZoneSound ==
  ASSUME TypeOK, NEW h \in Heights, NEW K \in SUBSET Zone, Sound(h, K), FreeZone
  PROVE  TypeOK' /\ Sound(h, K)'
<1>1. PICK z : z = Top.zone
  OBVIOUS
<1>2. /\ Truncating /\ stack # <<>> /\ Top.kind = "tree" /\ Top.d = 0
      /\ free' = free \cup {z} /\ own' = own \ {z} /\ stack' = Tail(stack)
      /\ UNCHANGED <<ptr, lost, isize, errs, w, wb, wend, new, fsize>>
  BY <1>1 DEF FreeZone, FreeBlocks
<1>3. z \in Zone /\ TreeAt(1, z, 0)
  BY <1>1, <1>2, TopIs
<1>4. stack' = <<>> \o Tail(stack)
  BY <1>2 DEF TypeOK
<1>5. /\ stack' \in Seq(Item)
      /\ \A k, c, d : CellAt(k, c, d)' => k \in Nat /\ 1 <= k /\ CellAt(k + 1, c, d)
      /\ \A k, c, d : TreeAt(k, c, d)' => k \in Nat /\ 1 <= k /\ TreeAt(k + 1, c, d)
      /\ \A k, c, d : CellAt(k, c, d) => k \in Nat /\ 1 <= k /\ (k # 1 => CellAt(k - 1, c, d)')
      /\ \A k, c, d : TreeAt(k, c, d) => k \in Nat /\ 1 <= k /\ (k # 1 => TreeAt(k - 1, c, d)')
  BY <1>2, <1>4, Popped
<1>6. EdgesOK(h) /\ ClaimedOK(h) /\ FilledOK(h) /\ CellsOK(h, K) /\ TreesOK(h) /\ KeptOK(h, K)
  BY DEF Sound, Forest
<1>7. /\ z \in own \ (lost \cup New)
      /\ \A m, j, e : ~ CellAt(m, <<z, j>>, e)
      /\ 0 # h[z] => \A j \in Index : ptr[<<z, j>>] = NoZone
      /\ \A m, e : TreeAt(m, z, e) => m = 1
  <2>1. /\ z \in own \ (lost \cup New)
        /\ \A m, j, e : CellAt(m, <<z, j>>, e) => m < 1
        /\ 0 # h[z] => \A j \in Index :
             ptr[<<z, j>>] = NoZone \/ \E m, e : m < 1 /\ CellAt(m, <<z, j>>, e)
        /\ \A m, e : TreeAt(m, z, e) => m = 1
    BY <1>3, <1>6 DEF TreesOK
  <2>2. \A m, c, e : CellAt(m, c, e) => ~ (m < 1)
    BY <1>5
  <2> QED BY <2>1, <2>2
<1>8. Cut(z)
  BY <1>3 DEF Cut
<1>9. New' = New
  BY <1>2 DEF New
<1>10. Node(h)' = Node(h) \ {z}
  BY <1>2, <1>9 DEF Node
<1>11. \A c \in Ref(h) : ptr[c] # z
  BY <1>3, <1>6, <1>8, BlockTreeAssumption DEF EdgesOK
<1>12. Ref(h)' \subseteq Ref(h) /\ \A c \in Ref(h) : c[1] # z => c \in Ref(h)'
  BY <1>10 DEF Ref
<1>13. \A c \in Ref(h) : c[1] = z => ptr[c] = NoZone
  <2> SUFFICES ASSUME NEW c \in Ref(h), c[1] = z PROVE ptr[c] = NoZone
    OBVIOUS
  <2>1. c[1] # Inode /\ z \in Node(h)
    BY <1>3, BlockTreeAssumption DEF Ref
  <2>2. c[2] \in Index /\ c = <<z, c[2]>>
    BY <2>1 DEF Ref, Cell
  <2>3. h[z] # 0
    BY <2>1 DEF Node
  <2> QED BY <1>7, <2>2, <2>3
<1>14. z \notin K
  BY <1>6, <1>11 DEF KeptOK
<1>15. \A y : (Cut(y)' => Cut(y)) /\ (Cut(y) /\ y # z => Cut(y)')
  <2>1. \A y : Cut(y)' => Cut(y)
    BY <1>5 DEF Cut
  <2>2. ASSUME NEW y, Cut(y), y # z PROVE Cut(y)'
    <3>1. PICK k, d : TreeAt(k, y, d)
      BY <2>2 DEF Cut
    <3>2. k # 1
      BY <1>3, <2>2, <3>1, ItemKinds DEF TreeAt
    <3> QED BY <1>5, <3>1, <3>2 DEF Cut
  <2> QED BY <2>1, <2>2
<1>16. \A c : OnStack(c)' => OnStack(c)
  BY <1>5 DEF OnStack
<1>17. EdgesOK(h)'
  BY <1>2, <1>6, <1>9, <1>11, <1>12, <1>15 DEF EdgesOK, Height
<1>18. ClaimedOK(h)'
  <2> SUFFICES ASSUME NEW y \in own \ (lost \cup New), y # z
               PROVE  Cut(y)' \/ \E c \in Ref(h)' : ptr[c] = y
    BY <1>2, <1>9 DEF ClaimedOK
  <2>1. CASE Cut(y)
    BY <1>15, <2>1
  <2>2. CASE \E c \in Ref(h) : ptr[c] = y
    <3>1. PICK c \in Ref(h) : ptr[c] = y
      BY <2>2
    <3>2. y # NoZone
      BY BlockTreeAssumption DEF TypeOK
    <3> QED BY <1>12, <1>13, <3>1, <3>2
  <2> QED BY <1>6, <2>1, <2>2 DEF ClaimedOK
<1>19. FilledOK(h)'
  <2> SUFFICES ASSUME NEW y \in Node(h) \ lost, y # z
               PROVE  Cut(y)' \/ \E j \in Index : ptr[<<y, j>>] \in Zone /\ ~ OnStack(<<y, j>>)'
    BY <1>2, <1>10 DEF FilledOK
  <2> QED BY <1>6, <1>15, <1>16 DEF FilledOK
<1>20. CellsOK(h, K)'
  <2> SUFFICES ASSUME NEW k, NEW c, NEW d, CellAt(k, c, d)'
               PROVE  /\ c \in Ref(h)' /\ d = Height(h, c)
                      /\ c[1] \in K \cup {Inode} \/ \E m : m > k /\ TreeAt(m, c[1], 0)'
    BY DEF CellsOK, Height
  <2>1. k \in Nat /\ 1 <= k /\ CellAt(k + 1, c, d)
    BY <1>5
  <2>2. /\ c \in Ref(h) /\ d = Height(h, c)
        /\ c[1] \in K \cup {Inode} \/ \E m : m > k + 1 /\ TreeAt(m, c[1], 0)
    BY <1>6, <2>1 DEF CellsOK
  <2>3. c[1] # z
    <3>1. CASE c[1] \in K \cup {Inode}
      BY <1>3, <1>14, <3>1, BlockTreeAssumption
    <3>2. CASE \E m : m > k + 1 /\ TreeAt(m, c[1], 0)
      BY <1>7, <2>1, <3>2
    <3> QED BY <2>2, <3>1, <3>2
  <2>4. ASSUME NEW m, m > k + 1, TreeAt(m, c[1], 0)
        PROVE  m - 1 > k /\ TreeAt(m - 1, c[1], 0)'
    <3>1. m \in Nat /\ m # 1
      BY <1>5, <2>1, <2>4
    <3> QED BY <1>5, <2>1, <2>4, <3>1
  <2> QED BY <1>12, <2>2, <2>3, <2>4
<1>21. TreesOK(h)'
  <2> SUFFICES ASSUME NEW k, NEW y, NEW d, TreeAt(k, y, d)'
        PROVE  /\ y \in own' \ (lost' \cup New')
               /\ d = h[y] \/ d = 0
               /\ \A m, j, e : CellAt(m, <<y, j>>, e)' => m < k
               /\ d # h[y] => \A j \in Index :
                    ptr'[<<y, j>>] = NoZone \/ \E m, e : m < k /\ CellAt(m, <<y, j>>, e)'
               /\ \A m, e : TreeAt(m, y, e)' => m = k
    BY DEF TreesOK
  <2>1. k \in Nat /\ 1 <= k /\ TreeAt(k + 1, y, d)
    BY <1>5
  <2>2. /\ y \in own \ (lost \cup New)
        /\ d = h[y] \/ d = 0
        /\ \A m, j, e : CellAt(m, <<y, j>>, e) => m < k + 1
        /\ d # h[y] => \A j \in Index :
             ptr[<<y, j>>] = NoZone \/ \E m, e : m < k + 1 /\ CellAt(m, <<y, j>>, e)
        /\ \A m, e : TreeAt(m, y, e) => m = k + 1
    BY <1>6, <2>1 DEF TreesOK
  <2>3. y # z
    BY <1>7, <2>1
  <2>4. \A m, j, e : CellAt(m, <<y, j>>, e)' => m < k
    <3> SUFFICES ASSUME NEW m, NEW j, NEW e, CellAt(m, <<y, j>>, e)' PROVE m < k
      OBVIOUS
    <3>1. m \in Nat /\ CellAt(m + 1, <<y, j>>, e)
      BY <1>5
    <3>2. m + 1 < k + 1
      BY <2>2, <3>1
    <3> QED BY <2>1, <3>1, <3>2
  <2>5. ASSUME NEW m, NEW e, NEW j, m < k + 1, CellAt(m, <<y, j>>, e)
        PROVE  \E n : n < k /\ CellAt(n, <<y, j>>, e)'
    <3>1. m \in Nat /\ m # 1 /\ CellAt(m - 1, <<y, j>>, e)'
      BY <1>3, <1>5, <2>5, ItemKinds DEF CellAt, TreeAt
    <3>2. m - 1 < k
      BY <2>1, <2>5, <3>1
    <3> QED BY <3>1, <3>2
  <2>6. \A m, e : TreeAt(m, y, e)' => m = k
    <3> SUFFICES ASSUME NEW m, NEW e, TreeAt(m, y, e)' PROVE m = k
      OBVIOUS
    <3>1. m \in Nat /\ TreeAt(m + 1, y, e)
      BY <1>5
    <3>2. m + 1 = k + 1
      BY <2>2, <3>1
    <3> QED BY <2>1, <3>1, <3>2
  <2> QED BY <1>2, <1>9, <2>2, <2>3, <2>4, <2>5, <2>6
<1>22. KeptOK(h, K)'
  <2> SUFFICES ASSUME NEW y \in K
               PROVE  y \notin lost /\ \E c \in Ref(h)' :
                        ptr[c] = y /\ ~ OnStack(c)' /\ c[1] \in K \cup {Inode}
    BY <1>2 DEF KeptOK
  <2>1. y \notin lost
    BY <1>6 DEF KeptOK
  <2>2. PICK c \in Ref(h) : ptr[c] = y /\ ~ OnStack(c) /\ c[1] \in K \cup {Inode}
    BY <1>6 DEF KeptOK
  <2>3. c[1] # z
    BY <1>3, <1>14, <2>2, BlockTreeAssumption
  <2> QED BY <1>12, <1>16, <2>1, <2>2, <2>3
<1>23. NewOK(h)'
  BY <1>2 DEF NewOK, Truncating
<1>24. TypeOK'
  BY <1>2, <1>3, <1>5, <1>7 DEF TypeOK, Truncating
<1> QED BY <1>17, <1>18, <1>19, <1>20, <1>21, <1>22, <1>23, <1>24 DEF Sound, Forest


LEMMA ClearHoleSound ==
  ASSUME TypeOK, NEW h \in Heights, NEW K \in SUBSET Zone, Sound(h, K),
         ClearCell, ptr[Top.cell] = NoZone
  PROVE  TypeOK' /\ Sound(h, K)'
<1>1. PICK c0, d0 : c0 = Top.cell /\ d0 = Top.d
  OBVIOUS
<1>2. /\ Truncating /\ stack # <<>> /\ Top.kind = "cell" /\ ptr[c0] = NoZone
      /\ stack' = <<>> \o Tail(stack)
      /\ ptr' = [ptr EXCEPT ![c0] = NoZone]
      /\ UNCHANGED <<free, own, lost, isize, errs, w, wb, wend, new, fsize>>
  BY <1>1 DEF ClearCell
<1>3. c0 \in Cell /\ CellAt(1, c0, d0)
  BY <1>1, <1>2, TopIs
<1>4. ptr' = ptr
  BY <1>2, <1>3 DEF TypeOK
<1>5. /\ stack' \in Seq(Item)
      /\ \A k, c, d : CellAt(k, c, d)' => k \in Nat /\ 1 <= k /\ CellAt(k + 1, c, d)
      /\ \A k, c, d : TreeAt(k, c, d)' => k \in Nat /\ 1 <= k /\ TreeAt(k + 1, c, d)
      /\ \A k, c, d : CellAt(k, c, d) => k \in Nat /\ 1 <= k /\ (k # 1 => CellAt(k - 1, c, d)')
      /\ \A k, c, d : TreeAt(k, c, d) => k \in Nat /\ 1 <= k /\ (k # 1 => TreeAt(k - 1, c, d)')
  BY <1>2, Popped
<1>6. EdgesOK(h) /\ ClaimedOK(h) /\ FilledOK(h) /\ CellsOK(h, K) /\ TreesOK(h) /\ KeptOK(h, K)
  BY DEF Sound, Forest
<1>7. New' = New /\ Node(h)' = Node(h) /\ Ref(h)' = Ref(h)
  BY <1>2 DEF New, Node, Ref
<1>8. \A y, d : ~ TreeAt(1, y, d)
  BY <1>3, ItemKinds DEF CellAt, TreeAt
<1>9. \A y : Cut(y)' <=> Cut(y)
  BY <1>5, <1>8 DEF Cut
<1>10. \A c : OnStack(c)' => OnStack(c)
  BY <1>5 DEF OnStack
<1>11. EdgesOK(h)'
  BY <1>2, <1>4, <1>6, <1>7, <1>9 DEF EdgesOK, Height
<1>12. ClaimedOK(h)'
  BY <1>2, <1>4, <1>6, <1>7, <1>9 DEF ClaimedOK
<1>13. FilledOK(h)'
  BY <1>2, <1>4, <1>6, <1>7, <1>9, <1>10 DEF FilledOK
<1>14. CellsOK(h, K)'
  <2> SUFFICES ASSUME NEW k, NEW c, NEW d, CellAt(k, c, d)'
               PROVE  /\ c \in Ref(h) /\ d = Height(h, c)
                      /\ c[1] \in K \cup {Inode} \/ \E m : m > k /\ TreeAt(m, c[1], 0)'
    BY <1>7 DEF CellsOK, Height
  <2>1. k \in Nat /\ 1 <= k /\ CellAt(k + 1, c, d)
    BY <1>5
  <2>2. /\ c \in Ref(h) /\ d = Height(h, c)
        /\ c[1] \in K \cup {Inode} \/ \E m : m > k + 1 /\ TreeAt(m, c[1], 0)
    BY <1>6, <2>1 DEF CellsOK
  <2>4. ASSUME NEW m, m > k + 1, TreeAt(m, c[1], 0)
        PROVE  m - 1 > k /\ TreeAt(m - 1, c[1], 0)'
    <3>1. m \in Nat /\ m # 1
      BY <1>5, <2>1, <2>4
    <3> QED BY <1>5, <2>1, <2>4, <3>1
  <2> QED BY <2>2, <2>4
<1>15. TreesOK(h)'
  <2> SUFFICES ASSUME NEW k, NEW y, NEW d, TreeAt(k, y, d)'
        PROVE  /\ y \in own' \ (lost' \cup New')
               /\ d = h[y] \/ d = 0
               /\ \A m, j, e : CellAt(m, <<y, j>>, e)' => m < k
               /\ d # h[y] => \A j \in Index :
                    ptr'[<<y, j>>] = NoZone \/ \E m, e : m < k /\ CellAt(m, <<y, j>>, e)'
               /\ \A m, e : TreeAt(m, y, e)' => m = k
    BY DEF TreesOK
  <2>1. k \in Nat /\ 1 <= k /\ TreeAt(k + 1, y, d)
    BY <1>5
  <2>2. /\ y \in own \ (lost \cup New)
        /\ d = h[y] \/ d = 0
        /\ \A m, j, e : CellAt(m, <<y, j>>, e) => m < k + 1
        /\ d # h[y] => \A j \in Index :
             ptr[<<y, j>>] = NoZone \/ \E m, e : m < k + 1 /\ CellAt(m, <<y, j>>, e)
        /\ \A m, e : TreeAt(m, y, e) => m = k + 1
    BY <1>6, <2>1 DEF TreesOK
  <2>4. \A m, j, e : CellAt(m, <<y, j>>, e)' => m < k
    <3> SUFFICES ASSUME NEW m, NEW j, NEW e, CellAt(m, <<y, j>>, e)' PROVE m < k
      OBVIOUS
    <3>1. m \in Nat /\ CellAt(m + 1, <<y, j>>, e)
      BY <1>5
    <3>2. m + 1 < k + 1
      BY <2>2, <3>1
    <3> QED BY <2>1, <3>1, <3>2
  <2>5. ASSUME NEW m, NEW e, NEW j, m < k + 1, CellAt(m, <<y, j>>, e), ptr[<<y, j>>] # NoZone
        PROVE  \E n : n < k /\ CellAt(n, <<y, j>>, e)'
    <3>1. m # 1
      BY <1>2, <1>3, <2>5, ItemKinds DEF CellAt
    <3>2. m \in Nat /\ CellAt(m - 1, <<y, j>>, e)'
      BY <1>5, <2>5, <3>1
    <3>3. m - 1 < k
      BY <2>1, <2>5, <3>2
    <3> QED BY <3>2, <3>3
  <2>6. \A m, e : TreeAt(m, y, e)' => m = k
    <3> SUFFICES ASSUME NEW m, NEW e, TreeAt(m, y, e)' PROVE m = k
      OBVIOUS
    <3>1. m \in Nat /\ TreeAt(m + 1, y, e)
      BY <1>5
    <3>2. m + 1 = k + 1
      BY <2>2, <3>1
    <3> QED BY <2>1, <3>1, <3>2
  <2>7. d # h[y] => \A j \in Index :
           ptr'[<<y, j>>] = NoZone \/ \E m, e : m < k /\ CellAt(m, <<y, j>>, e)'
    BY <1>4, <2>2, <2>5
  <2> QED BY <1>2, <1>7, <2>2, <2>4, <2>6, <2>7
<1>16. KeptOK(h, K)'
  BY <1>2, <1>4, <1>6, <1>7, <1>10 DEF KeptOK
<1>17. NewOK(h)'
  BY <1>2 DEF NewOK, Truncating
<1>18. TypeOK'
  BY <1>2, <1>4, <1>5 DEF TypeOK, Truncating
<1> QED BY <1>11, <1>12, <1>13, <1>14, <1>15, <1>16, <1>17, <1>18 DEF Sound, Forest

\* What the node of a cell on the stack is.
LEMMA NodeOfCell ==
  ASSUME TypeOK, NEW h \in Heights, NEW K \in SUBSET Zone, Forest(h, K),
         NEW k, NEW c, NEW d, CellAt(k, c, d)
  PROVE  /\ c \in Ref(h) /\ c \in Cell /\ c[1] \notin lost /\ d = Height(h, c)
         /\ \A b \in Ref(h) : OnStack(b) /\ ptr[b] \in Zone => ptr[b] # c[1]
<1>1. CellsOK(h, K) /\ TreesOK(h) /\ KeptOK(h, K) /\ EdgesOK(h)
  BY DEF Forest
<1>2. /\ c \in Ref(h) /\ c \in Cell /\ d = Height(h, c)
      /\ c[1] \in K \cup {Inode} \/ \E m : m > k /\ TreeAt(m, c[1], 0)
  BY <1>1 DEF CellsOK, Ref
<1>3. CASE c[1] = Inode
  <2>1. Inode \notin lost /\ Inode \notin Zone
    BY BlockTreeAssumption DEF TypeOK
  <2> QED BY <1>2, <1>3, <2>1
<1>4. CASE c[1] \in K
  <2>1. PICK e \in Ref(h) : ptr[e] = c[1] /\ ~ OnStack(e)
    BY <1>1, <1>4 DEF KeptOK
  <2>2. c[1] \in Zone /\ c[1] \notin lost
    BY <1>1, <1>4 DEF KeptOK
  <2>3. \A b \in Ref(h) : ptr[b] = c[1] => b = e
    BY <1>1, <2>1, <2>2 DEF EdgesOK
  <2> QED BY <1>2, <2>1, <2>2, <2>3
<1>5. CASE \E m : TreeAt(m, c[1], 0)
  <2>1. c[1] \in own \ lost
    BY <1>1, <1>5 DEF TreesOK
  <2>2. Cut(c[1])
    BY <1>5 DEF Cut
  <2>3. c[1] # NoZone
    BY <2>1, BlockTreeAssumption DEF TypeOK
  <2>4. \A b \in Ref(h) : ptr[b] # c[1]
    BY <1>1, <2>2, <2>3 DEF EdgesOK
  <2> QED BY <1>2, <2>1, <2>4
<1> QED BY <1>2, <1>3, <1>4, <1>5

LEMMA ClearZoneSound ==
  ASSUME TypeOK, NEW h \in Heights, NEW K \in SUBSET Zone, Sound(h, K),
         ClearCell, ptr[Top.cell] # NoZone
  PROVE  TypeOK' /\ Sound(h, K)'
<1>1. PICK c0, d0, z : c0 = Top.cell /\ d0 = Top.d /\ z = ptr[c0]
  OBVIOUS
<1>2. /\ Truncating /\ stack # <<>> /\ Top.kind = "cell" /\ z # NoZone
      /\ stack' = <<TreeItem(z, d0)>> \o Tail(stack)
      /\ ptr' = [ptr EXCEPT ![c0] = NoZone]
      /\ UNCHANGED <<free, own, lost, isize, errs, w, wb, wend, new, fsize>>
  BY <1>1 DEF ClearCell
<1>3. c0 \in Cell /\ CellAt(1, c0, d0) /\ d0 \in 0 .. 3 /\ OnStack(c0)
  BY <1>1, <1>2, TopIs DEF OnStack
<1>4. /\ ptr'[c0] = NoZone /\ \A c \in Cell : c # c0 => ptr'[c] = ptr[c]
      /\ ptr' \in [Cell -> Pointer]
  <2>1. NoZone \in Pointer
    BY DEF Pointer
  <2> QED BY <1>2, <1>3, <2>1 DEF TypeOK
<1>5. EdgesOK(h) /\ ClaimedOK(h) /\ FilledOK(h) /\ CellsOK(h, K) /\ TreesOK(h) /\ KeptOK(h, K)
  BY DEF Sound, Forest
<1>6. c0 \in Ref(h) /\ c0[1] \notin lost /\ d0 = Height(h, c0)
  BY <1>3, NodeOfCell DEF Sound
<1>7. z \in own \ (lost \cup New) /\ h[z] = d0 /\ ~ Cut(z) /\ z \in Zone
  BY <1>1, <1>2, <1>5, <1>6 DEF EdgesOK, TypeOK
<1>8. \A m, j, e : ~ CellAt(m, <<z, j>>, e)
  <2> SUFFICES ASSUME NEW m, NEW j, NEW e, CellAt(m, <<z, j>>, e) PROVE FALSE
    OBVIOUS
  <2>1. PICK c : c = <<z, j>>
    OBVIOUS
  <2>2. CellAt(m, c, e)
    BY <2>1
  <2>3. ptr[c0] # c[1]
    BY <1>1, <1>3, <1>6, <1>7, <2>2, NodeOfCell DEF Sound
  <2> QED BY <1>1, <2>1, <2>3
<1>9. TreeItem(z, d0) \in Item
  BY <1>3, <1>7 DEF Item, TreeItem
<1>10. /\ stack' \in Seq(Item)
       /\ \A k \in DOMAIN stack : k \in Nat /\ 1 <= k
       /\ DOMAIN stack' = DOMAIN stack
       /\ 1 \in DOMAIN stack /\ stack'[1] = TreeItem(z, d0)
       /\ \A k \in DOMAIN stack : k # 1 => stack'[k] = stack[k]
  BY <1>2, <1>9, Exchanged
<1>11. /\ \A k, c, d : CellAt(k, c, d)' => k \in Nat /\ 1 < k /\ CellAt(k, c, d)
       /\ \A k, c, d : CellAt(k, c, d) => k \in Nat /\ 1 <= k /\ (k # 1 => CellAt(k, c, d)')
       /\ \A k, y, d : TreeAt(k, y, d)' => k \in Nat /\ 1 <= k
       /\ \A k, y, d : TreeAt(k, y, d)' => TreeAt(k, y, d) \/ (k = 1 /\ y = z /\ d = d0)
       /\ \A k, y, d : TreeAt(k, y, d) => k \in Nat /\ k # 1 /\ TreeAt(k, y, d)'
       /\ TreeAt(1, z, d0)'
  <2>1. \A c, d : CellItem(c, d) # stack'[1]
    BY <1>10, ItemKinds
  <2>2. \A y, d : TreeItem(y, d) # stack[1]
    BY <1>3, ItemKinds DEF CellAt
  <2>3. \A y, d : TreeItem(y, d) = stack'[1] => y = z /\ d = d0
    BY <1>10, ItemKinds
  <2>4. \A k, c, d : CellAt(k, c, d)' => k \in Nat /\ 1 < k /\ CellAt(k, c, d)
    <3> SUFFICES ASSUME NEW k, NEW c, NEW d, CellAt(k, c, d)'
                 PROVE  k \in Nat /\ 1 < k /\ CellAt(k, c, d)
      OBVIOUS
    <3>1. k \in DOMAIN stack /\ k \in Nat /\ 1 <= k /\ stack'[k] = CellItem(c, d)
      BY <1>10 DEF CellAt
    <3>2. k # 1
      BY <2>1, <3>1
    <3> QED BY <1>10, <3>1, <3>2 DEF CellAt
  <2>5. \A k, c, d : CellAt(k, c, d) => k \in Nat /\ 1 <= k /\ (k # 1 => CellAt(k, c, d)')
    BY <1>10 DEF CellAt
  <2>6. \A k, y, d : TreeAt(k, y, d)' =>
           k \in Nat /\ 1 <= k /\ (TreeAt(k, y, d) \/ (k = 1 /\ y = z /\ d = d0))
    BY <1>10, <2>3 DEF TreeAt
  <2>7. \A k, y, d : TreeAt(k, y, d) => k \in Nat /\ k # 1 /\ TreeAt(k, y, d)'
    BY <1>10, <2>2 DEF TreeAt
  <2> QED BY <1>10, <2>4, <2>5, <2>6, <2>7 DEF TreeAt
<1>12. New' = New /\ Node(h)' = Node(h) /\ Ref(h)' = Ref(h)
  BY <1>2 DEF New, Node, Ref
<1>13. \A y : Cut(y)' <=> Cut(y) \/ y = z
  BY <1>11 DEF Cut
<1>14. \A c : OnStack(c)' => OnStack(c)
  BY <1>11 DEF OnStack
<1>15. \A c \in Ref(h) : c # c0 => ptr'[c] = ptr[c] /\ ptr[c] # z
  BY <1>1, <1>4, <1>5, <1>6, <1>7 DEF EdgesOK, Ref
<1>16. EdgesOK(h)'
  <2>1. ASSUME NEW c \in Ref(h)
        PROVE  \/ ptr'[c] = NoZone
               \/ /\ ptr'[c] \in own \ New
                  /\ h[ptr'[c]] = Height(h, c)
                  /\ ~ Cut(ptr[c])'
                  /\ ptr'[c] \in lost <=> c[1] \in lost
    BY <1>4, <1>5, <1>13, <1>15 DEF EdgesOK
  <2>2. \A c, d \in Ref(h) : ptr'[c] \in Zone /\ ptr'[c] = ptr'[d] => c = d
    BY <1>4, <1>5, <1>15, BlockTreeAssumption DEF EdgesOK
  <2> QED BY <1>2, <1>12, <2>1, <2>2 DEF EdgesOK, Height
<1>17. ClaimedOK(h)'
  <2> SUFFICES ASSUME NEW y \in own \ (lost \cup New), y # z
               PROVE  Cut(y) \/ \E c \in Ref(h) : ptr'[c] = y
    BY <1>2, <1>12, <1>13 DEF ClaimedOK
  <2> QED BY <1>1, <1>5, <1>15 DEF ClaimedOK
<1>18. FilledOK(h)'
  <2> SUFFICES ASSUME NEW y \in Node(h) \ lost, ~ Cut(y)
               PROVE  \E j \in Index : ptr'[<<y, j>>] \in Zone /\ ~ OnStack(<<y, j>>)
    BY <1>2, <1>12, <1>13, <1>14 DEF FilledOK
  <2>1. PICK j \in Index : ptr[<<y, j>>] \in Zone /\ ~ OnStack(<<y, j>>)
    BY <1>5 DEF FilledOK
  <2>2. <<y, j>> \in Cell
    BY DEF Cell, Node, TypeOK
  <2> QED BY <1>3, <1>4, <2>1, <2>2
<1>19. CellsOK(h, K)'
  <2> SUFFICES ASSUME NEW k, NEW c, NEW d, CellAt(k, c, d)'
               PROVE  /\ c \in Ref(h) /\ d = Height(h, c)
                      /\ c[1] \in K \cup {Inode} \/ \E m : m > k /\ TreeAt(m, c[1], 0)'
    BY <1>12 DEF CellsOK, Height
  <2>1. CellAt(k, c, d)
    BY <1>11
  <2> QED BY <1>5, <1>11, <2>1 DEF CellsOK
<1>20. TreesOK(h)'
  <2> SUFFICES ASSUME NEW k, NEW y, NEW d, TreeAt(k, y, d)'
        PROVE  /\ y \in own \ (lost \cup New)
               /\ d = h[y] \/ d = 0
               /\ \A m, j, e : CellAt(m, <<y, j>>, e)' => m < k
               /\ d # h[y] => \A j \in Index :
                    ptr'[<<y, j>>] = NoZone \/ \E m, e : m < k /\ CellAt(m, <<y, j>>, e)'
               /\ \A m, e : TreeAt(m, y, e)' => m = k
    BY <1>2, <1>12 DEF TreesOK
  <2>1. CASE k = 1 /\ y = z /\ d = d0
    <3>1. \A m, j, e : ~ CellAt(m, <<y, j>>, e)'
      BY <1>8, <1>11, <2>1
    <3>2. \A m, e : TreeAt(m, y, e)' => m = k
      BY <1>7, <1>11, <2>1 DEF Cut
    <3> QED BY <1>7, <2>1, <3>1, <3>2
  <2>2. CASE TreeAt(k, y, d)
    <3>1. /\ y \in own \ (lost \cup New)
          /\ d = h[y] \/ d = 0
          /\ \A m, j, e : CellAt(m, <<y, j>>, e) => m < k
          /\ d # h[y] => \A j \in Index :
               ptr[<<y, j>>] = NoZone \/ \E m, e : m < k /\ CellAt(m, <<y, j>>, e)
          /\ \A m, e : TreeAt(m, y, e) => m = k
      BY <1>5, <2>2 DEF TreesOK
    <3>2. y # z
      BY <1>7, <2>2 DEF Cut
    <3>3. \A m, e : TreeAt(m, y, e)' => m = k
      BY <1>11, <3>1, <3>2
    <3>4. \A m, j, e : CellAt(m, <<y, j>>, e)' => m < k
      BY <1>11, <3>1
    <3>5. ASSUME NEW j \in Index, d # h[y]
          PROVE  ptr'[<<y, j>>] = NoZone \/ \E m, e : m < k /\ CellAt(m, <<y, j>>, e)'
      <4>1. <<y, j>> \in Cell
        BY <3>1 DEF Cell, TypeOK
      <4>2. CASE <<y, j>> = c0
        BY <1>4, <4>2
      <4>3. CASE <<y, j>> # c0
        <5>1. ptr'[<<y, j>>] = ptr[<<y, j>>]
          BY <1>4, <4>1, <4>3
        <5>2. ASSUME NEW m, NEW e, m < k, CellAt(m, <<y, j>>, e)
              PROVE  CellAt(m, <<y, j>>, e)'
          <6>1. m # 1
            BY <1>3, <4>3, <5>2, ItemKinds DEF CellAt
          <6> QED BY <1>11, <5>2, <6>1
        <5> QED BY <3>1, <3>5, <5>1, <5>2
      <4> QED BY <4>2, <4>3
    <3> QED BY <3>1, <3>3, <3>4, <3>5
  <2> QED BY <1>11, <2>1, <2>2
<1>21. KeptOK(h, K)'
  <2> SUFFICES ASSUME NEW y \in K
               PROVE  y \notin lost /\ \E c \in Ref(h) :
                        ptr'[c] = y /\ ~ OnStack(c) /\ c[1] \in K \cup {Inode}
    BY <1>2, <1>12, <1>14 DEF KeptOK
  <2> QED BY <1>3, <1>5, <1>15 DEF KeptOK
<1>22. NewOK(h)'
  BY <1>2 DEF NewOK, Truncating
<1>23. TypeOK'
  BY <1>2, <1>4, <1>10 DEF TypeOK, Truncating
<1> QED BY <1>16, <1>17, <1>18, <1>19, <1>20, <1>21, <1>22, <1>23 DEF Sound, Forest


\* What CellItems returns: items for l cells of node.
AreCells(s, node, from, l, d) ==
  /\ l \in Nat /\ s \in Seq(Item) /\ Len(s) = l /\ DOMAIN s = 1 .. l
  /\ \A n \in 1 .. l : s[n] = CellItem(<<node, from + n - 1>>, d)

LEMMA CellItemsAre ==
  ASSUME NEW node, NEW from \in Nat, NEW to \in Int, NEW d \in 0 .. 3, from <= to + 1,
         \A j \in from .. to : <<node, j>> \in Cell
  PROVE  AreCells(CellItems(node, from, to, d), node, from, to - from + 1, d)
<1> DEFINE l == IF to < from THEN 0 ELSE to - from + 1
           s == CellItems(node, from, to, d)
<1>1. l = to - from + 1 /\ l \in Nat
  OBVIOUS
<1>2. s = [n \in 1 .. l |-> CellItem(<<node, from + n - 1>>, d)]
  BY DEF CellItems
<1>3. \A n \in 1 .. l : CellItem(<<node, from + n - 1>>, d) \in Item
  <2> TAKE n \in 1 .. l
  <2>1. from + n - 1 \in from .. to
    BY <1>1
  <2> QED BY <2>1 DEF CellItem, Item
<1> DEFINE G(n) == CellItem(<<node, from + n - 1>>, d)
<1> HIDE DEF l, s
<1>4. s \in Seq(Item) /\ Len(s) = l
  <2>1. s = [n \in 1 .. l |-> G(n)] /\ \A n \in 1 .. l : G(n) \in Item
    BY <1>2, <1>3
  <2> HIDE DEF G
  <2> QED BY <1>1, <2>1
<1> QED BY <1>1, <1>2, <1>4 DEF AreCells, s

\* The items that Descend puts on the stack.
LEMMA Descended ==
  ASSUME TypeOK, stack # <<>>, NEW z \in Zone, NEW e \in 0 .. 3,
         stack' = CellItems(z, 0, IndirCount - 1, e) \o <<TreeItem(z, 0)>> \o Tail(stack)
  PROVE  /\ stack' \in Seq(Item)
         /\ \A k \in DOMAIN stack' : k \in Nat /\ 1 <= k
         /\ \A k \in DOMAIN stack : k \in Nat /\ 1 <= k
         /\ \A k \in DOMAIN stack' :
              \/ k <= IndirCount /\ k - 1 \in Index /\ stack'[k] = CellItem(<<z, k - 1>>, e)
              \/ k = IndirCount + 1 /\ stack'[k] = TreeItem(z, 0)
              \/ /\ k > IndirCount + 1 /\ k - IndirCount \in DOMAIN stack
                 /\ k - IndirCount > 1 /\ stack'[k] = stack[k - IndirCount]
         /\ \A j \in Index : j + 1 \in DOMAIN stack' /\ stack'[j + 1] = CellItem(<<z, j>>, e)
         /\ IndirCount + 1 \in DOMAIN stack' /\ stack'[IndirCount + 1] = TreeItem(z, 0)
         /\ \A k \in DOMAIN stack : k # 1 => k + IndirCount \in DOMAIN stack'
                                              /\ stack'[k + IndirCount] = stack[k]
<1>0. IndirCount \in Nat /\ IndirCount >= 1 /\ Index = 0 .. (IndirCount - 1)
  BY Sizes DEF Index
<1>1. PICK s : s = CellItems(z, 0, IndirCount - 1, e)
  OBVIOUS
<1>2. /\ DOMAIN s = 1 .. IndirCount /\ Len(s) = IndirCount
      /\ \A n \in 1 .. IndirCount : s[n] = CellItem(<<z, n - 1>>, e)
      /\ s \in Seq(Item)
  <2>1. (IndirCount - 1) - 0 + 1 = IndirCount /\ IndirCount - 1 \in Int
        /\ 0 <= (IndirCount - 1) + 1
    BY <1>0
  <2>2. \A n \in 1 .. IndirCount : 0 + n - 1 = n - 1 /\ n - 1 \in Index
    BY <1>0
  <2>4. /\ DOMAIN s = 1 .. IndirCount /\ Len(s) = IndirCount
        /\ \A n \in 1 .. IndirCount : s[n] = CellItem(<<z, 0 + n - 1>>, e)
        /\ s \in Seq(Item)
    <3>1. \A j \in 0 .. (IndirCount - 1) : <<z, j>> \in Cell
      BY DEF Cell, Index
    <3>2. AreCells(s, z, 0, (IndirCount - 1) - 0 + 1, e)
      BY <1>1, <2>1, <3>1, CellItemsAre, 0 \in Nat
    <3> QED BY <2>1, <3>2 DEF AreCells
  <2> QED BY <2>2, <2>4
<1>3. PICK x : x = TreeItem(z, 0)
  OBVIOUS
<1>4. x \in Item
  BY <1>3 DEF Item, TreeItem
<1>5. PICK A : A = s \o <<x>>
  OBVIOUS
<1>6. /\ A \in Seq(Item) /\ Len(A) = IndirCount + 1 /\ DOMAIN A = 1 .. (IndirCount + 1)
      /\ \A n \in 1 .. IndirCount : A[n] = CellItem(<<z, n - 1>>, e)
      /\ A[IndirCount + 1] = x
  <2>1. <<x>> \in Seq(Item) /\ Len(<<x>>) = 1 /\ <<x>>[1] = x
    BY <1>4
  <2>2. \A n \in 1 .. IndirCount : A[n] = s[n]
    BY <1>0, <1>2, <1>5, <2>1
  <2>3. A[IndirCount + 1] = x
    BY <1>0, <1>2, <1>5, <2>1, SMTT(30)
  <2> QED BY <1>0, <1>2, <1>5, <2>1, <2>2, <2>3
<1>7. stack' = A \o Tail(stack)
  BY <1>1, <1>3, <1>5
<1>8. PICK a : IsLength(a, A)
  BY DEF IsLength
<1>9. a = IndirCount + 1
  BY <1>6, <1>8 DEF IsLength
<1>10. Replacement(A, a)
  BY <1>6, <1>7, <1>8, Replaced
<1>11. ASSUME NEW k \in DOMAIN stack'
       PROVE  \/ k <= IndirCount /\ k - 1 \in Index /\ stack'[k] = CellItem(<<z, k - 1>>, e)
              \/ k = IndirCount + 1 /\ stack'[k] = x
              \/ /\ k > IndirCount + 1 /\ k - IndirCount \in DOMAIN stack
                 /\ k - IndirCount > 1 /\ stack'[k] = stack[k - IndirCount]
  <2>1. k \in Nat /\ 1 <= k
    BY <1>10 DEF Replacement
  <2>2. CASE k <= a
    <3>1. stack'[k] = A[k]
      BY <1>10, <2>2 DEF Replacement
    <3>2. k <= IndirCount => k \in 1 .. IndirCount /\ k - 1 \in Index
      BY <1>0, <2>1
    <3>3. ~ (k <= IndirCount) => k = IndirCount + 1
      BY <1>0, <1>9, <2>1, <2>2
    <3> QED BY <1>6, <3>1, <3>2, <3>3
  <2>3. CASE k > a
    <3>1. k - a + 1 \in DOMAIN stack /\ k - a + 1 > 1 /\ stack'[k] = stack[k - a + 1]
      BY <1>10, <2>3 DEF Replacement
    <3>2. k - a + 1 = k - IndirCount /\ k > IndirCount + 1
      BY <1>0, <1>9, <2>1, <2>3
    <3> QED BY <3>1, <3>2
  <2>4. a \in Nat
    BY <1>0, <1>9
  <2>5. k <= a \/ k > a
    BY <2>1, <2>4
  <2> QED BY <2>2, <2>3, <2>5
<1>12. ASSUME NEW k \in DOMAIN stack, k # 1
       PROVE  k + IndirCount \in DOMAIN stack' /\ stack'[k + IndirCount] = stack[k]
  <2>1. k \in Nat /\ k + a - 1 \in DOMAIN stack' /\ stack'[k + a - 1] = stack[k]
    BY <1>10, <1>12 DEF Replacement
  <2>2. k + a - 1 = k + IndirCount
    BY <1>0, <1>9, <2>1
  <2> QED BY <2>1, <2>2
<1>13. ASSUME NEW j \in Index
       PROVE  j + 1 \in DOMAIN stack' /\ stack'[j + 1] = CellItem(<<z, j>>, e)
  <2>1. j + 1 \in 1 .. IndirCount /\ j + 1 \in DOMAIN A /\ (j + 1) - 1 = j
    BY <1>0, <1>6
  <2>2. j + 1 \in DOMAIN stack' /\ stack'[j + 1] = A[j + 1]
    BY <1>10, <2>1 DEF Replacement
  <2> QED BY <1>6, <2>1, <2>2
<1>14. IndirCount + 1 \in DOMAIN stack' /\ stack'[IndirCount + 1] = x
  <2>1. IndirCount + 1 \in DOMAIN A
    BY <1>0, <1>6
  <2> QED BY <1>6, <1>10, <2>1 DEF Replacement
<1>15. /\ stack' \in Seq(Item)
       /\ \A k \in DOMAIN stack' : k \in Nat /\ 1 <= k
       /\ \A k \in DOMAIN stack : k \in Nat /\ 1 <= k
  BY <1>10 DEF Replacement
<1> QED BY <1>3, <1>11, <1>12, <1>13, <1>14, <1>15


LEMMA DescendSound ==
  ASSUME TypeOK, NEW h \in Heights, NEW K \in SUBSET Zone, Sound(h, K), Descend
  PROVE  TypeOK' /\ Sound(h, K)'
<1>1. PICK z, d0, e0 : z = Top.zone /\ d0 = Top.d /\ e0 = Top.d - 1
  OBVIOUS
<1>2. /\ Truncating /\ stack # <<>> /\ Top.kind = "tree" /\ d0 > 0
      /\ stack' = CellItems(z, 0, IndirCount - 1, e0) \o <<TreeItem(z, 0)>> \o Tail(stack)
      /\ UNCHANGED <<ptr, free, own, lost, isize, errs, w, wb, wend, new, fsize>>
  BY <1>1 DEF Descend, treeVars
<1>3. z \in Zone /\ TreeAt(1, z, d0) /\ e0 \in 0 .. 3 /\ e0 = d0 - 1 /\ d0 \in 0 .. 3
  BY <1>1, <1>2, TopIs
<1>4. /\ stack' \in Seq(Item)
      /\ \A k \in DOMAIN stack' : k \in Nat /\ 1 <= k
      /\ \A k \in DOMAIN stack : k \in Nat /\ 1 <= k
      /\ \A k \in DOMAIN stack' :
           \/ k <= IndirCount /\ k - 1 \in Index /\ stack'[k] = CellItem(<<z, k - 1>>, e0)
           \/ k = IndirCount + 1 /\ stack'[k] = TreeItem(z, 0)
           \/ /\ k > IndirCount + 1 /\ k - IndirCount \in DOMAIN stack
              /\ k - IndirCount > 1 /\ stack'[k] = stack[k - IndirCount]
      /\ \A j \in Index : j + 1 \in DOMAIN stack' /\ stack'[j + 1] = CellItem(<<z, j>>, e0)
      /\ IndirCount + 1 \in DOMAIN stack' /\ stack'[IndirCount + 1] = TreeItem(z, 0)
      /\ \A k \in DOMAIN stack : k # 1 => k + IndirCount \in DOMAIN stack'
                                           /\ stack'[k + IndirCount] = stack[k]
  BY <1>2, <1>3, Descended
<1>5. ASSUME NEW k, NEW c, NEW d, CellAt(k, c, d)'
      PROVE  /\ k \in Nat /\ 1 <= k
             /\ \/ k <= IndirCount /\ k - 1 \in Index /\ c = <<z, k - 1>> /\ d = e0
                \/ k > IndirCount + 1 /\ CellAt(k - IndirCount, c, d)
  <2>1. k \in DOMAIN stack' /\ stack'[k] = CellItem(c, d)
    BY <1>5 DEF CellAt
  <2>2. \/ k <= IndirCount /\ k - 1 \in Index /\ stack'[k] = CellItem(<<z, k - 1>>, e0)
        \/ k = IndirCount + 1 /\ stack'[k] = TreeItem(z, 0)
        \/ /\ k > IndirCount + 1 /\ k - IndirCount \in DOMAIN stack
           /\ stack'[k] = stack[k - IndirCount]
    BY <1>4, <2>1
  <2>3. stack'[k] # TreeItem(z, 0)
    BY <2>1, ItemKinds
  <2>4. stack'[k] = CellItem(<<z, k - 1>>, e0) => c = <<z, k - 1>> /\ d = e0
    <3>1. PICK c1 : c1 = <<z, k - 1>>
      OBVIOUS
    <3>2. stack'[k] = CellItem(c1, e0) => c = c1 /\ d = e0
      BY <2>1, ItemKinds
    <3> QED BY <3>1, <3>2
  <2>5. k \in Nat /\ 1 <= k
    BY <1>4, <2>1
  <2> QED BY <2>1, <2>2, <2>3, <2>4, <2>5 DEF CellAt
<1>6. ASSUME NEW k, NEW y, NEW d, TreeAt(k, y, d)'
      PROVE  /\ k \in Nat /\ 1 <= k
             /\ \/ k = IndirCount + 1 /\ y = z /\ d = 0
                \/ k > IndirCount + 1 /\ TreeAt(k - IndirCount, y, d)
  <2>1. k \in DOMAIN stack' /\ stack'[k] = TreeItem(y, d)
    BY <1>6 DEF TreeAt
  <2>2. \/ stack'[k] = CellItem(<<z, k - 1>>, e0)
        \/ k = IndirCount + 1 /\ stack'[k] = TreeItem(z, 0)
        \/ /\ k > IndirCount + 1 /\ k - IndirCount \in DOMAIN stack
           /\ stack'[k] = stack[k - IndirCount]
    BY <1>4, <2>1
  <2>3. stack'[k] # CellItem(<<z, k - 1>>, e0)
    BY <2>1, ItemKinds
  <2>4. stack'[k] = TreeItem(z, 0) => y = z /\ d = 0
    BY <2>1, ItemKinds
  <2>5. k \in Nat /\ 1 <= k
    BY <1>4, <2>1
  <2> QED BY <2>1, <2>2, <2>3, <2>4, <2>5 DEF TreeAt
<1>7. ASSUME NEW k, NEW c, NEW d, CellAt(k, c, d)
      PROVE  k \in Nat /\ 1 < k /\ CellAt(k + IndirCount, c, d)'
  <2>1. k # 1
    BY <1>3, <1>7, ItemKinds DEF CellAt, TreeAt
  <2>2. k \in DOMAIN stack /\ stack[k] = CellItem(c, d) /\ k \in Nat /\ 1 <= k
    BY <1>4, <1>7 DEF CellAt
  <2>3. 1 < k
    BY <2>1, <2>2
  <2> QED BY <1>4, <2>1, <2>2, <2>3 DEF CellAt
<1>8. ASSUME NEW k, NEW y, NEW d, TreeAt(k, y, d)
      PROVE  k \in Nat /\ 1 <= k /\ (k # 1 => TreeAt(k + IndirCount, y, d)')
  BY <1>4, <1>8 DEF TreeAt
<1>9. TreeAt(IndirCount + 1, z, 0)' /\ \A j \in Index : CellAt(j + 1, <<z, j>>, e0)'
  BY <1>4 DEF TreeAt, CellAt
<1>10. EdgesOK(h) /\ ClaimedOK(h) /\ FilledOK(h) /\ CellsOK(h, K) /\ TreesOK(h) /\ KeptOK(h, K)
  BY DEF Sound, Forest
<1>11. /\ z \in own \ (lost \cup New) /\ h[z] = d0 /\ z \in Node(h) /\ Cut(z)
       /\ \A m, j, e : ~ CellAt(m, <<z, j>>, e)
       /\ \A m, e : TreeAt(m, z, e) => m = 1
  <2>1. /\ z \in own \ (lost \cup New) /\ (d0 = h[z] \/ d0 = 0)
        /\ \A m, j, e : CellAt(m, <<z, j>>, e) => m < 1
        /\ \A m, e : TreeAt(m, z, e) => m = 1
    BY <1>3, <1>10 DEF TreesOK
  <2>2. \A m, c, e : CellAt(m, c, e) => ~ (m < 1)
    BY <1>7
  <2>3. d0 # 0
    BY <1>2, <1>3
  <2> QED BY <1>2, <1>3, <2>1, <2>2, <2>3 DEF Node, Cut
<1>12. New' = New /\ Node(h)' = Node(h) /\ Ref(h)' = Ref(h)
  BY <1>2 DEF New, Node, Ref
<1>13. \A y : Cut(y)' <=> Cut(y)
  <2>1. ASSUME NEW y, Cut(y)' PROVE Cut(y)
    BY <1>6, <1>11, <2>1 DEF Cut
  <2>2. ASSUME NEW y, Cut(y) PROVE Cut(y)'
    <3>1. PICK k, d : TreeAt(k, y, d)
      BY <2>2 DEF Cut
    <3>2. CASE k = 1
      <4>1. y = z
        BY <1>3, <3>1, <3>2, ItemKinds DEF TreeAt
      <4> QED BY <1>9, <4>1 DEF Cut
    <3>3. CASE k # 1
      BY <1>8, <3>1, <3>3 DEF Cut
    <3> QED BY <3>2, <3>3
  <2> QED BY <2>1, <2>2
<1>14. \A c : OnStack(c)' => OnStack(c) \/ c[1] = z
  BY <1>5 DEF OnStack
<1>15. \A c \in Ref(h) : ptr[c] # z
  BY <1>3, <1>10, <1>11, BlockTreeAssumption DEF EdgesOK
<1>16. z \notin K
  BY <1>10, <1>15 DEF KeptOK
<1>17. EdgesOK(h)'
  BY <1>2, <1>10, <1>12, <1>13 DEF EdgesOK, Height
<1>18. ClaimedOK(h)'
  BY <1>2, <1>10, <1>12, <1>13 DEF ClaimedOK
<1>19. FilledOK(h)'
  <2> SUFFICES ASSUME NEW y \in Node(h) \ lost, ~ Cut(y)
               PROVE  \E j \in Index : ptr[<<y, j>>] \in Zone /\ ~ OnStack(<<y, j>>)'
    BY <1>2, <1>12, <1>13 DEF FilledOK
  <2>1. PICK j \in Index : ptr[<<y, j>>] \in Zone /\ ~ OnStack(<<y, j>>)
    BY <1>10 DEF FilledOK
  <2>2. y # z
    BY <1>11
  <2> QED BY <1>14, <2>1, <2>2
<1>20. CellsOK(h, K)'
  <2> SUFFICES ASSUME NEW k, NEW c, NEW d, CellAt(k, c, d)'
               PROVE  /\ c \in Ref(h) /\ d = Height(h, c)
                      /\ c[1] \in K \cup {Inode} \/ \E m : m > k /\ TreeAt(m, c[1], 0)'
    BY <1>12 DEF CellsOK, Height
  <2>1. k \in Nat /\ 1 <= k /\ IndirCount \in Nat
    BY <1>5, Sizes
  <2>2. CASE k <= IndirCount /\ k - 1 \in Index /\ c = <<z, k - 1>> /\ d = e0
    <3>1. c \in Ref(h) /\ c[1] = z
      BY <1>3, <1>11, <2>2 DEF Ref, Cell
    <3>2. z # Inode
      BY <1>3, BlockTreeAssumption
    <3>3. d = Height(h, c)
      BY <1>3, <1>11, <2>2, <3>1, <3>2 DEF Height
    <3>4. IndirCount + 1 > k
      BY <2>1, <2>2
    <3> QED BY <1>9, <3>1, <3>3, <3>4
  <2>3. CASE k > IndirCount + 1 /\ CellAt(k - IndirCount, c, d)
    <3>1. /\ c \in Ref(h) /\ d = Height(h, c)
          /\ c[1] \in K \cup {Inode} \/ \E m : m > k - IndirCount /\ TreeAt(m, c[1], 0)
      BY <1>10, <2>3 DEF CellsOK
    <3>2. ASSUME NEW m, m > k - IndirCount, TreeAt(m, c[1], 0)
          PROVE  m + IndirCount > k /\ TreeAt(m + IndirCount, c[1], 0)'
      <4>1. m \in Nat /\ m # 1
        BY <1>8, <2>1, <2>3, <3>2
      <4> QED BY <1>8, <2>1, <3>2, <4>1
    <3> QED BY <3>1, <3>2
  <2> QED BY <1>5, <2>2, <2>3
<1>21. TreesOK(h)'
  <2> SUFFICES ASSUME NEW k, NEW y, NEW d, TreeAt(k, y, d)'
        PROVE  /\ y \in own \ (lost \cup New)
               /\ d = h[y] \/ d = 0
               /\ \A m, j, e : CellAt(m, <<y, j>>, e)' => m < k
               /\ d # h[y] => \A j \in Index :
                    ptr[<<y, j>>] = NoZone \/ \E m, e : m < k /\ CellAt(m, <<y, j>>, e)'
               /\ \A m, e : TreeAt(m, y, e)' => m = k
    BY <1>2, <1>12 DEF TreesOK
  <2>1. k \in Nat /\ 1 <= k /\ IndirCount \in Nat
    BY <1>6, Sizes
  <2>2. CASE k = IndirCount + 1 /\ y = z /\ d = 0
    <3>1. ASSUME NEW m, NEW j, NEW e, CellAt(m, <<y, j>>, e)' PROVE m < k
      <4>1. m \in Nat /\ m <= IndirCount
        BY <1>5, <1>11, <2>2, <3>1
      <4> QED BY <2>1, <2>2, <4>1
    <3>2. ASSUME NEW j \in Index PROVE \E m, e : m < k /\ CellAt(m, <<y, j>>, e)'
      <4>1. j + 1 < k
        BY <2>1, <2>2 DEF Index
      <4> QED BY <1>9, <2>2, <4>1
    <3>3. ASSUME NEW m, NEW e, TreeAt(m, y, e)' PROVE m = k
      <4>1. \/ m = IndirCount + 1
            \/ m > IndirCount + 1 /\ TreeAt(m - IndirCount, z, e) /\ m \in Nat
        BY <1>6, <2>2, <3>3
      <4>2. CASE m > IndirCount + 1 /\ TreeAt(m - IndirCount, z, e) /\ m \in Nat
        <5>1. m - IndirCount = 1
          BY <1>11, <4>2
        <5> QED BY <2>1, <4>2, <5>1
      <4> QED BY <2>2, <4>1, <4>2
    <3> QED BY <1>11, <2>2, <3>1, <3>2, <3>3
  <2>3. CASE k > IndirCount + 1 /\ TreeAt(k - IndirCount, y, d)
    <3>1. /\ y \in own \ (lost \cup New)
          /\ d = h[y] \/ d = 0
          /\ \A m, j, e : CellAt(m, <<y, j>>, e) => m < k - IndirCount
          /\ d # h[y] => \A j \in Index :
               ptr[<<y, j>>] = NoZone \/ \E m, e : m < k - IndirCount /\ CellAt(m, <<y, j>>, e)
          /\ \A m, e : TreeAt(m, y, e) => m = k - IndirCount
      BY <1>10, <2>3 DEF TreesOK
    <3>2. y # z
      <4>1. k - IndirCount # 1
        BY <2>1, <2>3
      <4> QED BY <1>11, <2>3, <4>1
    <3>3. ASSUME NEW m, NEW j, NEW e, CellAt(m, <<y, j>>, e)' PROVE m < k
      <4>1. m \in Nat /\ m > IndirCount + 1 /\ CellAt(m - IndirCount, <<y, j>>, e)
        BY <1>5, <3>2, <3>3
      <4>2. m - IndirCount < k - IndirCount
        BY <3>1, <4>1
      <4> QED BY <2>1, <4>1, <4>2
    <3>4. ASSUME NEW m, NEW j, NEW e, m < k - IndirCount, CellAt(m, <<y, j>>, e)
          PROVE  \E n : n < k /\ CellAt(n, <<y, j>>, e)'
      <4>1. m \in Nat /\ CellAt(m + IndirCount, <<y, j>>, e)'
        BY <1>7, <3>4
      <4>2. m + IndirCount < k
        BY <2>1, <3>4, <4>1
      <4> QED BY <4>1, <4>2
    <3>5. ASSUME NEW m, NEW e, TreeAt(m, y, e)' PROVE m = k
      <4>1. m \in Nat /\ m > IndirCount + 1 /\ TreeAt(m - IndirCount, y, e)
        BY <1>6, <3>2, <3>5
      <4>2. m - IndirCount = k - IndirCount
        BY <3>1, <4>1
      <4> QED BY <2>1, <4>1, <4>2
    <3>6. d # h[y] => \A j \in Index :
             ptr[<<y, j>>] = NoZone \/ \E m, e : m < k /\ CellAt(m, <<y, j>>, e)'
      BY <3>1, <3>4
    <3> QED BY <3>1, <3>3, <3>5, <3>6
  <2> QED BY <1>6, <2>2, <2>3
<1>22. KeptOK(h, K)'
  <2> SUFFICES ASSUME NEW y \in K
               PROVE  y \notin lost /\ \E c \in Ref(h) :
                        ptr[c] = y /\ ~ OnStack(c)' /\ c[1] \in K \cup {Inode}
    BY <1>2, <1>12 DEF KeptOK
  <2>1. y \notin lost
    BY <1>10 DEF KeptOK
  <2>2. PICK c \in Ref(h) : ptr[c] = y /\ ~ OnStack(c) /\ c[1] \in K \cup {Inode}
    BY <1>10 DEF KeptOK
  <2>3. c[1] # z
    BY <1>3, <1>16, <2>2, BlockTreeAssumption
  <2> QED BY <1>14, <2>1, <2>2, <2>3
<1>23. NewOK(h)'
  BY <1>2 DEF NewOK, Truncating
<1>24. TypeOK'
  BY <1>2, <1>4 DEF TypeOK, Truncating
<1> QED BY <1>17, <1>18, <1>19, <1>20, <1>21, <1>22, <1>23, <1>24 DEF Sound, Forest


-----------------------------------------------------------------------------
(* What is below a zone.                                                   *)

\* The zones that the blocks in S point to, and the levels below a zone.
Pointers(S) == {ptr[<<y, j>>] : y \in S, j \in Index}
Kids(S) == Pointers(S) \cap Zone
Level(z, n) ==
  IF n = 0 THEN {z} ELSE IF n = 1 THEN Kids({z}) ELSE IF n = 2 THEN Kids(Kids({z}))
  ELSE Kids(Kids(Kids({z})))

LEMMA BelowIs ==
  ASSUME NEW z, NEW d \in 0 .. 3
  PROVE  /\ Below(z, d) = UNION {Level(z, n) : n \in 0 .. d}
         /\ Level(z, 0) = {z}
         /\ \A n \in 0 .. 2 : Level(z, n + 1) = Kids(Level(z, n))
<1> DEFINE body(f, n) == IF n = 0 THEN {z}
             ELSE {ptr[<<y, j>>] : y \in f[n - 1], j \in Index} \cap Zone
           g == [n \in 0 .. d |-> Level(z, n)]
           f == CHOOSE f : f = [n \in 0 .. d |-> body(f, n)]
<1>1. Level(z, 0) = {z} /\ \A n \in 0 .. 2 : Level(z, n + 1) = Kids(Level(z, n))
  <2>1. Level(z, 0) = {z}
    BY DEF Level
  <2>2. \A n \in 0 .. 2 : n = 0 \/ n = 1 \/ n = 2
    OBVIOUS
  <2>3. Level(z, 1) = Kids({z}) /\ Level(z, 2) = Kids(Kids({z}))
        /\ Level(z, 3) = Kids(Kids(Kids({z})))
    BY DEF Level
  <2>4. 0 + 1 = 1 /\ 1 + 1 = 2 /\ 2 + 1 = 3
    OBVIOUS
  <2> QED BY <2>1, <2>2, <2>3, <2>4
<1>2. \A e, n : n # 0 => body(e, n) = Kids(e[n - 1])
  BY DEF Kids, Pointers
<1>3. \A e : body(e, 0) = {z}
  OBVIOUS
<1> HIDE DEF body
<1>4. g = [n \in 0 .. d |-> body(g, n)]
  <2>1. ASSUME NEW n \in 0 .. d
        PROVE  g[n] = body(g, n)
    <3>1. CASE n = 0
      BY <1>1, <1>3, <3>1
    <3>2. CASE n # 0
      <4>1. n - 1 \in 0 .. 2 /\ n - 1 \in 0 .. d /\ (n - 1) + 1 = n
        BY <3>2
      <4>2. g[n] = Level(z, n) /\ g[n - 1] = Level(z, n - 1)
        BY <4>1
      <4>3. Level(z, n) = Kids(Level(z, n - 1))
        BY <1>1, <4>1
      <4> QED BY <1>2, <3>2, <4>2, <4>3
    <3> QED BY <3>1, <3>2
  <2>2. g = [n \in 0 .. d |-> g[n]]
    OBVIOUS
  <2> HIDE DEF g
  <2> QED BY <2>1, <2>2
<1>5. f = [n \in 0 .. d |-> body(f, n)]
  <2> HIDE DEF g
  <2> QED BY <1>4
<1>6. Below(z, d) = UNION {f[n] : n \in 0 .. d}
  BY DEF Below, body
<1> HIDE DEF f, g
<1>7. \A n \in 0 .. d : f[n] = Level(z, n)
  <2>1. f[0] = Level(z, 0)
    BY <1>1, <1>3, <1>5, 0 \in 0 .. d
  <2>2. ASSUME NEW n \in 0 .. 2, n + 1 \in 0 .. d, f[n] = Level(z, n)
        PROVE  f[n + 1] = Level(z, n + 1)
    <3>1. f[n + 1] = body(f, n + 1) /\ n + 1 # 0 /\ (n + 1) - 1 = n
      BY <1>5, <2>2
    <3> QED BY <1>1, <1>2, <2>2, <3>1
  <2>3. 1 \in 0 .. d => f[1] = Level(z, 1)
    BY <2>1, <2>2, 0 \in 0 .. 2, 0 + 1 = 1
  <2>4. 2 \in 0 .. d => f[2] = Level(z, 2)
    <3>1. 2 \in 0 .. d => 1 \in 0 .. d
      OBVIOUS
    <3> QED BY <2>2, <2>3, <3>1, 1 \in 0 .. 2, 1 + 1 = 2
  <2>5. 3 \in 0 .. d => f[3] = Level(z, 3)
    <3>1. 3 \in 0 .. d => 2 \in 0 .. d
      OBVIOUS
    <3> QED BY <2>2, <2>4, <3>1, 2 \in 0 .. 2, 2 + 1 = 3
  <2> TAKE n \in 0 .. d
  <2>6. n = 0 \/ n = 1 \/ n = 2 \/ n = 3
    OBVIOUS
  <2> QED BY <2>1, <2>3, <2>4, <2>5, <2>6
<1>8. {f[n] : n \in 0 .. d} = {Level(z, n) : n \in 0 .. d}
  BY <1>7
<1> QED BY <1>1, <1>6, <1>8

LEMMA KidsAre ==
  ASSUME NEW X, NEW y
  PROVE  y \in Kids(X) <=> y \in Zone /\ \E x \in X, j \in Index : y = ptr[<<x, j>>]
<1>1. y \in Pointers(X) <=> \E x \in X, j \in Index : y = ptr[<<x, j>>]
  BY Z3 DEF Pointers
<1> QED BY <1>1 DEF Kids

\* Sets that the pointers lead through from z, d levels down.
Closed(S, z, d) ==
  /\ z \in S[0]
  /\ \A n \in 0 .. d - 1 : \A y \in S[n] : \A j \in Index :
       ptr[<<y, j>>] \in Zone => ptr[<<y, j>>] \in S[n + 1]

LEMMA LevelsBelow ==
  ASSUME NEW z, NEW d \in 0 .. 3, NEW S, Closed(S, z, d)
  PROVE  \A n \in 0 .. d : Level(z, n) \subseteq S[n]
<1>1. Level(z, 0) \subseteq S[0]
  BY BelowIs DEF Closed
<1>2. ASSUME NEW n \in 0 .. d - 1, Level(z, n) \subseteq S[n]
      PROVE  Level(z, n + 1) \subseteq S[n + 1]
  <2> SUFFICES ASSUME NEW y \in Level(z, n + 1) PROVE y \in S[n + 1]
    OBVIOUS
  <2>1. y \in Kids(Level(z, n))
    <3>1. n \in 0 .. 2
      OBVIOUS
    <3> QED BY <3>1, BelowIs
  <2>2. PICK x \in Level(z, n), j \in Index : y = ptr[<<x, j>>] /\ y \in Zone
    BY <2>1, KidsAre
  <2> QED BY <1>2, <2>2 DEF Closed
<1> TAKE n \in 0 .. d
<1>3. n = 0 \/ n = 1 \/ n = 2 \/ n = 3
  OBVIOUS
<1>4. CASE n = 0
  BY <1>1, <1>4
<1>5. CASE n = 1
  <2>1. 0 \in 0 .. d - 1 /\ 0 + 1 = 1
    BY <1>5
  <2> QED BY <1>1, <1>2, <1>5, <2>1
<1>6. CASE n = 2
  <2>1. 0 \in 0 .. d - 1 /\ 0 + 1 = 1 /\ 1 \in 0 .. d - 1 /\ 1 + 1 = 2
    BY <1>6
  <2>2. Level(z, 1) \subseteq S[1]
    BY <1>1, <1>2, <2>1
  <2> QED BY <1>2, <1>6, <2>1, <2>2
<1>7. CASE n = 3
  <2>1. 0 \in 0 .. d - 1 /\ 0 + 1 = 1 /\ 1 \in 0 .. d - 1 /\ 1 + 1 = 2
        /\ 2 \in 0 .. d - 1 /\ 2 + 1 = 3
    BY <1>7
  <2>2. Level(z, 1) \subseteq S[1]
    BY <1>1, <1>2, <2>1
  <2>3. Level(z, 2) \subseteq S[2]
    BY <1>2, <2>1, <2>2
  <2> QED BY <1>2, <1>7, <2>1, <2>3
<1> QED BY <1>3, <1>4, <1>5, <1>6, <1>7


\* What the zones n levels below z are when pointers lead one level down.
BelowAt(h, z, n) ==
  {y \in own \ New :
     /\ y \in Level(z, n)
     /\ h[y] = h[z] - n
     /\ y \in lost <=> z \in lost
     /\ IF n = 0 THEN y = z ELSE \E c \in Ref(h) : ptr[c] = y /\ c[1] \in Level(z, n - 1)}

LEMMA LevelForest ==
  ASSUME TypeOK, NEW h \in Heights, EdgesOK(h),
         NEW z \in own \ New, NEW d \in 0 .. 3, d <= h[z]
  PROVE  \A n \in 0 .. d : Level(z, n) \subseteq BelowAt(h, z, n)
<1> DEFINE S == [n \in 0 .. d |-> BelowAt(h, z, n)]
<1>0. h[z] \in 0 .. 3 /\ z \in Zone
  BY DEF Heights, TypeOK
<1>1. z \in S[0]
  <2>1. h[z] = h[z] - 0
    BY <1>0
  <2> QED BY <2>1, BelowIs, 0 \in 0 .. d DEF BelowAt
<1>2. ASSUME NEW n \in 0 .. d - 1, NEW y \in S[n], NEW j \in Index, ptr[<<y, j>>] \in Zone
      PROVE  ptr[<<y, j>>] \in S[n + 1]
  <2>1. PICK x, c : x = ptr[<<y, j>>] /\ c = <<y, j>>
    OBVIOUS
  <2>2. /\ y \in own \ New /\ y \in Level(z, n) /\ h[y] = h[z] - n
        /\ y \in lost <=> z \in lost
    BY <1>2 DEF BelowAt
  <2>3. y \in Node(h)
    BY <1>0, <2>2 DEF Node
  <2>4. c \in Ref(h) /\ c[1] = y /\ y # Inode /\ ptr[c] = x
    BY <2>1, <2>3, BlockTreeAssumption DEF Ref, Node, Cell, TypeOK
  <2>5. x \in own \ New /\ h[x] = h[y] - 1 /\ (x \in lost <=> y \in lost)
    <3>1. x # NoZone
      BY <1>2, <2>1, BlockTreeAssumption
    <3> QED BY <2>4, <3>1 DEF EdgesOK, Height
  <2>6. x \in Level(z, n + 1)
    <3>1. n \in 0 .. 2
      OBVIOUS
    <3>2. x \in Kids(Level(z, n))
      BY <1>2, <2>1, <2>2, KidsAre
    <3> QED BY <3>1, <3>2, BelowIs
  <2>7. h[x] = h[z] - (n + 1) /\ n + 1 # 0 /\ (n + 1) - 1 = n /\ n + 1 \in 0 .. d
    BY <1>0, <2>2, <2>5
  <2>8. x \in BelowAt(h, z, n + 1)
    BY <2>2, <2>4, <2>5, <2>6, <2>7 DEF BelowAt
  <2> QED BY <2>1, <2>7, <2>8
<1>3. Closed(S, z, d)
  BY <1>1, <1>2 DEF Closed
<1>4. \A n \in 0 .. d : Level(z, n) \subseteq S[n]
  <2> HIDE DEF S
  <2> QED BY <1>3, LevelsBelow
<1> QED BY <1>4

\* The zones below z are those that the pointers lead to, d levels deep.
LEMMA BelowForest ==
  ASSUME TypeOK, NEW h \in Heights, EdgesOK(h),
         NEW z \in own \ New, NEW d \in 0 .. 3, d <= h[z]
  PROVE  /\ z \in Below(z, d)
         /\ \A y \in Below(z, d) :
              /\ y \in own \ New /\ h[y] \in Int /\ h[z] - d <= h[y]
              /\ y \in lost <=> z \in lost
              /\ y = z \/ \E c \in Ref(h) :
                            ptr[c] = y /\ c[1] \in Below(z, d) /\ c[1] \in Node(h)
         /\ \A c \in Ref(h) :
              c[1] \in Below(z, d) /\ h[c[1]] > h[z] - d /\ ptr[c] \in Zone =>
                ptr[c] \in Below(z, d)
<1>0. h[z] \in 0 .. 3 /\ z \in Zone
  BY DEF Heights, TypeOK
<1>1. \A n \in 0 .. d : Level(z, n) \subseteq BelowAt(h, z, n)
  BY LevelForest
<1>2. Below(z, d) = UNION {Level(z, n) : n \in 0 .. d}
  BY BelowIs
<1>3. \A n \in 0 .. d : Level(z, n) \subseteq Below(z, d)
  BY <1>2
<1>4. z \in Below(z, d)
  BY <1>3, BelowIs, 0 \in 0 .. d
<1>5. ASSUME NEW y \in Below(z, d)
      PROVE  /\ y \in own \ New /\ h[y] \in Int /\ h[z] - d <= h[y]
             /\ y \in lost <=> z \in lost
             /\ y = z \/ \E c \in Ref(h) :
                           ptr[c] = y /\ c[1] \in Below(z, d) /\ c[1] \in Node(h)
  <2>1. PICK n \in 0 .. d : y \in Level(z, n)
    BY <1>2
  <2>2. y \in BelowAt(h, z, n)
    BY <1>1, <2>1
  <2>3. h[y] \in Int /\ h[z] - d <= h[y]
    BY <1>0, <2>2 DEF BelowAt
  <2>4. n # 0 => \E c \in Ref(h) :
                   ptr[c] = y /\ c[1] \in Below(z, d) /\ c[1] \in Node(h)
    <3> SUFFICES ASSUME n # 0
                 PROVE  \E c \in Ref(h) :
                          ptr[c] = y /\ c[1] \in Below(z, d) /\ c[1] \in Node(h)
      OBVIOUS
    <3>1. PICK c \in Ref(h) : ptr[c] = y /\ c[1] \in Level(z, n - 1)
      BY <2>2 DEF BelowAt
    <3>2. n - 1 \in 0 .. d
      OBVIOUS
    <3>3. c[1] \in Below(z, d) /\ c[1] \in BelowAt(h, z, n - 1)
      BY <1>1, <1>3, <3>1, <3>2
    <3>4. c[1] # Inode
      BY <3>3, BlockTreeAssumption DEF BelowAt, TypeOK
    <3> QED BY <3>1, <3>3, <3>4 DEF Ref
  <2> QED BY <2>2, <2>3, <2>4 DEF BelowAt
<1>6. ASSUME NEW c \in Ref(h), c[1] \in Below(z, d), h[c[1]] > h[z] - d, ptr[c] \in Zone
      PROVE  ptr[c] \in Below(z, d)
  <2>1. PICK n \in 0 .. d : c[1] \in Level(z, n)
    BY <1>2, <1>6
  <2>2. c[1] \in Zone /\ h[c[1]] = h[z] - n
    BY <1>1, <2>1 DEF BelowAt, TypeOK
  <2>3. n \in 0 .. 2 /\ n + 1 \in 0 .. d
    BY <1>0, <1>6, <2>2
  <2>4. c[2] \in Index /\ c = <<c[1], c[2]>>
    BY <2>2, BlockTreeAssumption DEF Ref, Cell
  <2>5. ptr[c] \in Kids(Level(z, n))
    BY <1>6, <2>1, <2>4, KidsAre
  <2> QED BY <1>3, <2>3, <2>5, BelowIs
<1> QED BY <1>4, <1>5, <1>6


\* What stays is not below a zone that goes.
LEMMA KeptApart ==
  ASSUME TypeOK, NEW h \in Heights, EdgesOK(h), NEW K \in SUBSET Zone, KeptOK(h, K),
         NEW z \in own \ New, NEW d \in 0 .. 3, d <= h[z], z \notin K
  PROVE  Below(z, d) \cap K = {}
<1> DEFINE S == [n \in 0 .. d |-> BelowAt(h, z, n) \ K]
<1>0. h[z] \in 0 .. 3 /\ z \in Zone
  BY DEF Heights, TypeOK
<1>1. \A n \in 0 .. d : Level(z, n) \subseteq BelowAt(h, z, n)
  BY LevelForest
<1>2. z \in S[0]
  BY <1>1, BelowIs, 0 \in 0 .. d
<1>3. ASSUME NEW n \in 0 .. d - 1, NEW y \in S[n], NEW j \in Index, ptr[<<y, j>>] \in Zone
      PROVE  ptr[<<y, j>>] \in S[n + 1]
  <2>1. PICK x, c : x = ptr[<<y, j>>] /\ c = <<y, j>>
    OBVIOUS
  <2>2. n \in 0 .. 2 /\ n + 1 \in 0 .. d
    OBVIOUS
  <2>3. y \in own \ New /\ y \in Level(z, n) /\ h[y] = h[z] - n /\ y \notin K
    BY <1>3 DEF BelowAt
  <2>4. c \in Ref(h) /\ c[1] = y /\ y # Inode /\ ptr[c] = x
    BY <1>0, <2>1, <2>3, BlockTreeAssumption DEF Ref, Node, Cell, TypeOK
  <2>5. x \in Level(z, n + 1)
    <3>1. x \in Kids(Level(z, n))
      BY <1>3, <2>1, <2>3, KidsAre
    <3> QED BY <2>2, <3>1, BelowIs
  <2>6. x \in BelowAt(h, z, n + 1)
    BY <1>1, <2>2, <2>5
  <2>7. x \notin K
    <3> SUFFICES ASSUME x \in K PROVE FALSE
      OBVIOUS
    <3>1. PICK e \in Ref(h) : ptr[e] = x /\ e[1] \in K \cup {Inode}
      BY DEF KeptOK
    <3>2. e = c
      BY <1>3, <2>1, <2>4, <3>1 DEF EdgesOK
    <3> QED BY <2>3, <2>4, <3>1, <3>2
  <2> QED BY <2>1, <2>2, <2>6, <2>7
<1>4. Closed(S, z, d)
  BY <1>2, <1>3 DEF Closed
<1>5. \A n \in 0 .. d : Level(z, n) \subseteq S[n]
  <2> HIDE DEF S
  <2> QED BY <1>4, LevelsBelow
<1>6. \A n \in 0 .. d : Level(z, n) \cap K = {}
  BY <1>5
<1> QED BY <1>6, BelowIs

LEMMA DescendErrorSound ==
  ASSUME TypeOK, NEW h \in Heights, NEW K \in SUBSET Zone, Sound(h, K), DescendError
  PROVE  TypeOK' /\ Sound(h, K)'
<1>1. PICK z, d0, B : z = Top.zone /\ d0 = Top.d /\ B = Below(Top.zone, Top.d)
  OBVIOUS
<1>2. /\ Truncating /\ stack # <<>> /\ Top.kind = "tree" /\ d0 > 0
      /\ stack' = Tail(stack) /\ lost' = lost \cup B
      /\ UNCHANGED <<ptr, free, own, isize, w, wb, wend, new, fsize>>
  BY <1>1 DEF DescendError
<1>3. z \in Zone /\ TreeAt(1, z, d0) /\ d0 \in 0 .. 3
  BY <1>1, <1>2, TopIs
<1>4. stack' = <<>> \o Tail(stack)
  BY <1>2 DEF TypeOK
<1>5. /\ stack' \in Seq(Item)
      /\ \A k, c, d : CellAt(k, c, d)' => k \in Nat /\ 1 <= k /\ CellAt(k + 1, c, d)
      /\ \A k, c, d : TreeAt(k, c, d)' => k \in Nat /\ 1 <= k /\ TreeAt(k + 1, c, d)
      /\ \A k, c, d : CellAt(k, c, d) => k \in Nat /\ 1 <= k /\ (k # 1 => CellAt(k - 1, c, d)')
      /\ \A k, c, d : TreeAt(k, c, d) => k \in Nat /\ 1 <= k /\ (k # 1 => TreeAt(k - 1, c, d)')
  BY <1>2, <1>4, Popped
<1>6. EdgesOK(h) /\ ClaimedOK(h) /\ FilledOK(h) /\ CellsOK(h, K) /\ TreesOK(h) /\ KeptOK(h, K)
  BY DEF Sound, Forest
<1>7. /\ z \in own \ (lost \cup New) /\ h[z] = d0 /\ Cut(z)
      /\ \A m, e : TreeAt(m, z, e) => m = 1
  <2>1. /\ z \in own \ (lost \cup New) /\ (d0 = h[z] \/ d0 = 0)
        /\ \A m, e : TreeAt(m, z, e) => m = 1
    BY <1>3, <1>6 DEF TreesOK
  <2>2. d0 # 0
    BY <1>2, <1>3
  <2> QED BY <1>3, <2>1, <2>2 DEF Cut
<1>8. B = Below(z, d0) /\ z \in own \ New /\ d0 <= h[z] /\ h[z] - d0 = 0
  BY <1>1, <1>3, <1>7
<1>9. /\ z \in B
      /\ \A y \in B : /\ y \in own \ (lost \cup New)
                      /\ y = z \/ \E c \in Ref(h) : ptr[c] = y /\ c[1] \in B
      /\ \A c \in Ref(h) : c[1] \in B /\ h[c[1]] > 0 /\ ptr[c] \in Zone => ptr[c] \in B
  <2>1. /\ z \in Below(z, d0)
        /\ \A y \in Below(z, d0) :
              /\ y \in own \ New /\ h[y] \in Int /\ h[z] - d0 <= h[y]
              /\ y \in lost <=> z \in lost
              /\ y = z \/ \E c \in Ref(h) :
                            ptr[c] = y /\ c[1] \in Below(z, d0) /\ c[1] \in Node(h)
        /\ \A c \in Ref(h) :
              c[1] \in Below(z, d0) /\ h[c[1]] > h[z] - d0 /\ ptr[c] \in Zone =>
                ptr[c] \in Below(z, d0)
    BY <1>3, <1>6, <1>8, BelowForest
  <2> QED BY <1>7, <1>8, <2>1
<1>10. \A c \in Ref(h) : ptr[c] # z
  BY <1>3, <1>6, <1>7, BlockTreeAssumption DEF EdgesOK
<1>11. B \cap K = {}
  <2>1. z \notin K
    BY <1>6, <1>10 DEF KeptOK
  <2> QED BY <1>3, <1>6, <1>8, <2>1, KeptApart
<1>12. New' = New /\ Node(h)' = Node(h) /\ Ref(h)' = Ref(h)
  BY <1>2 DEF New, Node, Ref
<1>13. \A y : (Cut(y)' => Cut(y)) /\ (Cut(y) /\ y # z => Cut(y)')
  <2>1. \A y : Cut(y)' => Cut(y)
    BY <1>5 DEF Cut
  <2>2. ASSUME NEW y, Cut(y), y # z PROVE Cut(y)'
    <3>1. PICK k, d : TreeAt(k, y, d)
      BY <2>2 DEF Cut
    <3>2. k # 1
      BY <1>3, <2>2, <3>1, ItemKinds DEF TreeAt
    <3> QED BY <1>5, <3>1, <3>2 DEF Cut
  <2> QED BY <2>1, <2>2
<1>14. \A c : OnStack(c)' => OnStack(c)
  BY <1>5 DEF OnStack
<1>15. \A y \in B : y = z \/ ~ Cut(y)
  <2> SUFFICES ASSUME NEW y \in B, y # z PROVE ~ Cut(y)
    OBVIOUS
  <2>1. PICK c \in Ref(h) : ptr[c] = y
    BY <1>9
  <2>2. y # NoZone
    BY <1>9, BlockTreeAssumption DEF TypeOK
  <2> QED BY <1>6, <2>1, <2>2 DEF EdgesOK
<1>16. \A c \in Ref(h) : ptr[c] \in Zone => (ptr[c] \in B <=> c[1] \in B)
  <2> SUFFICES ASSUME NEW c \in Ref(h), ptr[c] \in Zone
               PROVE  ptr[c] \in B <=> c[1] \in B
    OBVIOUS
  <2>1. ASSUME c[1] \in B PROVE ptr[c] \in B
    <3>1. c[1] # Inode
      BY <1>9, <2>1, BlockTreeAssumption DEF TypeOK
    <3>2. h[c[1]] > 0
      BY <3>1 DEF Ref, Node
    <3> QED BY <1>9, <2>1, <3>2
  <2>2. ASSUME ptr[c] \in B PROVE c[1] \in B
    <3>1. PICK e \in Ref(h) : ptr[e] = ptr[c] /\ e[1] \in B
      BY <1>9, <1>10, <2>2
    <3>2. e = c
      BY <1>6, <3>1 DEF EdgesOK
    <3> QED BY <3>1, <3>2
  <2> QED BY <2>1, <2>2
<1>17. EdgesOK(h)'
  <2>1. ASSUME NEW c \in Ref(h)
        PROVE  \/ ptr[c] = NoZone
               \/ /\ ptr[c] \in own \ New
                  /\ h[ptr[c]] = Height(h, c)
                  /\ ~ Cut(ptr[c])'
                  /\ ptr[c] \in lost \cup B <=> c[1] \in lost \cup B
    <3>1. ptr[c] # NoZone => ptr[c] \in Zone
      BY <1>6 DEF EdgesOK, TypeOK
    <3>2. ASSUME ptr[c] # NoZone
          PROVE  /\ ptr[c] \in own \ New /\ h[ptr[c]] = Height(h, c)
                 /\ ~ Cut(ptr[c]) /\ (ptr[c] \in lost <=> c[1] \in lost)
      BY <1>6, <3>2 DEF EdgesOK
    <3>3. ASSUME ptr[c] # NoZone
          PROVE  /\ ~ Cut(ptr[c])'
                 /\ ptr[c] \in lost \cup B <=> c[1] \in lost \cup B
      <4>1. ptr[c] \in B <=> c[1] \in B
        BY <1>16, <3>1, <3>3
      <4>2. PICK x : x = ptr[c]
        OBVIOUS
      <4>3. ~ Cut(x)
        BY <3>2, <3>3, <4>2
      <4>4. ~ Cut(x)'
        BY <1>13, <4>3
      <4>5. ptr'[c] = x
        BY <1>2, <4>2
      <4>6. ~ Cut(ptr[c])'
        BY <4>4, <4>5
      <4> QED BY <3>2, <3>3, <4>1, <4>6
    <3> QED BY <3>2, <3>3
  <2>2. \A c, d \in Ref(h) : ptr[c] \in Zone /\ ptr[c] = ptr[d] => c = d
    BY <1>6 DEF EdgesOK
  <2>3. \A c \in Ref(h) :
               \/ ptr'[c] = NoZone
               \/ /\ ptr'[c] \in own' \ New'
                  /\ h[ptr'[c]] = Height(h, c)
                  /\ ~ Cut(ptr[c])'
                  /\ ptr'[c] \in lost' <=> c[1] \in lost'
    BY <1>2, <1>12, <2>1
  <2> QED BY <1>2, <1>12, <2>2, <2>3 DEF EdgesOK, Height
<1>18. ClaimedOK(h)'
  <2> SUFFICES ASSUME NEW y \in own \ (lost \cup New), y \notin B
               PROVE  Cut(y)' \/ \E c \in Ref(h) : ptr[c] = y
    BY <1>2, <1>12 DEF ClaimedOK
  <2>1. y # z
    BY <1>9
  <2> QED BY <1>6, <1>13, <2>1 DEF ClaimedOK
<1>19. FilledOK(h)'
  <2> SUFFICES ASSUME NEW y \in Node(h) \ lost, y \notin B
               PROVE  Cut(y)' \/ \E j \in Index : ptr[<<y, j>>] \in Zone /\ ~ OnStack(<<y, j>>)'
    BY <1>2, <1>12 DEF FilledOK
  <2>1. y # z
    BY <1>9
  <2> QED BY <1>6, <1>13, <1>14, <2>1 DEF FilledOK
<1>20. CellsOK(h, K)'
  <2> SUFFICES ASSUME NEW k, NEW c, NEW d, CellAt(k, c, d)'
               PROVE  /\ c \in Ref(h) /\ d = Height(h, c)
                      /\ c[1] \in K \cup {Inode} \/ \E m : m > k /\ TreeAt(m, c[1], 0)'
    BY <1>12 DEF CellsOK, Height
  <2>1. k \in Nat /\ 1 <= k /\ CellAt(k + 1, c, d)
    BY <1>5
  <2>2. /\ c \in Ref(h) /\ d = Height(h, c)
        /\ c[1] \in K \cup {Inode} \/ \E m : m > k + 1 /\ TreeAt(m, c[1], 0)
    BY <1>6, <2>1 DEF CellsOK
  <2>4. ASSUME NEW m, m > k + 1, TreeAt(m, c[1], 0)
        PROVE  m - 1 > k /\ TreeAt(m - 1, c[1], 0)'
    <3>1. m \in Nat /\ m # 1
      BY <1>5, <2>1, <2>4
    <3> QED BY <1>5, <2>1, <2>4, <3>1
  <2> QED BY <2>2, <2>4
<1>21. TreesOK(h)'
  <2> SUFFICES ASSUME NEW k, NEW y, NEW d, TreeAt(k, y, d)'
        PROVE  /\ y \in own' \ (lost' \cup New')
               /\ d = h[y] \/ d = 0
               /\ \A m, j, e : CellAt(m, <<y, j>>, e)' => m < k
               /\ d # h[y] => \A j \in Index :
                    ptr'[<<y, j>>] = NoZone \/ \E m, e : m < k /\ CellAt(m, <<y, j>>, e)'
               /\ \A m, e : TreeAt(m, y, e)' => m = k
    BY DEF TreesOK
  <2>1. k \in Nat /\ 1 <= k /\ TreeAt(k + 1, y, d)
    BY <1>5
  <2>2. /\ y \in own \ (lost \cup New)
        /\ d = h[y] \/ d = 0
        /\ \A m, j, e : CellAt(m, <<y, j>>, e) => m < k + 1
        /\ d # h[y] => \A j \in Index :
             ptr[<<y, j>>] = NoZone \/ \E m, e : m < k + 1 /\ CellAt(m, <<y, j>>, e)
        /\ \A m, e : TreeAt(m, y, e) => m = k + 1
    BY <1>6, <2>1 DEF TreesOK
  <2>3. y \notin B
    <3>1. y # z
      BY <1>7, <2>1
    <3> QED BY <1>15, <2>1, <3>1 DEF Cut
  <2>4. \A m, j, e : CellAt(m, <<y, j>>, e)' => m < k
    <3> SUFFICES ASSUME NEW m, NEW j, NEW e, CellAt(m, <<y, j>>, e)' PROVE m < k
      OBVIOUS
    <3>1. m \in Nat /\ CellAt(m + 1, <<y, j>>, e)
      BY <1>5
    <3>2. m + 1 < k + 1
      BY <2>2, <3>1
    <3> QED BY <2>1, <3>1, <3>2
  <2>5. ASSUME NEW m, NEW e, NEW j, m < k + 1, CellAt(m, <<y, j>>, e)
        PROVE  \E n : n < k /\ CellAt(n, <<y, j>>, e)'
    <3>1. m \in Nat /\ m # 1 /\ CellAt(m - 1, <<y, j>>, e)'
      BY <1>3, <1>5, <2>5, ItemKinds DEF CellAt, TreeAt
    <3>2. m - 1 < k
      BY <2>1, <2>5, <3>1
    <3> QED BY <3>1, <3>2
  <2>6. \A m, e : TreeAt(m, y, e)' => m = k
    <3> SUFFICES ASSUME NEW m, NEW e, TreeAt(m, y, e)' PROVE m = k
      OBVIOUS
    <3>1. m \in Nat /\ TreeAt(m + 1, y, e)
      BY <1>5
    <3>2. m + 1 = k + 1
      BY <2>2, <3>1
    <3> QED BY <2>1, <3>1, <3>2
  <2> QED BY <1>2, <1>12, <2>2, <2>3, <2>4, <2>5, <2>6
<1>22. KeptOK(h, K)'
  <2> SUFFICES ASSUME NEW y \in K
               PROVE  y \notin lost \cup B /\ \E c \in Ref(h) :
                        ptr[c] = y /\ ~ OnStack(c)' /\ c[1] \in K \cup {Inode}
    BY <1>2, <1>12 DEF KeptOK
  <2> QED BY <1>6, <1>11, <1>14 DEF KeptOK
<1>23. NewOK(h)'
  BY <1>2 DEF NewOK, Truncating
<1>24. TypeOK'
  <2>1. lost' \subseteq own'
    BY <1>2, <1>9 DEF TypeOK
  <2> QED BY <1>2, <1>5, <2>1 DEF TypeOK, Truncating
<1> QED BY <1>17, <1>18, <1>19, <1>20, <1>21, <1>22, <1>23, <1>24 DEF Sound, Forest


-----------------------------------------------------------------------------
(* The items that truncate begins with.                                    *)

Items(s) == {s[k] : k \in DOMAIN s}

LEMMA ItemsOfConcat ==
  ASSUME NEW s \in Seq(Item), NEW t \in Seq(Item)
  PROVE  /\ s \o t \in Seq(Item)
         /\ Items(s \o t) = Items(s) \cup Items(t)
         /\ \A k \in DOMAIN (s \o t) :
              \/ k \in DOMAIN s /\ (s \o t)[k] = s[k]
              \/ k \notin DOMAIN s /\ (s \o t)[k] \in Items(t)
<1> DEFINE u == s \o t
<1>1. /\ u \in Seq(Item) /\ Len(u) = Len(s) + Len(t) /\ DOMAIN u = 1 .. Len(u)
      /\ DOMAIN s = 1 .. Len(s) /\ DOMAIN t = 1 .. Len(t)
      /\ Len(s) \in Nat /\ Len(t) \in Nat
  OBVIOUS
<1>2. \A k \in 1 .. Len(s) + Len(t) :
         u[k] = IF k <= Len(s) THEN s[k] ELSE t[k - Len(s)]
  OBVIOUS
<1> DEFINE a == Len(s)
           b == Len(t)
<1>3. a \in Nat /\ b \in Nat /\ DOMAIN u = 1 .. (a + b) /\ DOMAIN s = 1 .. a
      /\ DOMAIN t = 1 .. b
  BY <1>1
<1>4. \A k \in 1 .. (a + b) : u[k] = IF k <= a THEN s[k] ELSE t[k - a]
  BY <1>2
<1> HIDE DEF u, a, b
<1>5. ASSUME NEW k \in DOMAIN u
      PROVE  \/ k \in DOMAIN s /\ u[k] = s[k]
             \/ k \notin DOMAIN s /\ u[k] \in Items(t)
  <2>1. CASE k <= a
    BY <1>3, <1>4, <2>1
  <2>2. CASE ~ (k <= a)
    <3>1. k - a \in 1 .. b /\ k \notin 1 .. a
      BY <1>3, <2>2
    <3> QED BY <1>3, <1>4, <2>2, <3>1 DEF Items
  <2> QED BY <2>1, <2>2
<1>6. ASSUME NEW k \in DOMAIN s PROVE s[k] \in Items(u)
  <2>1. k \in 1 .. (a + b) /\ k <= a
    BY <1>3
  <2>2. k \in DOMAIN u /\ u[k] = s[k]
    BY <1>3, <1>4, <2>1
  <2> QED BY <2>2 DEF Items
<1>7. ASSUME NEW k \in DOMAIN t PROVE t[k] \in Items(u)
  <2>1. k + a \in 1 .. (a + b) /\ ~ (k + a <= a) /\ (k + a) - a = k
    BY <1>3
  <2>2. k + a \in DOMAIN u /\ u[k + a] = t[k]
    BY <1>3, <1>4, <2>1
  <2> QED BY <2>2 DEF Items
<1>8. Items(u) = Items(s) \cup Items(t)
  BY <1>5, <1>6, <1>7 DEF Items
<1> QED BY <1>1, <1>5, <1>8 DEF u

\* Items for cells of node from one offset to another, d levels above the blocks.
Cells(node, from, to, d) == {CellItem(<<node, j>>, d) : j \in from .. to}

LEMMA ItemsOfCells ==
  ASSUME NEW node, NEW from \in Nat, NEW to \in Int, NEW d \in 0 .. 3, from <= to + 1,
         \A j \in from .. to : <<node, j>> \in Cell
  PROVE  /\ CellItems(node, from, to, d) \in Seq(Item)
         /\ Items(CellItems(node, from, to, d)) = Cells(node, from, to, d)
<1> DEFINE s == CellItems(node, from, to, d)
           l == to - from + 1
<1>1. AreCells(s, node, from, l, d)
  BY CellItemsAre
<1> HIDE DEF s
<1>2. ASSUME NEW j \in from .. to PROVE CellItem(<<node, j>>, d) \in Items(s)
  <2>1. j - from + 1 \in 1 .. l /\ from + (j - from + 1) - 1 = j
    OBVIOUS
  <2>2. j - from + 1 \in DOMAIN s /\ s[j - from + 1] = CellItem(<<node, j>>, d)
    BY <1>1, <2>1 DEF AreCells
  <2> QED BY <2>2 DEF Items
<1>3. ASSUME NEW k \in DOMAIN s PROVE s[k] \in Cells(node, from, to, d)
  <2>1. k \in 1 .. l /\ s[k] = CellItem(<<node, from + k - 1>>, d)
    BY <1>1 DEF AreCells
  <2>2. from + k - 1 \in from .. to
    BY <2>1
  <2> QED BY <2>1, <2>2 DEF Cells
<1>4. Items(s) = Cells(node, from, to, d)
  BY <1>2, <1>3 DEF Items, Cells
<1> QED BY <1>1, <1>4 DEF AreCells, s

LEMMA ItemsOfWholes ==
  ASSUME NEW f \in 0 .. 3
  PROVE  /\ Wholes(f) \in Seq(Item)
         /\ Items(Wholes(f)) = {CellItem(<<Inode, DIRECT + m>>, m + 1) : m \in f .. 2}
<1> DEFINE G(n) == CellItem(<<Inode, DIRECT + f + n - 1>>, f + n)
           l == 3 - f
           s == Wholes(f)
           T == {CellItem(<<Inode, DIRECT + m>>, m + 1) : m \in f .. 2}
<1>1. s = [n \in 1 .. l |-> G(n)] /\ l \in Nat
  BY DEF Wholes, DEPTH
<1>2. ASSUME NEW n \in 1 .. l PROVE G(n) \in Item /\ G(n) \in T
  <2>1. DIRECT + f + n - 1 \in 0 .. (DIRECT + DEPTH - 2) /\ f + n \in 0 .. 3
    BY Sizes DEF DEPTH
  <2>2. G(n) \in Item
    BY <2>1 DEF CellItem, Item, Cell
  <2>3. f + n - 1 \in f .. 2 /\ DIRECT + (f + n - 1) = DIRECT + f + n - 1
        /\ (f + n - 1) + 1 = f + n
    BY Sizes
  <2> QED BY <2>2, <2>3
<1>3. ASSUME NEW m \in f .. 2
      PROVE  m - f + 1 \in 1 .. l /\ G(m - f + 1) = CellItem(<<Inode, DIRECT + m>>, m + 1)
  <2>1. m - f + 1 \in 1 .. l /\ DIRECT + f + (m - f + 1) - 1 = DIRECT + m
        /\ f + (m - f + 1) = m + 1
    BY Sizes
  <2> QED BY <2>1
<1> HIDE DEF G, s, l
<1>4. s \in Seq(Item)
  BY <1>1, <1>2
<1>5. DOMAIN s = 1 .. l /\ \A n \in 1 .. l : s[n] = G(n)
  BY <1>1
<1>6. Items(s) \subseteq T
  BY <1>2, <1>5 DEF Items
<1>7. T \subseteq Items(s)
  <2> SUFFICES ASSUME NEW m \in f .. 2
               PROVE  CellItem(<<Inode, DIRECT + m>>, m + 1) \in Items(s)
    OBVIOUS
  <2>1. m - f + 1 \in DOMAIN s /\ s[m - f + 1] = CellItem(<<Inode, DIRECT + m>>, m + 1)
    BY <1>3, <1>5
  <2> QED BY <2>1 DEF Items
<1> QED BY <1>4, <1>6, <1>7 DEF s


\* Where the end of the block at place m of a chain begins.
From(s, m, p, back) == IF m = p /\ back THEN s[m][2] ELSE s[m][2] + 1

\* The cells at the ends of the blocks at places 2 .. i of a chain.
Ends(s, n, p, back, i) ==
  UNION {Cells(s[m][1], From(s, m, p, back), IndirCount - 1, n - m) : m \in 2 .. i}

\* A chain of blocks with n - m levels below place m.
EndsOK(s, n, p) ==
  /\ p \in 1 .. n /\ n \in 1 .. DEPTH
  /\ \A m \in 2 .. p : s[m][1] \in Zone /\ s[m][2] \in Index

LEMMA ItemsOfEnds ==
  ASSUME NEW s, NEW n, NEW p, NEW back \in BOOLEAN, EndsOK(s, n, p)
  PROVE  /\ EndItems(s, n, p, back) \in Seq(Item)
         /\ Items(EndItems(s, n, p, back)) = Ends(s, n, p, back, p)
<1>0. /\ n \in Nat /\ 1 <= n /\ n <= 4 /\ p \in Nat /\ 1 <= p /\ p <= n
      /\ p = 1 \/ p = 2 \/ p = 3 \/ p = 4
  BY DEF EndsOK, DEPTH
<1> DEFINE Cs(m) == CellItems(s[m][1], From(s, m, p, back), IndirCount - 1, n - m)
           e1 == <<>>
           e2 == Cs(2) \o e1
           e3 == Cs(3) \o e2
           e4 == Cs(4) \o e3
           body(f, i) == IF i = 1 THEN <<>> ELSE Cs(i) \o f[i - 1]
           g == [i \in 1 .. p |-> IF i = 1 THEN e1 ELSE IF i = 2 THEN e2
                                  ELSE IF i = 3 THEN e3 ELSE e4]
           f == CHOOSE f : f = [i \in 1 .. p |-> body(f, i)]
<1>1. EndItems(s, n, p, back) = f[p]
  BY DEF EndItems, From
<1> HIDE DEF Cs
<1>2. g = [i \in 1 .. p |-> body(g, i)]
  <2>1. ASSUME NEW i \in 1 .. p
        PROVE  g[i] = body(g, i)
    <3>1. CASE i = 1
      BY <3>1
    <3>2. CASE i = 2
      <4> HIDE DEF e1, e2, e3, e4
      <4>0. i - 1 = 1 /\ 1 \in 1 .. p
        BY <1>0, <3>2
      <4>1. g[i] = e2 /\ g[i - 1] = e1
        BY <3>2, <4>0
      <4> HIDE DEF g
      <4> QED BY <4>1, <3>2 DEF e2
    <3>3. CASE i = 3
      <4> HIDE DEF e1, e2, e3, e4
      <4>0. i - 1 = 2 /\ 2 \in 1 .. p
        BY <1>0, <3>3
      <4>1. g[i] = e3 /\ g[i - 1] = e2
        BY <3>3, <4>0
      <4> HIDE DEF g
      <4> QED BY <4>1, <3>3 DEF e3
    <3>4. CASE i = 4
      <4> HIDE DEF e1, e2, e3, e4
      <4>0. i - 1 = 3 /\ 3 \in 1 .. p
        BY <1>0, <3>4
      <4>1. g[i] = e4 /\ g[i - 1] = e3
        BY <3>4, <4>0
      <4> HIDE DEF g
      <4> QED BY <4>1, <3>4 DEF e4
    <3>5. i \in 1 .. 4
      BY <1>0
    <3> HIDE DEF g, body
    <3> QED BY <3>1, <3>2, <3>3, <3>4, <3>5
  <2> HIDE DEF body, e1, e2, e3, e4
  <2>2. g = [i \in 1 .. p |-> g[i]]
    OBVIOUS
  <2> QED BY <2>1, <2>2
<1>3. f = [i \in 1 .. p |-> body(f, i)]
  <2> HIDE DEF g, body
  <2> QED BY <1>2
<1> HIDE DEF f, g
<1> DEFINE I(m) == Cells(s[m][1], From(s, m, p, back), IndirCount - 1, n - m)
           E(i) == UNION {I(m) : m \in 2 .. i}
<1>4. ASSUME NEW m \in 2 .. p
      PROVE  Cs(m) \in Seq(Item) /\ Items(Cs(m)) = I(m)
  <2>1. s[m][1] \in Zone /\ s[m][2] \in Index
    BY DEF EndsOK
  <2>2. From(s, m, p, back) \in Nat /\ From(s, m, p, back) <= (IndirCount - 1) + 1
    BY <2>1, Sizes DEF From, Index
  <2>3. \A j \in From(s, m, p, back) .. (IndirCount - 1) : <<s[m][1], j>> \in Cell
    BY <2>1, <2>2 DEF Cell, Index
  <2>4. n - m \in 0 .. 3 /\ IndirCount - 1 \in Int
    BY <1>0, Sizes
  <2> QED BY <2>2, <2>3, <2>4, ItemsOfCells DEF Cs
<1>5. f[1] \in Seq(Item) /\ Items(f[1]) = E(1)
  <2>1. f[1] = <<>>
    BY <1>0, <1>3
  <2>2. Items(<<>>) = {}
    BY DEF Items
  <2>3. E(1) = {}
    <3>1. 2 .. 1 = {}
      OBVIOUS
    <3> QED BY <3>1
  <2> QED BY <2>1, <2>2, <2>3
<1>6. ASSUME NEW i \in 1 .. 3, i + 1 <= p, f[i] \in Seq(Item) /\ Items(f[i]) = E(i)
      PROVE  f[i + 1] \in Seq(Item) /\ Items(f[i + 1]) = E(i + 1)
  <2>1. f[i + 1] = Cs(i + 1) \o f[i]
    <3>1. i + 1 \in 1 .. p /\ i + 1 # 1 /\ (i + 1) - 1 = i
      BY <1>0, <1>6
    <3> QED BY <1>3, <3>1
  <2>2. Cs(i + 1) \in Seq(Item) /\ Items(Cs(i + 1)) = I(i + 1)
    <3>1. i + 1 \in 2 .. p
      BY <1>0, <1>6
    <3> QED BY <1>4, <3>1
  <2>3. E(i + 1) = I(i + 1) \cup E(i)
    <3>1. 2 .. (i + 1) = {i + 1} \cup (2 .. i)
      OBVIOUS
    <3> HIDE DEF I
    <3>2. \A x : x \in E(i + 1) <=> \E m \in 2 .. (i + 1) : x \in I(m)
      OBVIOUS
    <3>3. \A x : x \in E(i) <=> \E m \in 2 .. i : x \in I(m)
      OBVIOUS
    <3> HIDE DEF E
    <3> QED BY <3>1, <3>2, <3>3
  <2> HIDE DEF E, I
  <2>4. f[i + 1] \in Seq(Item) /\ Items(f[i + 1]) = Items(Cs(i + 1)) \cup Items(f[i])
    BY <1>6, <2>1, <2>2, ItemsOfConcat
  <2> QED BY <1>6, <2>2, <2>3, <2>4
<1> HIDE DEF E
<1>7. f[p] \in Seq(Item) /\ Items(f[p]) = E(p)
  <2>2. 2 <= p => f[2] \in Seq(Item) /\ Items(f[2]) = E(2)
    BY <1>5, <1>6, 1 \in 1 .. 3, 1 + 1 = 2
  <2>3. 3 <= p => f[3] \in Seq(Item) /\ Items(f[3]) = E(3)
    <3>1. 3 <= p => 2 <= p
      BY <1>0
    <3> QED BY <2>2, <3>1, <1>6, 2 \in 1 .. 3, 2 + 1 = 3
  <2>4. 4 <= p => f[4] \in Seq(Item) /\ Items(f[4]) = E(4)
    <3>1. 4 <= p => 3 <= p
      BY <1>0
    <3> QED BY <2>3, <3>1, <1>6, 3 \in 1 .. 3, 3 + 1 = 4
  <2> QED BY <1>0, <1>5, <2>2, <2>3, <2>4
<1> QED BY <1>1, <1>7 DEF E, Ends


\* What a truncation begins with: cells of the inode and of the blocks in K,
\* and at most one zone, that has been cut off.
CellsStarted(h, K) ==
  \A k, c, d : CellAt(k, c, d)' =>
    c \in Ref(h) /\ d = Height(h, c) /\ c[1] \in K \cup {Inode}

CutStarted(h, K) ==
  /\ \A c \in Ref(h) :
       \/ ptr'[c] = ptr[c]
       \/ /\ ptr'[c] = NoZone /\ c[1] \in K \cup {Inode}
          /\ \E k, z, d : z = ptr[c] /\ TreeAt(k, z, d)'
  /\ \A k, z, d : TreeAt(k, z, d)' =>
       k = 1 /\ \E c \in Ref(h) :
         /\ ptr[c] = z /\ z # NoZone /\ ptr'[c] = NoZone
         /\ d = Height(h, c) /\ c[1] \notin lost

KeptStarted(h, K) ==
  \A z \in K :
    /\ z \notin lost
    /\ \E c \in Ref(h) : /\ ptr[c] = z /\ ptr'[c] = z /\ ~ OnStack(c)'
                         /\ c[1] \in K \cup {Inode}
    /\ \E j \in Index : ptr'[<<z, j>>] \in Zone /\ ~ OnStack(<<z, j>>)'

LEMMA StartedForest ==
  ASSUME TypeOK, NEW h \in Heights, NEW K \in SUBSET Zone,
         EdgesOK(h), ClaimedOK(h), FilledOK(h), stack = <<>>,
         own' = own, lost' = lost, new' = new,
         CellsStarted(h, K), CutStarted(h, K), KeptStarted(h, K)
  PROVE  Forest(h, K)'
<1>1. New' = New /\ Node(h)' = Node(h) /\ Ref(h)' = Ref(h)
  BY DEF New, Node, Ref
<1>2. \A k, c, d : ~ CellAt(k, c, d) /\ ~ TreeAt(k, c, d)
  BY DEF CellAt, TreeAt
<1>3. \A c : ~ Cut(c) /\ ~ OnStack(c)
  BY <1>2 DEF Cut, OnStack
<1>4. ASSUME NEW k, NEW y, NEW d, TreeAt(k, y, d)'
      PROVE  /\ k = 1 /\ y \in own \ (lost \cup New) /\ d = h[y]
             /\ \A c \in Ref(h) : ptr'[c] # y /\ (ptr[c] = y => ptr'[c] = NoZone)
             /\ y \notin K
  <2>1. PICK c \in Ref(h) : /\ ptr[c] = y /\ y # NoZone /\ ptr'[c] = NoZone
                            /\ d = Height(h, c) /\ c[1] \notin lost /\ k = 1
    BY <1>4 DEF CutStarted
  <2>2. y \in own \ (lost \cup New) /\ d = h[y]
    BY <2>1 DEF EdgesOK
  <2>3. \A b \in Ref(h) : ptr[b] = y => b = c
    BY <2>1, <2>2 DEF EdgesOK, TypeOK
  <2>4. \A b \in Ref(h) : ptr'[b] # y
    BY <2>1, <2>3 DEF CutStarted
  <2>5. y \notin K
    BY <2>4 DEF KeptStarted
  <2> QED BY <2>1, <2>2, <2>3, <2>4, <2>5
<1>5. EdgesOK(h)'
  <2>1. ASSUME NEW c \in Ref(h), ptr'[c] # NoZone
        PROVE  /\ ptr'[c] = ptr[c] /\ ptr[c] \in own \ New
               /\ h[ptr[c]] = Height(h, c)
               /\ ptr[c] \in lost <=> c[1] \in lost
    BY <2>1 DEF EdgesOK, CutStarted
  <2>2. ASSUME NEW c \in Ref(h) PROVE ~ Cut(ptr[c])' \/ ptr'[c] = NoZone
    <3> SUFFICES ASSUME Cut(ptr[c])', ptr'[c] # NoZone PROVE FALSE
      OBVIOUS
    <3>1. PICK x : x = ptr'[c]
      OBVIOUS
    <3>2. Cut(x)'
      BY <3>1
    <3>3. PICK k, d : TreeAt(k, x, d)'
      BY <3>2 DEF Cut
    <3> QED BY <1>4, <3>1, <3>3
  <2>3. \A c, d \in Ref(h) : ptr'[c] \in Zone /\ ptr'[c] = ptr'[d] => c = d
    <3>1. \A c \in Ref(h) : ptr'[c] \in Zone => ptr'[c] = ptr[c]
      BY BlockTreeAssumption DEF CutStarted
    <3> QED BY <3>1 DEF EdgesOK
  <2>4. \A c \in Ref(h) :
               \/ ptr'[c] = NoZone
               \/ /\ ptr'[c] \in own' \ New'
                  /\ h[ptr'[c]] = Height(h, c)
                  /\ ~ Cut(ptr[c])'
                  /\ ptr'[c] \in lost' <=> c[1] \in lost'
    BY <1>1, <2>1, <2>2
  <2> QED BY <1>1, <2>3, <2>4 DEF EdgesOK, Height
<1>6. ClaimedOK(h)'
  <2> SUFFICES ASSUME NEW y \in own \ (lost \cup New)
               PROVE  Cut(y)' \/ \E c \in Ref(h) : ptr'[c] = y
    BY <1>1 DEF ClaimedOK
  <2>1. PICK c \in Ref(h) : ptr[c] = y
    BY <1>3 DEF ClaimedOK
  <2> QED BY <2>1 DEF CutStarted, Cut
<1>7. FilledOK(h)'
  <2> SUFFICES ASSUME NEW y \in Node(h) \ lost
               PROVE  Cut(y)' \/ \E j \in Index : ptr'[<<y, j>>] \in Zone /\ ~ OnStack(<<y, j>>)'
    BY <1>1 DEF FilledOK
  <2>1. CASE y \in K
    BY <2>1 DEF KeptStarted
  <2>2. CASE y \notin K
    <3>1. PICK j \in Index : ptr[<<y, j>>] \in Zone
      BY <1>3 DEF FilledOK
    <3>2. PICK c : c = <<y, j>>
      OBVIOUS
    <3>3. c \in Ref(h) /\ c[1] = y /\ y # Inode
      BY <3>2, BlockTreeAssumption DEF Ref, Node, Cell, TypeOK
    <3>4. ptr'[c] = ptr[c]
      BY <2>2, <3>3 DEF CutStarted
    <3>5. ~ OnStack(c)'
      BY <2>2, <3>3 DEF OnStack, CellsStarted
    <3> QED BY <3>1, <3>2, <3>4, <3>5
  <2> QED BY <2>1, <2>2
<1>8. CellsOK(h, K)'
  BY <1>1 DEF CellsOK, CellsStarted, Height
<1>9. TreesOK(h)'
  <2> SUFFICES ASSUME NEW k, NEW y, NEW d, TreeAt(k, y, d)'
        PROVE  /\ y \in own \ (lost \cup New)
               /\ d = h[y]
               /\ \A m, j, e : CellAt(m, <<y, j>>, e)' => m < k
               /\ \A m, e : TreeAt(m, y, e)' => m = k
    BY <1>1 DEF TreesOK
  <2>1. k = 1 /\ y \in own \ (lost \cup New) /\ d = h[y] /\ y \notin K
    BY <1>4
  <2>2. \A m, j, e : ~ CellAt(m, <<y, j>>, e)'
    <3> SUFFICES ASSUME NEW m, NEW j, NEW e, CellAt(m, <<y, j>>, e)' PROVE FALSE
      OBVIOUS
    <3>1. PICK c : c = <<y, j>>
      OBVIOUS
    <3>2. CellAt(m, c, e)'
      BY <3>1
    <3>3. c[1] \in K \cup {Inode}
      BY <3>2 DEF CellsStarted
    <3> QED BY <2>1, <3>1, <3>3, BlockTreeAssumption DEF TypeOK
  <2>3. \A m, e : TreeAt(m, y, e)' => m = k
    BY <1>4, <2>1
  <2> QED BY <2>1, <2>2, <2>3
<1>10. KeptOK(h, K)'
  BY <1>1 DEF KeptOK, KeptStarted
<1> QED BY <1>5, <1>6, <1>7, <1>8, <1>9, <1>10 DEF Forest


LEMMA SharedAtIs ==
  ASSUME NEW s, Len(s) \in 1 .. DEPTH
  PROVE  /\ SharedAt(s) \in 1 .. Len(s)
         /\ \A i \in (SharedAt(s) + 1) .. Len(s) : AllZeroes(s[i])
         /\ SharedAt(s) > 1 => ~ AllZeroes(s[SharedAt(s)])
<1> DEFINE Good(q) == /\ \A i \in (q + 1) .. Len(s) : AllZeroes(s[i])
                      /\ q > 1 => ~ AllZeroes(s[q])
           l == Len(s)
<1>1. l \in Nat /\ 1 <= l /\ l <= 4
  BY UpTo4
<1>2. \E q \in 1 .. Len(s) : Good(q)
  <2> DEFINE Z(i) == AllZeroes(s[i])
             H(q) == (\A i \in (q + 1) .. l : Z(i)) /\ (q > 1 => ~ Z(q))
  <2> HIDE DEF l, Z
  <2>1. CASE 4 <= l /\ ~ Z(4)
    <3>1. H(4) /\ 4 \in 1 .. l
      BY <1>1, <2>1
    <3> QED BY <3>1 DEF Z, l
  <2>2. CASE (4 <= l => Z(4)) /\ 3 <= l /\ ~ Z(3)
    <3>1. \A i \in 4 .. l : i = 4 /\ 4 <= l
      BY <1>1
    <3>2. H(3) /\ 3 \in 1 .. l
      BY <1>1, <2>2, <3>1, 3 + 1 = 4
    <3> QED BY <3>2 DEF Z, l
  <2>3. CASE (4 <= l => Z(4)) /\ (3 <= l => Z(3)) /\ 2 <= l /\ ~ Z(2)
    <3>1. \A i \in 3 .. l : (i = 4 /\ 4 <= l) \/ (i = 3 /\ 3 <= l)
      BY <1>1
    <3>2. H(2) /\ 2 \in 1 .. l
      BY <1>1, <2>3, <3>1, 2 + 1 = 3
    <3> QED BY <3>2 DEF Z, l
  <2>4. CASE (4 <= l => Z(4)) /\ (3 <= l => Z(3)) /\ (2 <= l => Z(2))
    <3>1. \A i \in 2 .. l : (i = 4 /\ 4 <= l) \/ (i = 3 /\ 3 <= l) \/ (i = 2 /\ 2 <= l)
      BY <1>1
    <3>2. H(1) /\ 1 \in 1 .. l
      BY <1>1, <2>4, <3>1, 1 + 1 = 2
    <3> QED BY <3>2 DEF Z, l
  <2> QED BY <2>1, <2>2, <2>3, <2>4
<1>3. SharedAt(s) = CHOOSE q \in 1 .. Len(s) : Good(q)
  BY DEF SharedAt
<1> HIDE DEF Good, l
<1>4. SharedAt(s) \in 1 .. Len(s) /\ Good(SharedAt(s))
  BY <1>2, <1>3
<1> QED BY <1>4 DEF Good

LEMMA SharedDepthIs ==
  ASSUME NEW path, Len(path) \in 1 .. DEPTH
  PROVE  /\ SharedDepth(path) \in 1 .. Len(path)
         /\ \A i \in (SharedDepth(path) + 1) .. Len(path) : path[i] = 0
         /\ SharedDepth(path) > 1 => path[SharedDepth(path)] # 0
<1> DEFINE Good(q) == /\ \A i \in (q + 1) .. Len(path) : path[i] = 0
                      /\ q > 1 => path[q] # 0
           l == Len(path)
<1>1. l \in Nat /\ 1 <= l /\ l <= 4
  BY UpTo4
<1>2. \E q \in 1 .. Len(path) : Good(q)
  <2> DEFINE Z(i) == path[i] = 0
             H(q) == (\A i \in (q + 1) .. l : Z(i)) /\ (q > 1 => ~ Z(q))
  <2> HIDE DEF l, Z
  <2>1. CASE 4 <= l /\ ~ Z(4)
    <3>1. H(4) /\ 4 \in 1 .. l
      BY <1>1, <2>1
    <3> QED BY <3>1 DEF Z, l
  <2>2. CASE (4 <= l => Z(4)) /\ 3 <= l /\ ~ Z(3)
    <3>1. \A i \in 4 .. l : i = 4 /\ 4 <= l
      BY <1>1
    <3>2. H(3) /\ 3 \in 1 .. l
      BY <1>1, <2>2, <3>1, 3 + 1 = 4
    <3> QED BY <3>2 DEF Z, l
  <2>3. CASE (4 <= l => Z(4)) /\ (3 <= l => Z(3)) /\ 2 <= l /\ ~ Z(2)
    <3>1. \A i \in 3 .. l : (i = 4 /\ 4 <= l) \/ (i = 3 /\ 3 <= l)
      BY <1>1
    <3>2. H(2) /\ 2 \in 1 .. l
      BY <1>1, <2>3, <3>1, 2 + 1 = 3
    <3> QED BY <3>2 DEF Z, l
  <2>4. CASE (4 <= l => Z(4)) /\ (3 <= l => Z(3)) /\ (2 <= l => Z(2))
    <3>1. \A i \in 2 .. l : (i = 4 /\ 4 <= l) \/ (i = 3 /\ 3 <= l) \/ (i = 2 /\ 2 <= l)
      BY <1>1
    <3>2. H(1) /\ 1 \in 1 .. l
      BY <1>1, <2>4, <3>1, 1 + 1 = 2
    <3> QED BY <3>2 DEF Z, l
  <2> QED BY <2>1, <2>2, <2>3, <2>4
<1>3. SharedDepth(path) = CHOOSE q \in 1 .. Len(path) : Good(q)
  BY DEF SharedDepth
<1> HIDE DEF Good, l
<1>4. SharedDepth(path) \in 1 .. Len(path) /\ Good(SharedDepth(path))
  BY <1>2, <1>3
<1> QED BY <1>4 DEF Good

LEMMA DirectIs ==
  ASSUME NEW b \in Nat, Len(block_to_path(b)) = 1
  PROVE  b < DIRECT /\ b < MaxBlocks
<1> DEFINE b1 == b - DIRECT
           b2 == b1 - IndirCount
           b3 == b2 - IndirCount * IndirCount
<1>1. Len(<<>>) = 0 /\ (\A x, y : Len(<<x, y>>) = 2) /\ (\A x, y, z : Len(<<x, y, z>>) = 3)
      /\ (\A x, y, z, u : Len(<<x, y, z, u>>) = 4)
  OBVIOUS
<1>2. CASE b >= MaxBlocks
  <2>1. block_to_path(b) = <<>>
    BY <1>2 DEF block_to_path
  <2> QED BY <1>1, <2>1
<1>3. CASE b < MaxBlocks /\ ~ (b < DIRECT)
  <2>1. \/ block_to_path(b) = <<DIRECT, b1>>
        \/ block_to_path(b) = <<DIRECT + 1, b2 \div IndirCount, b2 % IndirCount>>
        \/ block_to_path(b) = <<DIRECT + 2, (b3 \div IndirCount) \div IndirCount,
            (b3 \div IndirCount) % IndirCount, b3 % IndirCount>>
    <3>1. ~ (b >= MaxBlocks)
      BY <1>3, Sizes
    <3> QED BY <1>3, <3>1, Zenon DEF block_to_path
  <2> QED BY <1>1, <2>1
<1> QED BY <1>2, <1>3, Sizes


WholeItems(f) == {CellItem(<<Inode, DIRECT + m>>, m + 1) : m \in f .. 2}

\* What find_shared does with a chain of the path, when it is cut at place p.
SharedCut(path, s, p, back) ==
  LET n == Len(path)
      A == Ends(s, n, p, back, p) \cup WholeItems(n - 1)
  IN /\ ptr' = IF back THEN ptr ELSE [ptr EXCEPT ![s[p]] = NoZone]
     /\ ptr' \in [Cell -> Pointer] /\ stack' \in Seq(Item)
     /\ \A k, c, d : CellAt(k, c, d)' => CellItem(c, d) \in A
     /\ \A x \in A : \E k \in DOMAIN stack' : stack'[k] = x
     /\ \A k, z, d : TreeAt(k, z, d)' =>
          k = 1 /\ ~ back /\ z = ptr[s[p]] /\ z # NoZone /\ d = n - p
     /\ ~ back /\ ptr[s[p]] # NoZone =>
          \E z, d : z = ptr[s[p]] /\ d = n - p /\ TreeAt(1, z, d)'

LEMMA FindSharedIs ==
  ASSUME TypeOK, NEW h \in Heights, EdgesOK(h),
         NEW path, IsPath(path), Len(path) > 1, NEW s, OnPath(ptr, path, s),
         NEW kk, FindShared(path, kk, s)
  PROVE  \E p \in 1 .. Len(s), back \in BOOLEAN :
           /\ p = SharedAt(s) /\ (back <=> p = kk /\ p > 1)
           /\ SharedCut(path, s, p, back)
<1> DEFINE n0 == Len(path)
           p0 == SharedAt(s)
           back0 == p0 = kk /\ p0 > 1
<1>1. PICK n, p, back : n = n0 /\ p = p0 /\ back = back0
  OBVIOUS
<1>2. /\ n \in Nat /\ 1 < n /\ n <= 4 /\ Len(s) \in Nat /\ Len(s) <= n /\ Len(s) \in 1 .. DEPTH
      /\ back \in BOOLEAN
  <2>1. Len(path) \in 1 .. DEPTH
    BY DEF IsPath
  <2>2. Len(path) \in Nat /\ Len(path) <= 4
    BY <2>1, UpTo4
  <2>3. Len(s) \in 1 .. Len(path)
    BY DEF OnPath
  <2> DEFINE l == Len(s)
             m == Len(path)
  <2>4. l \in Nat /\ l <= m /\ 1 <= l /\ m \in Nat /\ m <= 4 /\ 1 < m
    BY <2>2, <2>3
  <2> HIDE DEF l, m
  <2>5. l \in 1 .. DEPTH
    BY <2>4 DEF DEPTH
  <2>6. n = m
    BY <1>1 DEF m
  <2> QED BY <1>1, <2>4, <2>5, <2>6 DEF l
<1>3. p \in 1 .. Len(s) /\ p \in Nat /\ 1 <= p /\ p <= n
  <2>1. p \in 1 .. Len(s)
    BY <1>1, <1>2, SharedAtIs
  <2> QED BY <1>2, <2>1
<1>4. ChainOK(h, path, s)
  BY ChainIs
<1>5. PICK top, A, E, W :
        /\ top = (IF back THEN NoZone ELSE ptr[s[p]])
        /\ A = (IF top = NoZone THEN <<>> ELSE <<TreeItem(top, n - p)>>)
        /\ E = EndItems(s, n, p, back) /\ W = Wholes(path[1] + 1 - DIRECT)
  OBVIOUS
<1>6. /\ ptr' = IF back THEN ptr ELSE [ptr EXCEPT ![s[p]] = NoZone]
      /\ stack' = A \o E \o W
  BY <1>1, <1>5 DEF FindShared
<1>7. /\ s[p] \in Ref(h) /\ s[p] \in Cell /\ Height(h, s[p]) = n - p
  BY <1>1, <1>3, <1>4 DEF ChainOK, Ref
<1>8. ptr' \in [Cell -> Pointer]
  <2>1. NoZone \in Pointer
    BY DEF Pointer
  <2> QED BY <1>6, <1>7, <2>1 DEF TypeOK
<1>9. E \in Seq(Item) /\ Items(E) = Ends(s, n, p, back, p)
  <2>1. \A m \in 2 .. p : s[m][1] \in Zone /\ s[m][2] \in Index
    <3> TAKE m \in 2 .. p
    <3>1. m \in 1 .. Len(s) /\ m > 1 /\ m \in 2 .. Len(path)
      BY <1>1, <1>2, <1>3
    <3>2. s[m] = <<s[m][1], path[m]>> /\ s[m][1] \in Node(h)
      BY <1>4, <3>1 DEF ChainOK
    <3>3. path[m] \in Index
      BY <3>1 DEF IsPath
    <3> QED BY <3>2, <3>3 DEF Node, TypeOK
  <2>2. EndsOK(s, n, p)
    BY <1>2, <1>3, <2>1 DEF EndsOK, DEPTH
  <2> QED BY <1>2, <1>5, <2>2, ItemsOfEnds
<1>10. W \in Seq(Item) /\ Items(W) = WholeItems(n - 1)
  <2>1. path[1] + 1 - DIRECT = n - 1
    <3>1. path[1] = DIRECT + n - 2
      BY <1>1, <1>2 DEF IsPath
    <3> QED BY <1>2, <3>1, Sizes
  <2>2. n - 1 \in 0 .. 3
    BY <1>2
  <2> QED BY <1>5, <2>1, <2>2, ItemsOfWholes DEF WholeItems
<1>11. top # NoZone => ~ back /\ top = ptr[s[p]] /\ top \in Zone
  BY <1>5, <1>7 DEF EdgesOK, TypeOK
<1>12. /\ A \in Seq(Item)
       /\ \A k \in DOMAIN A : k = 1 /\ A[k] = TreeItem(top, n - p) /\ top # NoZone
       /\ top # NoZone => 1 \in DOMAIN A
       /\ \A x \in Items(A) : x = TreeItem(top, n - p)
  <2>1. CASE top = NoZone
    <3>1. A = <<>>
      BY <1>5, <2>1
    <3> QED BY <2>1, <3>1 DEF Items
  <2>2. CASE top # NoZone
    <3>1. PICK x : x = TreeItem(top, n - p)
      OBVIOUS
    <3>2. A = <<x>>
      BY <1>5, <2>2, <3>1
    <3>3. n - p \in 0 .. 3
      BY <1>2, <1>3
    <3>4. x \in Item
      BY <1>11, <2>2, <3>1, <3>3 DEF TreeItem, Item
    <3>5. A \in Seq(Item) /\ DOMAIN A = {1} /\ A[1] = x
      BY <3>2, <3>4
    <3> QED BY <2>2, <3>1, <3>5 DEF Items
  <2> QED BY <2>1, <2>2
<1>13. /\ A \o E \in Seq(Item) /\ Items(A \o E) = Items(A) \cup Items(E)
       /\ \A k \in DOMAIN (A \o E) :
            \/ k \in DOMAIN A /\ (A \o E)[k] = A[k]
            \/ k \notin DOMAIN A /\ (A \o E)[k] \in Items(E)
  BY <1>9, <1>12, ItemsOfConcat
<1>14. /\ stack' \in Seq(Item) /\ Items(stack') = Items(A) \cup Items(E) \cup Items(W)
       /\ \A k \in DOMAIN stack' :
            \/ k \in DOMAIN A /\ stack'[k] = A[k]
            \/ k \notin DOMAIN A /\ stack'[k] \in Items(E) \cup Items(W)
  <2>1. PICK F : F = A \o E
    OBVIOUS
  <2>2. /\ F \o W \in Seq(Item) /\ Items(F \o W) = Items(F) \cup Items(W)
        /\ \A k \in DOMAIN (F \o W) :
            \/ k \in DOMAIN F /\ (F \o W)[k] = F[k]
            \/ k \notin DOMAIN F /\ (F \o W)[k] \in Items(W)
    BY <1>10, <1>13, <2>1, ItemsOfConcat
  <2>3. stack' = F \o W
    BY <1>6, <2>1
  <2>4. DOMAIN A \subseteq DOMAIN F
    <3>1. Len(F) = Len(A) + Len(E)
      BY <1>9, <1>12, <2>1
    <3>2. Len(A) \in Nat /\ Len(E) \in Nat /\ DOMAIN A = 1 .. Len(A) /\ DOMAIN F = 1 .. Len(F)
      BY <1>9, <1>12, <1>13, <2>1
    <3> DEFINE a == Len(A)
               e == Len(E)
    <3>3. a \in Nat /\ e \in Nat /\ DOMAIN A = 1 .. a /\ DOMAIN F = 1 .. (a + e)
      BY <3>1, <3>2
    <3> HIDE DEF a, e
    <3>4. 1 .. a \subseteq 1 .. (a + e)
      BY <3>3
    <3> QED BY <3>3, <3>4
  <2>5. \A k \in DOMAIN F :
            \/ k \in DOMAIN A /\ F[k] = A[k]
            \/ k \notin DOMAIN A /\ F[k] \in Items(E)
    BY <1>13, <2>1
  <2>6. Items(F) = Items(A) \cup Items(E)
    BY <1>13, <2>1
  <2> QED BY <2>2, <2>3, <2>4, <2>5, <2>6
<1>15. \A x \in Items(E) \cup Items(W) : \E c, d : x = CellItem(c, d)
  <2>1. \A x \in WholeItems(n - 1) : \E c, d : x = CellItem(c, d)
    BY Zenon DEF WholeItems
  <2>2. \A node, from, to, e : \A x \in Cells(node, from, to, e) : \E c, d : x = CellItem(c, d)
    BY Zenon DEF Cells
  <2>3. \A x \in Ends(s, n, p, back, p) : \E c, d : x = CellItem(c, d)
    <3> SUFFICES ASSUME NEW x \in Ends(s, n, p, back, p) PROVE \E c, d : x = CellItem(c, d)
      OBVIOUS
    <3>1. PICK m \in 2 .. p :
            x \in Cells(s[m][1], From(s, m, p, back), IndirCount - 1, n - m)
      BY DEF Ends
    <3> QED BY <2>2, <3>1
  <2> QED BY <1>9, <1>10, <2>1, <2>3
<1>16. ASSUME NEW k, NEW c, NEW d, CellAt(k, c, d)'
       PROVE  CellItem(c, d) \in Items(E) \cup Items(W)
  <2>1. k \in DOMAIN stack' /\ stack'[k] = CellItem(c, d)
    BY <1>16 DEF CellAt
  <2>2. stack'[k] # TreeItem(top, n - p)
    BY <2>1, ItemKinds
  <2> QED BY <1>12, <1>14, <2>1, <2>2
<1>17. ASSUME NEW k, NEW z, NEW d, TreeAt(k, z, d)'
       PROVE  k = 1 /\ ~ back /\ z = ptr[s[p]] /\ z # NoZone /\ d = n - p
  <2>1. k \in DOMAIN stack' /\ stack'[k] = TreeItem(z, d)
    BY <1>17 DEF TreeAt
  <2>2. \A c, e : stack'[k] # CellItem(c, e)
    BY <2>1, ItemKinds
  <2>3. k \in DOMAIN A /\ stack'[k] = A[k]
    BY <1>14, <1>15, <2>1, <2>2
  <2>4. k = 1 /\ TreeItem(z, d) = TreeItem(top, n - p) /\ top # NoZone
    BY <1>12, <2>1, <2>3
  <2>5. PICK e : e = n - p
    OBVIOUS
  <2>6. z = top /\ d = e
    BY <2>4, <2>5, ItemKinds
  <2> QED BY <1>11, <2>4, <2>5, <2>6
<1>18. ASSUME ~ back, ptr[s[p]] # NoZone
       PROVE  \E z, d : z = ptr[s[p]] /\ d = n - p /\ TreeAt(1, z, d)'
  <2>1. top = ptr[s[p]] /\ top # NoZone
    BY <1>5, <1>18
  <2>2. 1 \in DOMAIN A /\ A[1] = TreeItem(top, n - p)
    BY <1>12, <2>1
  <2>3. A[1] \in Items(A)
    BY <2>2 DEF Items
  <2>4. PICK k \in DOMAIN stack' : stack'[k] = A[1]
    <3>1. A[1] \in Items(stack')
      <4>1. Items(A) \subseteq Items(stack')
        BY <1>14
      <4> QED BY <2>3, <4>1
    <3>2. \A x : x \in Items(stack') => \E k \in DOMAIN stack' : x = stack'[k]
      BY Zenon DEF Items
    <3> QED BY <3>1, <3>2
  <2>5. \A c, e : stack'[k] # CellItem(c, e)
    <3>1. PICK u : u = n - p
      OBVIOUS
    <3> QED BY <2>2, <2>4, <3>1, ItemKinds
  <2>6. k \in DOMAIN A
    BY <1>14, <1>15, <2>4, <2>5
  <2>7. k = 1
    BY <1>12, <2>6
  <2>8. 1 \in DOMAIN stack' /\ stack'[1] = TreeItem(top, n - p)
    BY <2>2, <2>4, <2>7
  <2>9. PICK z, e : z = ptr[s[p]] /\ e = n - p
    OBVIOUS
  <2>10. TreeAt(1, z, e)'
    BY <2>1, <2>8, <2>9 DEF TreeAt
  <2> QED BY <2>9, <2>10
<1>19. \A x \in Items(E) \cup Items(W) : \E k \in DOMAIN stack' : stack'[k] = x
  BY <1>14 DEF Items
<1>20. SharedCut(path, s, p, back)
  <2> DEFINE B == Ends(s, n, p, back, p) \cup WholeItems(n - 1)
  <2>1. /\ \A k, c, d : CellAt(k, c, d)' => CellItem(c, d) \in B
        /\ \A x \in B : \E k \in DOMAIN stack' : stack'[k] = x
    BY <1>9, <1>10, <1>16, <1>19
  <2> HIDE DEF B
  <2>2. n = Len(path)
    BY <1>1
  <2> QED BY <1>6, <1>8, <1>14, <1>17, <1>18, <2>1, <2>2 DEF SharedCut, B
<1> QED BY <1>1, <1>2, <1>3, <1>20


\* Which cells find_shared leaves for truncate to clear.
LEMMA SharedCells ==
  ASSUME NEW path, NEW s, NEW p, NEW back, SharedCut(path, s, p, back),
         NEW k, NEW c, NEW d, CellAt(k, c, d)'
  PROVE  \/ \E m \in 2 .. p : \E j \in From(s, m, p, back) .. (IndirCount - 1) :
              c = <<s[m][1], j>> /\ d = Len(path) - m
         \/ \E m \in (Len(path) - 1) .. 2 : c = <<Inode, DIRECT + m>> /\ d = m + 1
<1> DEFINE n == Len(path)
<1>1. CellItem(c, d) \in Ends(s, n, p, back, p) \cup WholeItems(n - 1)
  BY DEF SharedCut
<1> HIDE DEF n
<1>2. CASE CellItem(c, d) \in WholeItems(n - 1)
  <2>1. PICK m \in (n - 1) .. 2 : CellItem(c, d) = CellItem(<<Inode, DIRECT + m>>, m + 1)
    BY <1>2 DEF WholeItems
  <2>2. PICK b, e : b = <<Inode, DIRECT + m>> /\ e = m + 1
    OBVIOUS
  <2>3. CellItem(c, d) = CellItem(b, e)
    BY <2>1, <2>2
  <2>4. c = b /\ d = e
    BY <2>3, ItemKinds
  <2> QED BY <2>2, <2>4 DEF n
<1>3. CASE CellItem(c, d) \in Ends(s, n, p, back, p)
  <2>1. PICK m \in 2 .. p :
          CellItem(c, d) \in Cells(s[m][1], From(s, m, p, back), IndirCount - 1, n - m)
    BY <1>3 DEF Ends
  <2>2. PICK j \in From(s, m, p, back) .. (IndirCount - 1) :
          CellItem(c, d) = CellItem(<<s[m][1], j>>, n - m)
    BY <2>1 DEF Cells
  <2>3. PICK b, e : b = <<s[m][1], j>> /\ e = n - m
    OBVIOUS
  <2>4. CellItem(c, d) = CellItem(b, e)
    BY <2>2, <2>3
  <2>5. c = b /\ d = e
    BY <2>4, ItemKinds
  <2> QED BY <2>3, <2>5 DEF n
<1> QED BY <1>1, <1>2, <1>3

LEMMA SharedForest ==
  ASSUME TypeOK, NEW h \in Heights, EdgesOK(h), ClaimedOK(h), FilledOK(h), stack = <<>>,
         own' = own, lost' = lost, new' = new,
         NEW path, IsPath(path), Len(path) > 1, NEW s, OnPath(ptr, path, s),
         NEW kk, FindShared(path, kk, s)
  PROVE  /\ stack' \in Seq(Item) /\ ptr' \in [Cell -> Pointer]
         /\ \E K \in SUBSET Zone : Forest(h, K)'
<1>1. PICK p \in 1 .. Len(s), back \in BOOLEAN :
           /\ p = SharedAt(s) /\ (back <=> p = kk /\ p > 1)
           /\ SharedCut(path, s, p, back)
  BY FindSharedIs
<1>2. PICK n, l : n = Len(path) /\ l = Len(s)
  OBVIOUS
<1>3. /\ n \in Nat /\ 1 < n /\ n <= 4 /\ l \in Nat /\ 1 <= l /\ l <= n
      /\ p \in Nat /\ 1 <= p /\ p <= l /\ Len(s) \in 1 .. DEPTH
  <2>1. Len(path) \in 1 .. DEPTH
    BY DEF IsPath
  <2>2. n \in Nat /\ n <= 4
    BY <1>2, <2>1, UpTo4
  <2>3. l \in 1 .. n
    BY <1>2 DEF OnPath
  <2>4. l \in 1 .. DEPTH
    BY <2>2, <2>3 DEF DEPTH
  <2>5. p \in 1 .. l
    BY <1>1, <1>2
  <2> QED BY <1>2, <2>2, <2>3, <2>4, <2>5
<1>4. ChainOK(h, path, s)
  BY ChainIs
<1>5. ASSUME NEW m \in 1 .. l
      PROVE  /\ m \in Nat /\ 1 <= m /\ m <= l
             /\ s[m] \in Ref(h) /\ s[m] \in Cell
             /\ s[m] = <<s[m][1], path[m]>> /\ path[m] = s[m][2]
             /\ Height(h, s[m]) = n - m
             /\ s[m][1] \notin lost
             /\ m = 1 => s[m][1] = Inode
             /\ m > 1 => /\ s[m][1] \in Node(h) /\ s[m][1] = ptr[s[m - 1]]
                         /\ s[m][1] \in Zone /\ s[m][1] # Inode
                         /\ path[m] \in Index /\ h[s[m][1]] - 1 = n - m
  <2>1. /\ s[m] \in Ref(h)
        /\ s[m] = <<s[m][1], path[m]>>
        /\ Height(h, s[m]) = n - m
        /\ s[m][1] \notin lost
        /\ m = 1 => s[m][1] = Inode
        /\ m > 1 => s[m][1] \in Node(h) /\ s[m][1] = ptr[s[m - 1]]
    BY <1>2, <1>4 DEF ChainOK
  <2>2. m > 1 => s[m][1] \in Zone /\ s[m][1] # Inode
    BY <2>1, BlockTreeAssumption DEF Node, TypeOK
  <2>3. m > 1 => path[m] \in Index
    <3>1. m > 1 => m \in 2 .. Len(path)
      BY <1>2, <1>3
    <3> QED BY <3>1 DEF IsPath
  <2>4. m > 1 => h[s[m][1]] - 1 = n - m
    BY <2>1, <2>2 DEF Height
  <2>5. m \in Nat /\ 1 <= m /\ m <= l
    BY <1>3
  <2>6. s[m] \in Cell /\ path[m] = s[m][2]
    <3>1. PICK c : c = s[m]
      OBVIOUS
    <3>2. c = <<c[1], path[m]>>
      BY <2>1, <3>1
    <3>3. c[2] = path[m]
      BY <3>2
    <3> QED BY <2>1, <3>1, <3>3 DEF Ref
  <2> QED BY <2>1, <2>2, <2>3, <2>4, <2>5, <2>6
<1>6. PICK K : K = {s[m][1] : m \in 2 .. p}
  OBVIOUS
<1>7. K \in SUBSET Zone
  BY <1>3, <1>5, <1>6
<1>8. path[1] = DIRECT + n - 2
  BY <1>2, <1>3 DEF IsPath
<1>9. ASSUME NEW k, NEW c, NEW d, CellAt(k, c, d)'
      PROVE  \/ \E m \in 2 .. p : \E j \in From(s, m, p, back) .. (IndirCount - 1) :
                  c = <<s[m][1], j>> /\ d = n - m
             \/ \E m \in (n - 1) .. 2 : c = <<Inode, DIRECT + m>> /\ d = m + 1
  BY <1>1, <1>2, <1>9, SharedCells, SMTT(30)
<1>10. \A m \in 2 .. p : From(s, m, p, back) \in Nat /\ s[m][2] <= From(s, m, p, back)
                         /\ (m < p => s[m][2] < From(s, m, p, back))
  <2> TAKE m \in 2 .. p
  <2>1. m \in 1 .. l /\ m > 1
    BY <1>3
  <2>2. s[m][2] \in Nat
    BY <1>5, <2>1 DEF Index
  <2> QED BY <1>3, <2>2 DEF From
<1>11. CellsStarted(h, K)
  <2> SUFFICES ASSUME NEW k, NEW c, NEW d, CellAt(k, c, d)'
               PROVE  c \in Ref(h) /\ d = Height(h, c) /\ c[1] \in K \cup {Inode}
    BY DEF CellsStarted
  <2>1. CASE \E m \in 2 .. p : \E j \in From(s, m, p, back) .. (IndirCount - 1) :
                  c = <<s[m][1], j>> /\ d = n - m
    <3>1. PICK m \in 2 .. p :
                  \E j \in From(s, m, p, back) .. (IndirCount - 1) :
                    c = <<s[m][1], j>> /\ d = n - m
      BY <2>1
    <3>1j. PICK j \in From(s, m, p, back) .. (IndirCount - 1) : c = <<s[m][1], j>> /\ d = n - m
      BY <3>1
    <3>2. m \in 1 .. l /\ m > 1
      BY <1>3
    <3>3. j \in Index
      BY <1>10 DEF Index
    <3>4. s[m][1] \in Node(h) /\ s[m][1] \in Zone /\ s[m][1] # Inode /\ h[s[m][1]] - 1 = n - m
      BY <1>5, <3>2
    <3>5. c \in Ref(h) /\ c[1] = s[m][1]
      BY <3>1j, <3>3, <3>4 DEF Ref, Cell
    <3>6. d = Height(h, c)
      BY <3>1, <3>4, <3>5 DEF Height
    <3>7. c[1] \in K
      BY <1>6, <3>5
    <3> QED BY <3>5, <3>6, <3>7
  <2>2. CASE \E m \in (n - 1) .. 2 : c = <<Inode, DIRECT + m>> /\ d = m + 1
    <3>1. PICK m \in (n - 1) .. 2 : c = <<Inode, DIRECT + m>> /\ d = m + 1
      BY <2>2
    <3>2. DIRECT + m \in 0 .. (DIRECT + DEPTH - 2) /\ ~ (DIRECT + m < DIRECT)
          /\ (DIRECT + m) - DIRECT + 1 = m + 1
      BY <1>3, Sizes DEF DEPTH
    <3>3. c \in Ref(h)
      BY <3>1, <3>2 DEF Ref, Cell
    <3>4. c[1] = Inode /\ c[2] = DIRECT + m
      BY <3>1
    <3>5. d = Height(h, c)
      BY <3>1, <3>2, <3>4 DEF Height
    <3> QED BY <3>3, <3>4, <3>5
  <2> QED BY <1>9, <2>1, <2>2
<1>12. \A m \in 2 .. p : s[m][1] \in K
  BY <1>6
<1>13. s[p] \in Ref(h) /\ s[p] \in Cell /\ Height(h, s[p]) = n - p /\ s[p][1] \notin lost
       /\ s[p][1] \in K \cup {Inode}
  <2>1. p \in 1 .. l /\ (p = 1 \/ p \in 2 .. p)
    BY <1>3
  <2> QED BY <1>5, <1>12, <2>1
<1>14. /\ \A c \in Cell : c # s[p] => ptr'[c] = ptr[c]
       /\ ptr'[s[p]] = IF back THEN ptr[s[p]] ELSE NoZone
       /\ stack' \in Seq(Item) /\ ptr' \in [Cell -> Pointer]
  <2>1. /\ ptr' = IF back THEN ptr ELSE [ptr EXCEPT ![s[p]] = NoZone]
        /\ stack' \in Seq(Item) /\ ptr' \in [Cell -> Pointer]
    BY <1>1 DEF SharedCut
  <2> QED BY <1>13, <2>1 DEF TypeOK
<1>15. CutStarted(h, K)
  <2>1. ASSUME NEW c \in Ref(h), ptr'[c] # ptr[c]
        PROVE  /\ ptr'[c] = NoZone /\ c[1] \in K \cup {Inode}
               /\ \E k, z, d : z = ptr[c] /\ TreeAt(k, z, d)'
    <3>1. c = s[p] /\ ~ back /\ ptr'[c] = NoZone /\ ptr[c] # NoZone
      BY <1>14, <2>1 DEF Ref
    <3>2. \E z, d : z = ptr[s[p]] /\ d = n - p /\ TreeAt(1, z, d)'
      BY <1>1, <1>2, <3>1 DEF SharedCut
    <3> QED BY <1>13, <3>1, <3>2
  <2>2. ASSUME NEW k, NEW z, NEW d, TreeAt(k, z, d)'
        PROVE  k = 1 /\ \E c \in Ref(h) :
                 /\ ptr[c] = z /\ z # NoZone /\ ptr'[c] = NoZone
                 /\ d = Height(h, c) /\ c[1] \notin lost
    <3>1. k = 1 /\ ~ back /\ z = ptr[s[p]] /\ z # NoZone /\ d = n - p
      BY <1>1, <1>2, <2>2 DEF SharedCut
    <3> QED BY <1>13, <1>14, <3>1
  <2> QED BY <2>1, <2>2 DEF CutStarted
<1>16. ASSUME NEW i \in 1 .. l, i < p
       PROVE  ptr'[s[i]] = ptr[s[i]] /\ ~ OnStack(s[i])' /\ i + 1 \in 2 .. p
  <2>1. i \in Nat /\ 1 <= i /\ i + 1 \in 2 .. p /\ Height(h, s[i]) = n - i /\ n - i # n - p
    BY <1>3, <1>5, <1>16
  <2>2. s[i] # s[p] /\ s[i] \in Cell
    BY <1>5, <1>13, <2>1
  <2>3. ASSUME NEW k, NEW c, NEW d, CellAt(k, c, d)', c = s[i] PROVE FALSE
    <3>1. c \in Ref(h) /\ d = Height(h, c)
      BY <1>11, <2>3 DEF CellsStarted
    <3>2. d = n - i
      BY <2>1, <2>3, <3>1
    <3>3. CASE \E m \in 2 .. p : \E j \in From(s, m, p, back) .. (IndirCount - 1) :
                  c = <<s[m][1], j>> /\ d = n - m
      <4>1. PICK m \in 2 .. p :
                  \E j \in From(s, m, p, back) .. (IndirCount - 1) :
                    c = <<s[m][1], j>> /\ d = n - m
        BY <3>3
      <4>1j. PICK j \in From(s, m, p, back) .. (IndirCount - 1) : c = <<s[m][1], j>> /\ d = n - m
        BY <4>1
      <4>2. m = i
        BY <1>3, <2>1, <3>2, <4>1
      <4>3. s[m][2] < From(s, m, p, back) /\ From(s, m, p, back) \in Nat
        BY <1>10, <1>16, <4>2
      <4>4. c[2] = j /\ c[2] = s[m][2]
        <5>1. c[2] = j
          BY <4>1j
        <5>2. c[2] = s[m][2]
          BY <2>3, <4>2
        <5> QED BY <5>1, <5>2
      <4>5. s[m][2] \in Nat
        BY <1>5, <1>16, <2>1, <4>2 DEF Index
      <4> QED BY <4>3, <4>4, <4>5
    <3>4. CASE \E m \in (n - 1) .. 2 : c = <<Inode, DIRECT + m>> /\ d = m + 1
      <4>1. PICK m \in (n - 1) .. 2 : c = <<Inode, DIRECT + m>> /\ d = m + 1
        BY <3>4
      <4>2. c[1] = Inode /\ c[2] = DIRECT + m
        BY <4>1
      <4>3. i = 1
        BY <1>5, <2>1, <2>3, <4>2
      <4>4. c[2] = path[1]
        BY <1>5, <2>3, <4>3
      <4> QED BY <1>3, <1>8, <4>2, <4>4, Sizes
    <3> QED BY <1>9, <2>3, <3>3, <3>4
  <2>4. ~ OnStack(s[i])'
    <3> SUFFICES ASSUME OnStack(s[i])' PROVE FALSE
      OBVIOUS
    <3> QED BY <2>3 DEF OnStack
  <2> QED BY <1>14, <2>1, <2>2, <2>4
<1>17. KeptStarted(h, K)
  <2> SUFFICES ASSUME NEW z \in K
        PROVE  /\ z \notin lost
               /\ \E c \in Ref(h) : /\ ptr[c] = z /\ ptr'[c] = z /\ ~ OnStack(c)'
                                    /\ c[1] \in K \cup {Inode}
               /\ \E j \in Index : ptr'[<<z, j>>] \in Zone /\ ~ OnStack(<<z, j>>)'
    BY DEF KeptStarted
  <2>1. PICK m \in 2 .. p : z = s[m][1]
    BY <1>6
  <2>2. m \in 1 .. l /\ m > 1 /\ m \in Nat /\ m - 1 \in 1 .. l /\ m - 1 < p
        /\ (m - 1 = 1 \/ m - 1 \in 2 .. p)
    BY <1>3
  <2>3. /\ z \notin lost /\ z \in Node(h) /\ z = ptr[s[m - 1]] /\ s[m] = <<z, path[m]>>
        /\ path[m] \in Index /\ z \in Zone /\ z # Inode /\ h[z] - 1 = n - m
    BY <1>5, <2>1, <2>2
  <2>4. s[m - 1] \in Ref(h) /\ s[m - 1][1] \in K \cup {Inode}
    BY <1>5, <1>12, <2>2
  <2>5. ptr'[s[m - 1]] = z /\ ~ OnStack(s[m - 1])'
    BY <1>16, <2>2, <2>3
  <2>6. \E j \in Index : ptr'[<<z, j>>] \in Zone /\ ~ OnStack(<<z, j>>)'
    <3>1. CASE m < p
      <4>1. ptr'[s[m]] = ptr[s[m]] /\ ~ OnStack(s[m])'
        BY <1>16, <2>2, <3>1
      <4>2. ptr[s[m]] \in Zone
        <5>1. m + 1 \in 1 .. l /\ m + 1 > 1 /\ (m + 1) - 1 = m
          BY <1>3, <2>2, <3>1
        <5> QED BY <1>5, <5>1
      <4>3. PICK c : c = <<z, path[m]>>
        OBVIOUS
      <4>4. ptr'[c] \in Zone /\ ~ OnStack(c)'
        BY <2>3, <4>1, <4>2, <4>3
      <4> QED BY <2>3, <4>3, <4>4
    <3>2. CASE m = p
      <4>1. ~ AllZeroes(s[p])
        BY <1>1, <1>3, <2>2, <3>2, SharedAtIs
      <4>2. s[p][1] = z /\ s[p][2] = path[m] /\ path[m] \in Nat
        BY <2>3, <3>2 DEF Index
      <4>3. PICK j \in 0 .. (path[m] - 1) : ptr[<<z, j>>] # NoZone
        BY <4>1, <4>2 DEF AllZeroes
      <4>4. j \in Index /\ j < path[m]
        BY <2>3, <4>2, Sizes DEF Index
      <4>5. PICK c : c = <<z, j>>
        OBVIOUS
      <4>6. c \in Ref(h) /\ c \in Cell /\ c[1] = z /\ c[2] = j
        BY <2>3, <4>4, <4>5 DEF Ref, Cell
      <4>7. ptr[c] \in Zone
        BY <4>3, <4>5, <4>6 DEF EdgesOK, TypeOK
      <4>8. c # s[p]
        BY <4>2, <4>4, <4>6
      <4>9. ASSUME NEW k, NEW d, CellAt(k, c, d)' PROVE FALSE
        <5>1. d = Height(h, c)
          BY <1>11, <4>9 DEF CellsStarted
        <5>2. d = n - m
          BY <2>3, <4>6, <5>1 DEF Height
        <5>3. PICK i \in 2 .. p :
                  \E jj \in From(s, i, p, back) .. (IndirCount - 1) :
                    c = <<s[i][1], jj>> /\ d = n - i
          BY <1>9, <2>3, <4>6, <4>9
        <5>3j. PICK jj \in From(s, i, p, back) .. (IndirCount - 1) : c = <<s[i][1], jj>> /\ d = n - i
          BY <5>3
        <5>4. i = m
          BY <1>3, <2>2, <5>2, <5>3
        <5>5. jj = j /\ s[i][2] = path[m]
          <6>1. c[2] = jj
            BY <5>3j
          <6> QED BY <3>2, <4>2, <4>6, <5>4, <6>1
        <5>6. s[i][2] <= From(s, i, p, back) /\ From(s, i, p, back) \in Nat
          BY <1>10
        <5> QED BY <4>2, <4>4, <5>5, <5>6
      <4>10. ~ OnStack(c)'
        BY <4>9 DEF OnStack
      <4>11. ptr'[c] \in Zone
        BY <1>14, <4>6, <4>7, <4>8
      <4> QED BY <4>4, <4>5, <4>10, <4>11
    <3>3. m < p \/ m = p
      BY <1>3, <2>2
    <3> QED BY <3>1, <3>2, <3>3
  <2> QED BY <2>3, <2>4, <2>5, <2>6
<1>18. Forest(h, K)'
  BY <1>7, <1>11, <1>15, <1>17, StartedForest
<1> QED BY <1>7, <1>14, <1>18


\* The stack of a truncate that begins in the direct pointers.
LEMMA DirectItems ==
  ASSUME TypeOK, NEW b \in Nat, TruncateDirect(b)
  PROVE  /\ b < DIRECT /\ ptr' = ptr /\ stack' \in Seq(Item)
         /\ Items(stack') = Cells(Inode, b, DIRECT - 1, 0) \cup WholeItems(0)
         /\ \A j \in b .. (DIRECT - 1) : <<Inode, j>> \in Cell
<1>1. b < DIRECT /\ ptr' = ptr
      /\ stack' = CellItems(Inode, b, DIRECT - 1, 0) \o Wholes(0)
  BY DirectIs DEF TruncateDirect
<1>2. \A j \in b .. (DIRECT - 1) : <<Inode, j>> \in Cell
  <2> TAKE j \in b .. (DIRECT - 1)
  <2>1. j \in 0 .. (DIRECT + DEPTH - 2)
    BY Sizes DEF DEPTH
  <2> QED BY <2>1 DEF Cell
<1>3. PICK s, t : s = CellItems(Inode, b, DIRECT - 1, 0) /\ t = Wholes(0)
  OBVIOUS
<1>4. s \in Seq(Item) /\ Items(s) = Cells(Inode, b, DIRECT - 1, 0)
  <2>1. DIRECT - 1 \in Int /\ b <= (DIRECT - 1) + 1 /\ 0 \in 0 .. 3
    BY <1>1, Sizes
  <2> QED BY <1>2, <1>3, <2>1, ItemsOfCells
<1>5. t \in Seq(Item) /\ Items(t) = WholeItems(0)
  BY <1>3, ItemsOfWholes, 0 \in 0 .. 3 DEF WholeItems
<1>6. stack' = s \o t
  BY <1>1, <1>3
<1>7. stack' \in Seq(Item) /\ Items(stack') = Items(s) \cup Items(t)
  BY <1>4, <1>5, <1>6, ItemsOfConcat
<1> QED BY <1>1, <1>2, <1>4, <1>5, <1>7

LEMMA DirectForest ==
  ASSUME TypeOK, NEW h \in Heights, EdgesOK(h), ClaimedOK(h), FilledOK(h), stack = <<>>,
         own' = own, lost' = lost, new' = new,
         NEW b \in Nat, TruncateDirect(b)
  PROVE  stack' \in Seq(Item) /\ ptr' = ptr /\ Forest(h, {})'
<1>1. /\ b < DIRECT /\ ptr' = ptr /\ stack' \in Seq(Item)
      /\ Items(stack') = Cells(Inode, b, DIRECT - 1, 0) \cup WholeItems(0)
      /\ \A j \in b .. (DIRECT - 1) : <<Inode, j>> \in Cell
  BY DirectItems
<1>2. ASSUME NEW x \in Items(stack')
      PROVE  \E c, d : /\ x = CellItem(c, d) /\ c \in Ref(h)
                       /\ d = Height(h, c) /\ c[1] = Inode
  <2>1. CASE x \in Cells(Inode, b, DIRECT - 1, 0)
    <3>1. PICK j \in b .. (DIRECT - 1) : x = CellItem(<<Inode, j>>, 0)
      BY <2>1 DEF Cells
    <3>2. PICK c : c = <<Inode, j>>
      OBVIOUS
    <3>3. c \in Ref(h) /\ c[1] = Inode /\ c[2] = j
      BY <1>1, <3>2 DEF Ref
    <3>4. Height(h, c) = 0
      BY <3>3, Sizes DEF Height
    <3> QED BY <3>1, <3>2, <3>3, <3>4
  <2>2. CASE x \in WholeItems(0)
    <3>1. PICK m \in 0 .. 2 : x = CellItem(<<Inode, DIRECT + m>>, m + 1)
      BY <2>2 DEF WholeItems
    <3>2. PICK c, d : c = <<Inode, DIRECT + m>> /\ d = m + 1
      OBVIOUS
    <3>3. DIRECT + m \in 0 .. (DIRECT + DEPTH - 2) /\ ~ (DIRECT + m < DIRECT)
          /\ (DIRECT + m) - DIRECT + 1 = m + 1
      BY Sizes DEF DEPTH
    <3>4. c \in Ref(h) /\ c[1] = Inode /\ c[2] = DIRECT + m
      BY <3>2, <3>3 DEF Ref, Cell
    <3>5. d = Height(h, c)
      BY <3>2, <3>3, <3>4 DEF Height
    <3> QED BY <3>1, <3>2, <3>4, <3>5
  <2> QED BY <1>1, <2>1, <2>2
<1>3. \A k \in DOMAIN stack' : stack'[k] \in Items(stack')
  BY DEF Items
<1>4. CellsStarted(h, {})
  <2> SUFFICES ASSUME NEW k, NEW c, NEW d, CellAt(k, c, d)'
               PROVE  c \in Ref(h) /\ d = Height(h, c) /\ c[1] \in {} \cup {Inode}
    BY DEF CellsStarted
  <2>1. CellItem(c, d) \in Items(stack')
    BY <1>3 DEF CellAt
  <2>2. PICK a, e : /\ CellItem(c, d) = CellItem(a, e) /\ a \in Ref(h)
                    /\ e = Height(h, a) /\ a[1] = Inode
    BY <1>2, <2>1
  <2> QED BY <2>2, ItemKinds
<1>5. CutStarted(h, {})
  <2>1. ASSUME NEW k, NEW z, NEW d, TreeAt(k, z, d)' PROVE FALSE
    <3>1. TreeItem(z, d) \in Items(stack')
      BY <1>3, <2>1 DEF TreeAt
    <3> QED BY <1>2, <3>1, ItemKinds
  <2> QED BY <1>1, <2>1 DEF CutStarted
<1>6. KeptStarted(h, {})
  BY DEF KeptStarted
<1>7. Forest(h, {})'
  BY <1>4, <1>5, <1>6, StartedForest
<1> QED BY <1>1, <1>7

\* The chain that find_shared is given.
LEMMA SharedChain ==
  ASSUME NEW path, IsPath(path), NEW kk, kk = SharedDepth(path),
         NEW s, s = get_branch(ptr, SubSeq(path, 1, kk))
  PROVE  /\ kk \in 1 .. Len(path) /\ SubSeq(path, 1, kk) \in Seq(Nat)
         /\ IsBranch(ptr, SubSeq(path, 1, kk), s)
         /\ OnPath(ptr, path, s) /\ Len(s) <= kk
         /\ \A cut \in 1 .. (Len(s) - 1) : OnPath(ptr, path, SubSeq(s, 1, cut))
<1>1. kk \in 1 .. Len(path) /\ path \in Seq(Nat) /\ Len(path) \in 1 .. DEPTH
  BY SharedDepthIs DEF IsPath
<1>2. PICK q : q = SubSeq(path, 1, kk)
  OBVIOUS
<1>3. q \in Seq(Nat) /\ Len(q) = kk /\ \A i \in 1 .. kk : q[i] = path[i]
  BY <1>1, <1>2
<1>4. Len(q) \in 1 .. DEPTH /\ kk \in Nat /\ kk <= Len(path) /\ 1 <= kk
  <2>1. PICK m : m = Len(path)
    OBVIOUS
  <2>2. m \in 1 .. 4 /\ kk \in 1 .. m
    BY <1>1, <2>1 DEF DEPTH
  <2>3. kk \in 1 .. 4 /\ kk \in Nat /\ kk <= m /\ 1 <= kk
    BY <2>2
  <2> QED BY <1>3, <2>1, <2>3 DEF DEPTH
<1>5. IsBranch(ptr, q, s)
  BY <1>2, <1>3, <1>4, BranchIs
<1>6. Len(s) \in 1 .. kk /\ Len(s) \in Nat
  BY <1>3, <1>4, <1>5 DEF IsBranch
<1>7. OnPath(ptr, path, s)
  <2>1. IsCells(s) /\ s[1] = <<Inode, q[1]>>
        /\ \A n \in 2 .. Len(s) : ptr[s[n - 1]] \in Zone /\ s[n] = <<ptr[s[n - 1]], q[n]>>
    BY <1>5 DEF IsBranch
  <2>2. q[1] = path[1]
    BY <1>3, <1>4
  <2>3. \A n \in 2 .. Len(s) : q[n] = path[n]
    BY <1>3, <1>4, <1>6
  <2>4. Len(s) \in 1 .. Len(path)
    BY <1>1, <1>4, <1>6
  <2> QED BY <2>1, <2>2, <2>3, <2>4 DEF OnPath
<1>8. ASSUME NEW cut \in 1 .. (Len(s) - 1)
      PROVE  OnPath(ptr, path, SubSeq(s, 1, cut))
  <2>1. PICK t : t = SubSeq(s, 1, cut)
    OBVIOUS
  <2>2. s \in Seq(({Inode} \cup Zone) \X Nat)
    BY <1>7 DEF OnPath, IsCells
  <2>3. PICK X : X = ({Inode} \cup Zone) \X Nat
    OBVIOUS
  <2>4. s \in Seq(X)
    BY <2>2, <2>3
  <2>5. t \in Seq(X) /\ Len(t) = cut /\ \A i \in 1 .. cut : t[i] = s[i]
    BY <2>1, <2>4
  <2>6. IsCells(t)
    BY <2>3, <2>5 DEF IsCells
  <2>7. Len(t) \in 1 .. Len(path)
    BY <1>1, <1>4, <1>6, <2>5
  <2>8. t[1] = <<Inode, path[1]>>
    BY <1>7, <2>5 DEF OnPath
  <2>9. ASSUME NEW n \in 2 .. Len(t)
        PROVE  ptr[t[n - 1]] \in Zone /\ t[n] = <<ptr[t[n - 1]], path[n]>>
    <3>1. n \in 2 .. Len(s) /\ n \in 1 .. cut /\ n - 1 \in 1 .. cut
      BY <1>6, <2>5
    <3>2. t[n] = s[n] /\ t[n - 1] = s[n - 1]
      BY <2>5, <3>1
    <3> QED BY <1>7, <3>1, <3>2 DEF OnPath
  <2> QED BY <2>1, <2>6, <2>7, <2>8, <2>9 DEF OnPath
<1> QED BY <1>1, <1>2, <1>3, <1>4, <1>5, <1>6, <1>7, <1>8


LEMMA StartState ==
  ASSUME TypeOK, NEW h \in Heights, NEW K0 \in SUBSET Zone, Sound(h, K0),
         w \notin {"trunc", "chunking", "alloc"}
  PROVE  stack = <<>> /\ new = <<>> /\ EdgesOK(h) /\ ClaimedOK(h) /\ FilledOK(h)
BY DEF TypeOK, Truncating, Sound, Forest

\* However truncate is begun, with the blocks that stay it leaves a forest.
LEMMA TruncateForest ==
  ASSUME TypeOK, NEW h \in Heights, NEW K0 \in SUBSET Zone, Sound(h, K0),
         w \notin {"trunc", "chunking", "alloc"},
         own' = own, lost' = lost, new' = new,
         NEW b \in Nat, b < MaxBlocks,
         TruncateDirect(b) \/ TruncateIndirect(b) \/ TruncateReadError(b)
  PROVE  /\ stack' \in Seq(Item) /\ ptr' \in [Cell -> Pointer]
         /\ \E K \in SUBSET Zone : Forest(h, K)'
<1>1. stack = <<>> /\ EdgesOK(h) /\ ClaimedOK(h) /\ FilledOK(h)
  BY StartState
<1>2. CASE TruncateDirect(b)
  <2>1. stack' \in Seq(Item) /\ ptr' = ptr /\ Forest(h, {})'
    BY <1>1, <1>2, DirectForest
  <2>2. {} \in SUBSET Zone /\ ptr' \in [Cell -> Pointer]
    BY <2>1 DEF TypeOK
  <2> QED BY <2>1, <2>2
<1>3. PICK path : path = block_to_path(b)
  OBVIOUS
<1>4. IsPath(path)
  BY <1>3, PathIs
<1>5. PICK kk, s : kk = SharedDepth(path) /\ s = get_branch(ptr, SubSeq(path, 1, kk))
  OBVIOUS
<1>6. /\ OnPath(ptr, path, s)
      /\ \A cut \in 1 .. (Len(s) - 1) : OnPath(ptr, path, SubSeq(s, 1, cut))
  BY <1>4, <1>5, SharedChain
<1>7. CASE TruncateIndirect(b)
  <2>1. Len(path) > 1 /\ FindShared(path, kk, s)
    BY <1>3, <1>5, <1>7 DEF TruncateIndirect
  <2> QED BY <1>1, <1>4, <1>6, <2>1, SharedForest
<1>8. CASE TruncateReadError(b)
  <2>1. Len(path) > 1 /\ \E cut \in 1 .. (Len(s) - 1) : FindShared(path, kk, SubSeq(s, 1, cut))
    BY <1>3, <1>5, <1>8 DEF TruncateReadError
  <2>2. PICK cut \in 1 .. (Len(s) - 1) : FindShared(path, kk, SubSeq(s, 1, cut))
    BY <2>1
  <2>3. PICK t : t = SubSeq(s, 1, cut)
    OBVIOUS
  <2>4. OnPath(ptr, path, t) /\ FindShared(path, kk, t)
    BY <1>6, <2>2, <2>3
  <2> QED BY <1>1, <1>4, <2>1, <2>4, SharedForest
<1> QED BY <1>2, <1>7, <1>8

LEMMA WriteFailedSound ==
  ASSUME TypeOK, NEW h \in Heights, NEW K0 \in SUBSET Zone, Sound(h, K0), WriteFailed
  PROVE  TypeOK' /\ \E K \in SUBSET Zone : Sound(h, K)'
<1>1. PICK b : b = isize
  OBVIOUS
<1>2. /\ w = "failed" /\ w' = "trunc" /\ wb' = 0 /\ wend' = 0
      /\ TruncateDirect(b) \/ TruncateIndirect(b) \/ TruncateReadError(b)
      /\ free' = free /\ own' = own /\ lost' = lost /\ isize' = isize /\ new' = new
      /\ fsize' = fsize /\ block_to_path(b) # <<>>
  BY <1>1 DEF WriteFailed
<1>3. b \in Nat /\ b < MaxBlocks
  <2>1. b \in Nat /\ b <= MaxBlocks
    BY <1>1, Sizes DEF TypeOK
  <2> QED BY <1>2, <2>1, PathIs
<1>4. /\ stack' \in Seq(Item) /\ ptr' \in [Cell -> Pointer]
      /\ \E K \in SUBSET Zone : Forest(h, K)'
  BY <1>2, <1>3, TruncateForest
<1>5. NewOK(h)'
  BY <1>2 DEF NewOK
<1>6. new = <<>>
  BY <1>2 DEF TypeOK
<1>7. TypeOK'
  BY <1>2, <1>4, <1>6, Sizes DEF TypeOK, Truncating
<1> QED BY <1>4, <1>5, <1>7 DEF Sound

LEMMA ChunkSound ==
  ASSUME TypeOK, NEW h \in Heights, NEW K0 \in SUBSET Zone, Sound(h, K0), Chunk
  PROVE  TypeOK' /\ \E K \in SUBSET Zone : Sound(h, K)'
<1>2. /\ w = "idle" /\ w' = "chunking" /\ fsize' = isize /\ isize' = 0
      /\ TruncateDirect(0)
      /\ free' = free /\ own' = own /\ lost' = lost /\ new' = new
      /\ wb' = wb /\ wend' = wend
  BY DEF Chunk
<1>3. 0 < MaxBlocks
  BY <1>2, DirectIs, 0 \in Nat DEF TruncateDirect
<1>4. /\ stack' \in Seq(Item) /\ ptr' \in [Cell -> Pointer]
      /\ \E K \in SUBSET Zone : Forest(h, K)'
  BY <1>2, <1>3, TruncateForest, 0 \in Nat
<1>5. NewOK(h)'
  BY <1>2 DEF NewOK
<1>6. new = <<>>
  BY <1>2 DEF TypeOK
<1>7. TypeOK'
  BY <1>2, <1>4, <1>6, Sizes DEF TypeOK, Truncating
<1> QED BY <1>4, <1>5, <1>7 DEF Sound


-----------------------------------------------------------------------------
(* The other steps.                                                        *)

LEMMA QuietSound ==
  ASSUME TypeOK, NEW h \in Heights, NEW K \in SUBSET Zone, Sound(h, K),
         UNCHANGED <<ptr, own, lost, new, stack>>,
         w' = "alloc" => w = "alloc" /\ wb' = wb
  PROVE  Sound(h, K)'
<1>1. EdgesOK(h) /\ NewOK(h) /\ Forest(h, K)
  BY DEF Sound, Forest
<1>2. own' \ New' = own \ New /\ (\A c \in Ref(h) : ptr'[c] = ptr[c])
      /\ lost' = lost /\ stack' = stack
  BY DEF New
<1>3. Forest(h, K)'
  BY <1>1, <1>2, ForestStays
<1>4. NewOK(h)'
  <2>1. CASE w' = "alloc"
    <3>1. UNCHANGED <<own, lost, new, wb>> /\ (\A c \in Cell : c[1] \in New => ptr'[c] = ptr[c])
      BY <2>1
    <3> QED BY <1>1, <1>2, <2>1, <3>1, NewStays
  <2>2. CASE w' # "alloc"
    BY <2>2 DEF NewOK
  <2> QED BY <2>1, <2>2
<1> QED BY <1>3, <1>4 DEF Sound

LEMMA GetBlockHoleSound ==
  ASSUME TypeOK, NEW h \in Heights, NEW K \in SUBSET Zone, Sound(h, K), GetBlockHole
  PROVE  TypeOK' /\ Sound(h, K)'
<1>1. /\ w = "map" /\ wb < wend /\ Map(wb) = NoZone /\ w' = "alloc" /\ new' = <<>>
      /\ UNCHANGED <<treeVars, isize, errs, wb, wend, stack, fsize>>
  BY DEF GetBlockHole
<1>2. new = <<>> /\ stack = <<>>
  BY <1>1 DEF TypeOK, Truncating
<1>3. EdgesOK(h) /\ Forest(h, K)
  BY DEF Sound, Forest
<1>4. own' \ New' = own \ New /\ (\A c \in Ref(h) : ptr'[c] = ptr[c])
      /\ lost' = lost /\ stack' = stack /\ ptr' = ptr /\ wb' = wb
  BY <1>1, <1>2 DEF New, treeVars
<1>5. Forest(h, K)'
  BY <1>3, <1>4, ForestStays
<1>6. wb \in Block
  BY <1>1, Sizes DEF TypeOK, Block
<1>7. PICK path, s : path = block_to_path(wb) /\ s = get_branch(ptr, path)
  OBVIOUS
<1>8. IsBranch(ptr, path, s) /\ Len(path) \in 1 .. DEPTH
  BY <1>3, <1>6, <1>7, BranchRef
<1>9. 0 <= Left
  <2>1. PICK m, l : m = Len(path) /\ l = Len(s)
    OBVIOUS
  <2>2. m \in Nat
    BY <1>8, <2>1, UpTo4
  <2>3. l \in 1 .. m
    BY <1>8, <2>1 DEF IsBranch
  <2>4. Left = m - l + 1
    BY <1>7, <2>1 DEF Left
  <2> QED BY <2>2, <2>3, <2>4
<1>10. Left' = Left /\ Map(wb)' = Map(wb)
  BY <1>4 DEF Left, Map
<1>11. NewOK(h)'
  BY <1>1, <1>9, <1>10 DEF NewOK
<1>12. TypeOK'
  BY <1>1, <1>2 DEF TypeOK, Truncating, treeVars
<1> QED BY <1>5, <1>11, <1>12 DEF Sound

LEMMA OtherTakesSound ==
  ASSUME TypeOK, NEW h \in Heights, NEW K \in SUBSET Zone, Sound(h, K),
         NEW z \in Zone, OtherTakes(z)
  PROVE  TypeOK' /\ Sound(h, K)'
<1>1. /\ z \in free /\ free' = free \ {z}
      /\ ptr' = [c \in Cell |-> IF c[1] = z THEN Junk ELSE ptr[c]]
      /\ UNCHANGED <<own, lost, isize, errs, writerVars>>
  BY DEF OtherTakes
<1>2. EdgesOK(h) /\ NewOK(h) /\ Forest(h, K)
  BY DEF Sound, Forest
<1>3. z \notin own /\ z # Inode
  BY <1>1, BlockTreeAssumption DEF TypeOK
<1>4. \A c \in Cell : c[1] # z => ptr'[c] = ptr[c]
  BY <1>1
<1>5. \A c \in Ref(h) : ptr'[c] = ptr[c]
  BY <1>3, <1>4 DEF Ref, Node
<1>6. UNCHANGED <<own, lost, new, wb, w, stack>>
  BY <1>1 DEF writerVars
<1>7. own' \ New' = own \ New
  BY <1>6 DEF New
<1>8. Forest(h, K)'
  BY <1>2, <1>5, <1>6, <1>7, ForestStays
<1>9. NewOK(h)'
  <2>1. CASE w = "alloc"
    <3>1. New \subseteq own
      BY <1>2, <2>1 DEF NewOK, New
    <3>2. \A c \in Cell : c[1] \in New => ptr'[c] = ptr[c]
      BY <1>3, <1>4, <3>1
    <3> QED BY <1>2, <1>5, <1>6, <3>2, NewStays
  <2>2. CASE w # "alloc"
    BY <1>6, <2>2 DEF NewOK
  <2> QED BY <2>1, <2>2
<1>10. TypeOK'
  <2>1. ptr' \in [Cell -> Pointer]
    <3>1. Junk \in Pointer /\ \A c \in Cell : ptr[c] \in Pointer
      BY DEF Pointer, TypeOK
    <3> QED BY <1>1, <3>1
  <2> QED BY <1>1, <2>1 DEF TypeOK, Truncating, writerVars
<1> QED BY <1>8, <1>9, <1>10 DEF Sound

LEMMA WriterQuietSound ==
  ASSUME TypeOK, NEW h \in Heights, NEW K \in SUBSET Zone, Sound(h, K),
         \/ \E b \in WriteAt, n \in 1 .. MaxWrite : Write(b, n)
         \/ GetBlockFound \/ GetBlockError \/ WriteEnd \/ WriteFailedInside
         \/ TruncateEnd \/ \E s \in NewSizes : SetSize(s)
  PROVE  TypeOK' /\ Sound(h, K)'
<1> USE DEF treeVars, writerVars
<1>1. CASE \E b \in WriteAt, n \in 1 .. MaxWrite : Write(b, n)
  <2>1. PICK b \in WriteAt, n \in 1 .. MaxWrite : Write(b, n)
    BY <1>1
  <2>2. b \in Nat /\ b + n \in 0 .. MaxBlocks
    BY <2>1, BlockTreeAssumption, Sizes DEF Write
  <2>3. TypeOK'
    BY <2>1, <2>2 DEF Write, TypeOK, Truncating
  <2> QED BY <2>1, <2>3, QuietSound DEF Write
<1>2. CASE GetBlockFound
  <2>1. TypeOK'
    BY <1>2 DEF GetBlockFound, TypeOK, Truncating
  <2> QED BY <1>2, <2>1, QuietSound DEF GetBlockFound
<1>3. CASE GetBlockError
  <2>1. TypeOK'
    BY <1>3 DEF GetBlockError, TypeOK, Truncating
  <2> QED BY <1>3, <2>1, QuietSound DEF GetBlockError
<1>4. CASE WriteEnd
  <2>1. TypeOK'
    BY <1>4, Sizes DEF WriteEnd, TypeOK, Truncating
  <2> QED BY <1>4, <2>1, QuietSound DEF WriteEnd
<1>5. CASE WriteFailedInside
  <2>1. TypeOK'
    BY <1>5, Sizes DEF WriteFailedInside, TypeOK, Truncating
  <2> QED BY <1>5, <2>1, QuietSound DEF WriteFailedInside
<1>6. CASE TruncateEnd
  <2>1. TypeOK'
    BY <1>6 DEF TruncateEnd, TypeOK, Truncating
  <2>2. w' # "alloc"
    BY <1>6 DEF TruncateEnd
  <2> QED BY <1>6, <2>1, <2>2, QuietSound DEF TruncateEnd
<1>7. CASE \E s \in NewSizes : SetSize(s)
  <2>1. PICK s \in NewSizes : SetSize(s)
    BY <1>7
  <2>2. s \in 0 .. MaxBlocks
    BY BlockTreeAssumption
  <2>3. TypeOK'
    BY <2>1, <2>2 DEF SetSize, TypeOK, Truncating
  <2> QED BY <2>1, <2>3, QuietSound DEF SetSize
<1> QED BY <1>1, <1>2, <1>3, <1>4, <1>5, <1>6, <1>7

\* A reader changes nothing but its own state.
LEMMA ReaderQuiet ==
  ASSUME NEW r \in Reader, ReaderStep(r)
  PROVE  UNCHANGED <<treeVars, isize, errs, writerVars>>
BY DEF ReaderStep, ReadStart, ReadReturn, ReadError, VerifyChain, ChainChanged, AddChain,
       Return

LEMMA UnchangedSound ==
  ASSUME TypeOK, NEW h \in Heights, NEW K \in SUBSET Zone, Sound(h, K),
         UNCHANGED <<treeVars, isize, errs, writerVars>>
  PROVE  TypeOK' /\ Sound(h, K)'
<1> USE DEF treeVars, writerVars
<1>1. TypeOK'
  BY DEF TypeOK, Truncating
<1> QED BY <1>1, QuietSound

LEMMA OtherGivesSound ==
  ASSUME TypeOK, NEW h \in Heights, NEW K \in SUBSET Zone, Sound(h, K),
         NEW z \in Zone, OtherGives(z)
  PROVE  TypeOK' /\ Sound(h, K)'
<1> USE DEF writerVars
<1>1. TypeOK'
  BY DEF OtherGives, TypeOK, Truncating
<1> QED BY <1>1, QuietSound DEF OtherGives

-----------------------------------------------------------------------------
(* The invariant.                                                          *)

LEMMA InitInvariant ==
  ASSUME Init
  PROVE  IInv
<1>1. PICK h : h = [z \in Zone |-> 0]
  OBVIOUS
<1>2. h \in Heights /\ \A z \in Zone : h[z] = 0
  BY <1>1 DEF Heights
<1>3. TypeOK
  <2>1. NoZone \in Pointer /\ Junk \in Pointer
    BY DEF Pointer
  <2>2. ptr \in [Cell -> Pointer]
    BY <2>1 DEF Init
  <2> QED BY <2>2, Sizes DEF Init, TypeOK, Truncating
<1>4. stack = <<>> /\ own = {} /\ w # "alloc" /\ Node(h) = {}
  BY DEF Init, Node
<1>5. \A c \in Ref(h) : ptr[c] = NoZone
  BY <1>4 DEF Ref, Init
<1>6. \A k, c, d : ~ CellAt(k, c, d) /\ ~ TreeAt(k, c, d)
  BY <1>4, EmptyStack
<1>7. EdgesOK(h)
  BY <1>5, BlockTreeAssumption DEF EdgesOK
<1>8. ClaimedOK(h) /\ FilledOK(h) /\ NewOK(h)
  BY <1>4 DEF ClaimedOK, FilledOK, NewOK
<1>9. CellsOK(h, {}) /\ TreesOK(h) /\ KeptOK(h, {})
  BY <1>6 DEF CellsOK, TreesOK, KeptOK
<1> QED BY <1>2, <1>3, <1>7, <1>8, <1>9 DEF IInv, Sound, Forest

LEMMA StepInvariant ==
  ASSUME IInv, [Next]_vars
  PROVE  IInv'
<1>1. TypeOK
  BY DEF IInv
<1>2. PICK h \in Heights, K \in SUBSET Zone : Sound(h, K)
  BY DEF IInv
<1> SUFFICES TypeOK' /\ \E g \in Heights, L \in SUBSET Zone : Sound(g, L)'
  BY DEF IInv
<1>3. CASE UNCHANGED vars
  <2>1. UNCHANGED <<treeVars, isize, errs, writerVars>>
    BY <1>3 DEF vars, treeVars, writerVars
  <2> QED BY <1>1, <1>2, <2>1, UnchangedSound
<1>4. ASSUME NEW r \in Reader, ReaderStep(r) 
      PROVE  TypeOK' /\ \E g \in Heights, L \in SUBSET Zone : Sound(g, L)'
  BY <1>1, <1>2, <1>4, ReaderQuiet, UnchangedSound
<1>5. ASSUME NEW z \in Zone, OtherTakes(z) \/ OtherGives(z)
      PROVE  TypeOK' /\ \E g \in Heights, L \in SUBSET Zone : Sound(g, L)'
  BY <1>1, <1>2, <1>5, OtherTakesSound, OtherGivesSound
<1>6. CASE Writer
  <2>1. CASE \/ \E b \in WriteAt, n \in 1 .. MaxWrite : Write(b, n)
             \/ GetBlockFound \/ GetBlockError \/ WriteEnd \/ WriteFailedInside
             \/ TruncateEnd \/ \E s \in NewSizes : SetSize(s)
    BY <1>1, <1>2, <2>1, WriterQuietSound
  <2>2. CASE GetBlockHole
    BY <1>1, <1>2, <2>2, GetBlockHoleSound
  <2>3. CASE AllocBlock
    BY <1>1, <1>2, <2>3, AllocBlockSound
  <2>4. CASE AllocFail
    BY <1>1, <1>2, <2>4, AllocFailSound
  <2>5. CASE SpliceBranch
    <3>1. {} \in SUBSET Zone
      OBVIOUS
    <3> QED BY <1>1, <1>2, <2>5, <3>1, SpliceBranchSound
  <2>6. CASE WriteFailed
    BY <1>1, <1>2, <2>6, WriteFailedSound
  <2>7. CASE Chunk
    BY <1>1, <1>2, <2>7, ChunkSound
  <2>8. CASE ClearCell
    BY <1>1, <1>2, <2>8, ClearHoleSound, ClearZoneSound
  <2>9. CASE Descend
    BY <1>1, <1>2, <2>9, DescendSound
  <2>10. CASE DescendError
    BY <1>1, <1>2, <2>10, DescendErrorSound
  <2>11. CASE FreeZone
    BY <1>1, <1>2, <2>11, FreeZoneSound
  <2> QED BY <1>6, <2>1, <2>2, <2>3, <2>4, <2>5, <2>6, <2>7, <2>8, <2>9, <2>10, <2>11
          DEF Writer
<1> QED BY <1>3, <1>4, <1>5, <1>6 DEF Next

\* The zones of the file hang together at every step of get_block, of
\* alloc_branch and splice_branch and of truncate, whatever other files take
\* and give back and whichever sb_bread fails.
THEOREM Invariant == Spec => []IInv
<1>1. Init => IInv
  BY InitInvariant
<1>2. IInv /\ [Next]_vars => IInv'
  BY StepInvariant
<1> QED BY <1>1, <1>2, PTL DEF Spec


-----------------------------------------------------------------------------
(* The tree and what is in it.                                             *)

Root(n) == ptr[<<Inode, DIRECT + n>>]

LEMMA TreeIs ==
  ASSUME NEW y
  PROVE  /\ y \in Tree <=>
              \/ \E j \in 0 .. (DIRECT - 1) : y \in Zone /\ y = ptr[<<Inode, j>>]
              \/ \E n \in 0 .. 2 : Root(n) \in Zone /\ y \in Below(Root(n), n + 1)
         /\ y \in Indirects <=>
              \E n \in 0 .. 2 : Root(n) \in Zone /\ y \in Below(Root(n), n)
<1> DEFINE D(j) == {ptr[<<Inode, j>>]} \cap Zone
           B(n) == IF Root(n) \in Zone THEN Below(Root(n), n + 1) ELSE {}
           I(n) == IF Root(n) \in Zone THEN Below(Root(n), n) ELSE {}
<1>1. Tree = UNION ({D(j) : j \in 0 .. (DIRECT - 1)} \cup {B(n) : n \in 0 .. 2})
  BY DEF Tree, Root, DEPTH
<1>2. Indirects = UNION {I(n) : n \in 0 .. 2}
  BY DEF Indirects, Root, DEPTH
<1>3. \A j : y \in D(j) <=> y \in Zone /\ y = ptr[<<Inode, j>>]
  OBVIOUS
<1>4. \A n : y \in B(n) <=> Root(n) \in Zone /\ y \in Below(Root(n), n + 1)
  OBVIOUS
<1>5. \A n : y \in I(n) <=> Root(n) \in Zone /\ y \in Below(Root(n), n)
  OBVIOUS
<1> HIDE DEF D, B, I
<1>6. y \in Tree <=> (\E j \in 0 .. (DIRECT - 1) : y \in D(j)) \/ \E n \in 0 .. 2 : y \in B(n)
  BY <1>1
<1>7. y \in Indirects <=> \E n \in 0 .. 2 : y \in I(n)
  BY <1>2
<1> QED BY <1>3, <1>4, <1>5, <1>6, <1>7

LEMMA RootIs ==
  ASSUME TypeOK, NEW h \in Heights, EdgesOK(h), NEW j \in 0 .. (DIRECT + 2),
         NEW z, z = ptr[<<Inode, j>>], z \in Zone
  PROVE  /\ <<Inode, j>> \in Ref(h) /\ z \in own \ New /\ z \notin lost
         /\ h[z] = IF j < DIRECT THEN 0 ELSE j - DIRECT + 1
<1>1. PICK c : c = <<Inode, j>>
  OBVIOUS
<1>2. c \in Ref(h) /\ c[1] = Inode /\ c[2] = j
  BY <1>1 DEF Ref, Cell, DEPTH
<1>3. ptr[c] = z /\ z # NoZone /\ Inode \notin lost
  BY <1>1, BlockTreeAssumption DEF TypeOK
<1>4. z \in own \ New /\ h[z] = Height(h, c) /\ (z \in lost <=> c[1] \in lost)
  BY <1>2, <1>3 DEF EdgesOK
<1> QED BY <1>1, <1>2, <1>3, <1>4 DEF Height

\* The tree is closed under the pointers of the file, and none of it is lost.
LEMMA TreeForest ==
  ASSUME TypeOK, NEW h \in Heights, EdgesOK(h)
  PROVE  /\ \A y \in Tree : y \in own \ New /\ y \notin lost
         /\ \A c \in Ref(h) :
              (c[1] = Inode \/ c[1] \in Tree) /\ ptr[c] \in Zone => ptr[c] \in Tree
         /\ \A z \in Indirects : z \in Node(h) \ lost
<1>1. ASSUME NEW n \in 0 .. 2, Root(n) \in Zone
      PROVE  /\ Root(n) \in own \ New /\ Root(n) \notin lost /\ h[Root(n)] = n + 1
             /\ n \in 0 .. 3 /\ n + 1 \in 0 .. 3 /\ n <= h[Root(n)] /\ n + 1 <= h[Root(n)]
             /\ h[Root(n)] - (n + 1) = 0 /\ h[Root(n)] - n = 1
  <2>1. PICK j : j = DIRECT + n
    OBVIOUS
  <2>2. j \in 0 .. (DIRECT + 2) /\ ~ (j < DIRECT) /\ j - DIRECT + 1 = n + 1
    BY <2>1, Sizes
  <2>3. PICK z : z = Root(n)
    OBVIOUS
  <2>4. z = ptr[<<Inode, j>>] /\ z \in Zone
    BY <1>1, <2>1, <2>3 DEF Root
  <2>5. z \in own \ New /\ z \notin lost /\ h[z] = n + 1
    BY <2>2, <2>4, RootIs
  <2> QED BY <2>3, <2>5
<1>2. ASSUME NEW y \in Tree
      PROVE  /\ y \in own \ New /\ y \notin lost
             /\ h[y] > 0 => \E n \in 0 .. 2 : Root(n) \in Zone /\ y \in Below(Root(n), n + 1)
  <2>1. CASE \E j \in 0 .. (DIRECT - 1) : y \in Zone /\ y = ptr[<<Inode, j>>]
    <3>1. PICK j \in 0 .. (DIRECT - 1) : y \in Zone /\ y = ptr[<<Inode, j>>]
      BY <2>1
    <3>2. j \in 0 .. (DIRECT + 2) /\ j < DIRECT
      BY Sizes
    <3> QED BY <3>1, <3>2, RootIs
  <2>2. CASE \E n \in 0 .. 2 : Root(n) \in Zone /\ y \in Below(Root(n), n + 1)
    <3>1. PICK n \in 0 .. 2 : Root(n) \in Zone /\ y \in Below(Root(n), n + 1)
      BY <2>2
    <3>2. y \in own \ New /\ (y \in lost <=> Root(n) \in lost)
      BY <1>1, <3>1, BelowForest
    <3> QED BY <1>1, <2>2, <3>1, <3>2
  <2> QED BY <2>1, <2>2, TreeIs
<1>3. ASSUME NEW c \in Ref(h), c[1] = Inode \/ c[1] \in Tree, ptr[c] \in Zone
      PROVE  ptr[c] \in Tree
  <2>1. CASE c[1] = Inode
    <3>1. c = <<Inode, c[2]>> /\ c[2] \in 0 .. (DIRECT + 2)
      BY <2>1, BlockTreeAssumption DEF Ref, Cell, DEPTH
    <3>2. CASE c[2] < DIRECT
      <4>1. c[2] \in 0 .. (DIRECT - 1)
        BY <3>1, <3>2, Sizes
      <4> QED BY <1>3, <3>1, <4>1, TreeIs
    <3>3. CASE ~ (c[2] < DIRECT)
      <4>1. PICK n : n = c[2] - DIRECT
        OBVIOUS
      <4>2. n \in 0 .. 2 /\ c[2] = DIRECT + n
        BY <3>1, <3>3, <4>1, Sizes
      <4>3. Root(n) = ptr[c]
        BY <3>1, <4>2 DEF Root
      <4>4. Root(n) \in Below(Root(n), n + 1)
        BY <1>1, <1>3, <4>2, <4>3, BelowForest
      <4> QED BY <1>3, <4>2, <4>3, <4>4, TreeIs
    <3> QED BY <3>2, <3>3
  <2>2. CASE c[1] # Inode
    <3>1. c[1] \in Node(h) /\ c[1] \in Tree
      BY <1>3, <2>2 DEF Ref
    <3>2. h[c[1]] > 0
      BY <3>1 DEF Node
    <3>3. PICK n \in 0 .. 2 : Root(n) \in Zone /\ c[1] \in Below(Root(n), n + 1)
      BY <1>2, <3>1, <3>2
    <3>4. PICK z, e : z = Root(n) /\ e = n + 1
      OBVIOUS
    <3>5. z \in own \ New /\ e \in 0 .. 3 /\ e <= h[z] /\ h[z] - e = 0 /\ c[1] \in Below(z, e)
      BY <1>1, <3>3, <3>4
    <3>6. ptr[c] \in Below(z, e)
      BY <1>3, <3>2, <3>5, BelowForest
    <3> QED BY <3>3, <3>4, <3>6, TreeIs
  <2> QED BY <2>1, <2>2
<1>4. ASSUME NEW y \in Indirects
      PROVE  y \in Node(h) \ lost
  <2>1. PICK n \in 0 .. 2 : Root(n) \in Zone /\ y \in Below(Root(n), n)
    BY TreeIs
  <2>2. PICK z : z = Root(n)
    OBVIOUS
  <2>3. z \in own \ New /\ n \in 0 .. 3 /\ n <= h[z] /\ h[z] - n = 1 /\ y \in Below(z, n)
        /\ z \notin lost
    BY <1>1, <2>1, <2>2
  <2>4. y \in own \ New /\ h[y] \in Int /\ 1 <= h[y] /\ y \notin lost
    BY <2>3, BelowForest
  <2> QED BY <2>4 DEF Node
<1> QED BY <1>2, <1>3, <1>4

LEMMA InvariantTree ==
  ASSUME IInv
  PROVE  TreeSound
<1>1. TypeOK
  BY DEF IInv
<1>2. PICK h \in Heights, K \in SUBSET Zone : Sound(h, K)
  BY DEF IInv
<1>3. EdgesOK(h)
  BY <1>2 DEF Sound, Forest
<1>4. Tree \subseteq own \ free
  BY <1>1, <1>3, TreeForest DEF TypeOK
<1>5. TreeCells \subseteq Ref(h)
  <2>1. \A c \in TreeCells : c \in Cell /\ (c[1] \in Indirects \/ c[1] = Inode)
    BY DEF TreeCells
  <2> QED BY <1>1, <1>3, <2>1, TreeForest DEF Ref
<1>6. \A c, d \in {e \in TreeCells : ptr[e] \in Zone} : ptr[c] = ptr[d] => c = d
  BY <1>3, <1>5 DEF EdgesOK
<1> QED BY <1>4, <1>6 DEF TreeSound

LEMMA InvariantLeak ==
  ASSUME IInv
  PROVE  NoLeak
<1>1. TypeOK
  BY DEF IInv
<1>2. PICK h \in Heights, K \in SUBSET Zone : Sound(h, K)
  BY DEF IInv
<1>3. EdgesOK(h) /\ ClaimedOK(h)
  BY <1>2 DEF Sound, Forest
<1> SUFFICES ASSUME w \in {"idle", "chunked"}
             PROVE  own \subseteq Tree \cup lost
  BY DEF NoLeak
<1>4. new = <<>> /\ stack = <<>>
  BY <1>1 DEF TypeOK, Truncating
<1>5. New = {} /\ \A z : ~ Cut(z)
  BY <1>4, EmptyStack DEF New
<1>6. ASSUME NEW y \in own \ lost
      PROVE  \E c \in Ref(h) :
               /\ ptr[c] = y /\ y \in Zone
               /\ \/ c[1] = Inode
                  \/ c[1] \in own \ lost /\ h[c[1]] = h[y] + 1
  <2>1. PICK c \in Ref(h) : ptr[c] = y
    BY <1>3, <1>5 DEF ClaimedOK
  <2>2. y \in Zone /\ y # NoZone
    BY <1>1, BlockTreeAssumption DEF TypeOK
  <2>3. h[y] = Height(h, c) /\ c[1] \notin lost
    BY <1>3, <2>1, <2>2 DEF EdgesOK
  <2>4. c[1] # Inode => c[1] \in own /\ h[c[1]] = h[y] + 1
    <3>1. c[1] # Inode => c[1] \in own /\ h[y] = h[c[1]] - 1
      BY <2>3 DEF Ref, Node, Height
    <3>2. \A z \in own : h[z] \in 0 .. 3
      BY <1>1 DEF TypeOK, Heights
    <3> QED BY <3>1, <3>2
  <2> QED BY <2>1, <2>2, <2>3, <2>4
<1> DEFINE P(n) == \A y \in own \ lost : h[y] = n => y \in Tree
<1>7. ASSUME NEW n \in 0 .. 3, n < 3 => P(n + 1)
      PROVE  P(n)
  <2> SUFFICES ASSUME NEW y \in own \ lost, h[y] = n
               PROVE  y \in Tree
    OBVIOUS
  <2>1. PICK c \in Ref(h) : /\ ptr[c] = y /\ y \in Zone
                            /\ \/ c[1] = Inode
                               \/ c[1] \in own \ lost /\ h[c[1]] = h[y] + 1
    BY <1>6
  <2>2. c[1] = Inode \/ c[1] \in Tree
    <3> SUFFICES ASSUME c[1] \in own \ lost, h[c[1]] = n + 1
                 PROVE  c[1] \in Tree
      BY <2>1
    <3>1. h[c[1]] \in 0 .. 3
      BY <1>1 DEF TypeOK, Heights
    <3> QED BY <1>7, <3>1
  <2> QED BY <1>1, <1>3, <2>1, <2>2, TreeForest
<1> HIDE DEF P
<1>8. P(3)
  BY <1>7
<1>9. P(2)
  BY <1>7, <1>8, 2 + 1 = 3
<1>10. P(1)
  BY <1>7, <1>9, 1 + 1 = 2
<1>11. P(0)
  BY <1>7, <1>10, 0 + 1 = 1
<1>12. \A y \in own : h[y] = 0 \/ h[y] = 1 \/ h[y] = 2 \/ h[y] = 3
  BY <1>1 DEF TypeOK, Heights
<1> QED BY <1>8, <1>9, <1>10, <1>11, <1>12 DEF P

LEMMA InvariantFilled ==
  ASSUME IInv
  PROVE  NoEmptyIndirect
<1>1. TypeOK
  BY DEF IInv
<1>2. PICK h \in Heights, K \in SUBSET Zone : Sound(h, K)
  BY DEF IInv
<1>3. EdgesOK(h) /\ FilledOK(h)
  BY <1>2 DEF Sound, Forest
<1> SUFFICES ASSUME w = "idle", NEW z \in Indirects
             PROVE  \E j \in Index : ptr[<<z, j>>] \in Zone
  BY DEF NoEmptyIndirect
<1>4. stack = <<>>
  BY <1>1 DEF TypeOK, Truncating
<1>5. ~ Cut(z)
  BY <1>4, EmptyStack
<1>6. z \in Node(h) \ lost
  BY <1>1, <1>3, TreeForest
<1> QED BY <1>3, <1>5, <1>6 DEF FilledOK

\* The pointers, the bookkeeping of zones and the stack of truncate have
\* their types; a zone is never free and allocated for the file at once.
THEOREM TypeCorrect == Spec => []TypeOK
<1>1. IInv => TypeOK
  BY DEF IInv
<1> QED BY <1>1, Invariant, PTL

\* The file points to no zone that cominix_free_block has given back, and to
\* none through two pointers, in the middle of alloc_branch, splice_branch,
\* find_shared and free_branches too.
THEOREM TreeIsSound == Spec => []TreeSound
BY InvariantTree, Invariant, PTL

\* When a write, a failed write or a truncate is over, the tree holds every
\* zone allocated for the file but those that a failed sb_bread cut off.
THEOREM NothingLeaks == Spec => []NoLeak
BY InvariantLeak, Invariant, PTL

\* find_shared leaves no indirect block without a pointer: it cuts the tree
\* where the last pointer in front of the path is.
THEOREM NothingIsEmpty == Spec => []NoEmptyIndirect
BY InvariantFilled, Invariant, PTL


-----------------------------------------------------------------------------
(* The order of blocks and of the paths to them.                           *)

\* The paths of the four kinds of blocks; x counts within the kind.
Direct(b, path) == b < DIRECT /\ path = <<b>>
Single(b, x, path) == x = b - DIRECT /\ 0 <= x /\ x < IndirCount /\ path = <<DIRECT, x>>
Double(b, x, path) ==
  /\ x = b - DIRECT - IndirCount /\ 0 <= x /\ x < IndirCount * IndirCount
  /\ path = <<DIRECT + 1, x \div IndirCount, x % IndirCount>>
Triple(b, x, path) ==
  /\ x = b - DIRECT - IndirCount - IndirCount * IndirCount /\ 0 <= x
  /\ path = <<DIRECT + 2, (x \div IndirCount) \div IndirCount,
              (x \div IndirCount) % IndirCount, x % IndirCount>>

LEMMA PathKinds ==
  ASSUME NEW b \in Nat, b < MaxBlocks, NEW path, path = block_to_path(b)
  PROVE  \/ Direct(b, path)
         \/ \E x \in Nat : Single(b, x, path) \/ Double(b, x, path) \/ Triple(b, x, path)
<1>0. IndirCount * IndirCount \in Nat /\ ~ (b >= MaxBlocks) /\ IndirCount \in Nat /\ DIRECT \in Nat
  BY Sizes
<1>1. CASE b < DIRECT
  BY <1>0, <1>1 DEF block_to_path, Direct
<1>2. PICK b1, b2, b3 : /\ b1 = b - DIRECT /\ b2 = b1 - IndirCount
                        /\ b3 = b2 - IndirCount * IndirCount
  OBVIOUS
<1>3. CASE ~ (b < DIRECT) /\ b1 < IndirCount
  <2>1. path = <<DIRECT, b1>>
    BY <1>0, <1>2, <1>3 DEF block_to_path
  <2>2. b1 \in Nat /\ 0 <= b1
    BY <1>0, <1>2, <1>3
  <2> QED BY <1>2, <1>3, <2>1, <2>2 DEF Single
<1>4. CASE ~ (b < DIRECT) /\ ~ (b1 < IndirCount) /\ b2 < IndirCount * IndirCount
  <2>1. path = <<DIRECT + 1, b2 \div IndirCount, b2 % IndirCount>>
    BY <1>0, <1>2, <1>4 DEF block_to_path
  <2>2. b2 \in Nat /\ 0 <= b2 /\ b2 = b - DIRECT - IndirCount
    BY <1>0, <1>2, <1>4
  <2> QED BY <1>4, <2>1, <2>2 DEF Double
<1>5. CASE ~ (b < DIRECT) /\ ~ (b1 < IndirCount) /\ ~ (b2 < IndirCount * IndirCount)
  <2>1. path = <<DIRECT + 2, (b3 \div IndirCount) \div IndirCount,
                 (b3 \div IndirCount) % IndirCount, b3 % IndirCount>>
    BY <1>0, <1>2, <1>5 DEF block_to_path
  <2>2. b3 \in Nat /\ 0 <= b3 /\ b3 = b - DIRECT - IndirCount - IndirCount * IndirCount
    BY <1>0, <1>2, <1>5
  <2> QED BY <2>1, <2>2 DEF Triple
<1> QED BY <1>1, <1>3, <1>4, <1>5

LEMMA DivOrder ==
  ASSUME NEW a \in Nat, NEW b \in Nat, a < b
  PROVE  \/ a \div IndirCount < b \div IndirCount
         \/ a \div IndirCount = b \div IndirCount /\ a % IndirCount < b % IndirCount
<1>1. PICK p, q, r, s : /\ p = a \div IndirCount /\ r = a % IndirCount
                        /\ q = b \div IndirCount /\ s = b % IndirCount
  OBVIOUS
<1>2. /\ p \in Nat /\ q \in Nat /\ r \in Nat /\ s \in Nat /\ r < IndirCount /\ s < IndirCount
      /\ a = IndirCount * p + r /\ b = IndirCount * q + s
  BY <1>1, DivMod, Sizes DEF Index
<1>3. p < q \/ (p = q /\ r < s)
  <2>1. ASSUME p > q PROVE FALSE
    <3>1. p - q \in Nat \ {0}
      BY <1>2, <2>1
    <3>2. IndirCount * p = IndirCount * q + IndirCount * (p - q)
      BY <1>2, Sizes
    <3>3. IndirCount * (p - q) >= IndirCount
      BY <3>1, Sizes
    <3>4. IndirCount * p \in Nat /\ IndirCount * q \in Nat /\ IndirCount * (p - q) \in Nat
      BY <1>2, <3>1, Sizes
    <3> QED BY <1>2, <3>2, <3>3, <3>4, Sizes
  <2>2. ASSUME p = q PROVE r < s
    BY <1>2, <2>2, Sizes
  <2>3. p \in Nat /\ q \in Nat
    BY <1>2
  <2>4. p < q \/ p = q \/ p > q
    BY <2>3
  <2> QED BY <2>1, <2>2, <2>4
<1> QED BY <1>1, <1>3

\* The order in which the paths come.
Before(p, q) ==
  \/ Len(p) < Len(q)
  \/ /\ Len(p) = Len(q)
     /\ \E i \in DOMAIN p : p[i] < q[i] /\ \A j \in 1 .. (i - 1) : p[j] = q[j]

\* Blocks come in the order of their paths.
LEMMA PathOrder ==
  ASSUME NEW a \in Nat, NEW b \in Nat, a < b, b < MaxBlocks,
         NEW p, NEW q, p = block_to_path(a), q = block_to_path(b)
  PROVE  Before(p, q)
<1>0. /\ IndirCount * IndirCount \in Nat /\ IndirCount \in Nat /\ DIRECT \in Nat
      /\ a < MaxBlocks
  BY Sizes
<1>n. /\ \A x : Len(<<x>>) = 1 /\ DOMAIN <<x>> = 1 .. 1
      /\ \A x, y : Len(<<x, y>>) = 2 /\ DOMAIN <<x, y>> = 1 .. 2
      /\ \A x, y, z : Len(<<x, y, z>>) = 3 /\ DOMAIN <<x, y, z>> = 1 .. 3
      /\ \A x, y, z, u : Len(<<x, y, z, u>>) = 4 /\ DOMAIN <<x, y, z, u>> = 1 .. 4
  OBVIOUS
<1>1. CASE Direct(a, p)
  <2>1. CASE Direct(b, q)
    <3>1. p = <<a>> /\ q = <<b>>
      BY <1>1, <2>1 DEF Direct
    <3>2. 1 \in DOMAIN p /\ p[1] < q[1] /\ \A j \in 1 .. (1 - 1) : p[j] = q[j]
      BY <3>1
    <3> QED BY <1>n, <3>1, <3>2 DEF Before
  <2>2. CASE \E x \in Nat : Single(b, x, q) \/ Double(b, x, q) \/ Triple(b, x, q)
    <3>1. Len(q) = 2 \/ Len(q) = 3 \/ Len(q) = 4
      BY <1>n, <2>2 DEF Single, Double, Triple
    <3>2. Len(p) = 1
      BY <1>1 DEF Direct
    <3> QED BY <3>1, <3>2 DEF Before
  <2> QED BY <2>1, <2>2, PathKinds
<1>2. ASSUME NEW x \in Nat, Single(a, x, p)
      PROVE  Before(p, q)
  <2>1. p = <<DIRECT, x>> /\ x = a - DIRECT /\ 0 <= x /\ Len(p) = 2 /\ DOMAIN p = 1 .. 2
    BY <1>2, <1>n DEF Single
  <2>2. ASSUME Direct(b, q) PROVE FALSE
    BY <1>0, <2>1, <2>2 DEF Direct
  <2>3. ASSUME NEW y \in Nat, Single(b, y, q) PROVE Before(p, q)
    <3>1. q = <<DIRECT, y>> /\ y = b - DIRECT /\ Len(q) = 2
      BY <2>3, <1>n DEF Single
    <3>2. p[1] = q[1] /\ p[2] < q[2]
      BY <1>0, <2>1, <3>1
    <3>3. 2 \in DOMAIN p /\ \A j \in 1 .. (2 - 1) : p[j] = q[j]
      BY <2>1, <3>2
    <3> QED BY <2>1, <3>1, <3>2, <3>3 DEF Before
  <2>4. ASSUME NEW y \in Nat, Double(b, y, q) \/ Triple(b, y, q) PROVE Before(p, q)
    <3>1. Len(q) = 3 \/ Len(q) = 4
      BY <2>4, <1>n DEF Double, Triple
    <3>2. Len(p) = 2
      BY <2>1
    <3>3. \A m : m = 3 \/ m = 4 => 2 < m
      OBVIOUS
    <3>4. 2 < Len(q)
      BY <3>1, <3>3, Zenon
    <3> QED BY <3>2, <3>4, Zenon DEF Before
  <2> QED BY <2>2, <2>3, <2>4, PathKinds
<1>3. ASSUME NEW x \in Nat, Double(a, x, p)
      PROVE  Before(p, q)
  <2>1. PICK u, r : u = x \div IndirCount /\ r = x % IndirCount
    OBVIOUS
  <2>2. /\ p = <<DIRECT + 1, u, r>> /\ x = a - DIRECT - IndirCount /\ 0 <= x
        /\ Len(p) = 3 /\ DOMAIN p = 1 .. 3
    BY <1>3, <1>n, <2>1 DEF Double
  <2>3. ASSUME NEW y \in Nat, Direct(b, q) \/ Single(b, y, q) PROVE FALSE
    BY <1>0, <2>2, <2>3 DEF Direct, Single
  <2>4. ASSUME NEW y \in Nat, Double(b, y, q) PROVE Before(p, q)
    <3>1. PICK v, s : v = y \div IndirCount /\ s = y % IndirCount
      OBVIOUS
    <3>2. q = <<DIRECT + 1, v, s>> /\ y = b - DIRECT - IndirCount /\ Len(q) = 3
      BY <2>4, <1>n, <3>1 DEF Double
    <3>3. x < y
      BY <1>0, <2>2, <3>2
    <3>4. u < v \/ (u = v /\ r < s)
      <4>1. \/ x \div IndirCount < y \div IndirCount
            \/ x \div IndirCount = y \div IndirCount /\ x % IndirCount < y % IndirCount
        BY <3>3, DivOrder
      <4> QED BY <2>1, <3>1, <4>1
    <3>5. p[1] = q[1] /\ p[2] = u /\ q[2] = v /\ p[3] = r /\ q[3] = s
      BY <2>2, <3>2
    <3>6. CASE u < v
      <4>1. 2 \in DOMAIN p /\ \A j \in 1 .. (2 - 1) : p[j] = q[j]
        BY <2>2, <3>5
      <4> QED BY <2>2, <3>2, <3>5, <3>6, <4>1 DEF Before
    <3>7. CASE u = v /\ r < s
      <4>1. 3 \in DOMAIN p /\ \A j \in 1 .. (3 - 1) : j = 1 \/ j = 2
        BY <2>2
      <4> QED BY <2>2, <3>2, <3>5, <3>7, <4>1 DEF Before
    <3> QED BY <3>4, <3>6, <3>7
  <2>5. ASSUME NEW y \in Nat, Triple(b, y, q) PROVE Before(p, q)
    <3>1. Len(q) = 4
      BY <2>5, <1>n DEF Triple
    <3> QED BY <2>2, <3>1 DEF Before
  <2> QED BY <2>3, <2>4, <2>5, PathKinds, 0 \in Nat
<1>4. ASSUME NEW x \in Nat, Triple(a, x, p)
      PROVE  Before(p, q)
  <2>1. PICK t, u, m, r : /\ t = x \div IndirCount /\ u = t \div IndirCount
                          /\ m = t % IndirCount /\ r = x % IndirCount
    OBVIOUS
  <2>2. /\ p = <<DIRECT + 2, u, m, r>> /\ 0 <= x
        /\ x = a - DIRECT - IndirCount - IndirCount * IndirCount
        /\ Len(p) = 4 /\ DOMAIN p = 1 .. 4
    BY <1>4, <1>n, <2>1 DEF Triple
  <2>3. ASSUME NEW y \in Nat, Direct(b, q) \/ Single(b, y, q) \/ Double(b, y, q) PROVE FALSE
    BY <1>0, <2>2, <2>3 DEF Direct, Single, Double
  <2>4. ASSUME NEW y \in Nat, Triple(b, y, q) PROVE Before(p, q)
    <3>1. PICK o, v, n, s : /\ o = y \div IndirCount /\ v = o \div IndirCount
                            /\ n = o % IndirCount /\ s = y % IndirCount
      OBVIOUS
    <3>2. /\ q = <<DIRECT + 2, v, n, s>> /\ Len(q) = 4
          /\ y = b - DIRECT - IndirCount - IndirCount * IndirCount
      BY <2>4, <1>n, <3>1 DEF Triple
    <3>3. x < y
      BY <1>0, <2>2, <3>2
    <3>4. t < o \/ (t = o /\ r < s)
      <4>1. \/ x \div IndirCount < y \div IndirCount
            \/ x \div IndirCount = y \div IndirCount /\ x % IndirCount < y % IndirCount
        BY <3>3, DivOrder
      <4> QED BY <2>1, <3>1, <4>1
    <3>5. t \in Nat /\ o \in Nat
      BY <2>1, <3>1, DivIndex
    <3>6. u < v \/ (u = v /\ m < n) \/ (u = v /\ m = n /\ r < s)
      <4>1. t < o => u < v \/ (u = v /\ m < n)
        <5>1. t < o =>
                \/ t \div IndirCount < o \div IndirCount
                \/ t \div IndirCount = o \div IndirCount /\ t % IndirCount < o % IndirCount
          BY <3>5, DivOrder
        <5> QED BY <2>1, <3>1, <5>1
      <4>2. t = o => u = v /\ m = n
        BY <2>1, <3>1
      <4> QED BY <3>4, <4>1, <4>2
    <3>7. /\ p[1] = q[1] /\ p[2] = u /\ q[2] = v /\ p[3] = m /\ q[3] = n
          /\ p[4] = r /\ q[4] = s
      BY <2>2, <3>2
    <3>8. CASE u < v
      <4>1. 2 \in DOMAIN p /\ \A j \in 1 .. (2 - 1) : j = 1
        BY <2>2
      <4> QED BY <2>2, <3>2, <3>7, <3>8, <4>1 DEF Before
    <3>9. CASE u = v /\ m < n
      <4>1. 3 \in DOMAIN p /\ \A j \in 1 .. (3 - 1) : j = 1 \/ j = 2
        BY <2>2
      <4> QED BY <2>2, <3>2, <3>7, <3>9, <4>1 DEF Before
    <3>10. CASE u = v /\ m = n /\ r < s
      <4>1. 4 \in DOMAIN p /\ \A j \in 1 .. (4 - 1) : j = 1 \/ j = 2 \/ j = 3
        BY <2>2
      <4> QED BY <2>2, <3>2, <3>7, <3>10, <4>1 DEF Before
    <3> QED BY <3>6, <3>8, <3>9, <3>10
  <2> QED BY <2>3, <2>4, PathKinds, 0 \in Nat
<1> QED BY <1>0, <1>1, <1>2, <1>3, <1>4, PathKinds


-----------------------------------------------------------------------------
(* What truncate leaves and what it frees.                                 *)

\* The cells on the way to a block.
Way(b) ==
  LET s == get_branch(ptr, block_to_path(b)) IN {s[n] : n \in DOMAIN s}

\* Every block behind i_size that is still mapped will be reached.
BehindOK ==
  Truncating => \A b \in Block :
    b >= isize /\ Map(b) # NoZone => \E c \in Way(b) : OnStack(c)

\* Nothing on the way to a block in front of i_size will be reached.
FrontOK ==
  w = "trunc" => \A b \in Block : b < isize => \A c \in Way(b) : ~ OnStack(c)

\* The branch to a block, in any state of the pointers.
Branch(p, b, path, s) == path = block_to_path(b) /\ s = get_branch(p, path)

LEMMA BranchTo_ ==
  ASSUME NEW p, NEW b \in Block, NEW path, NEW s, Branch(p, b, path, s)
  PROVE  /\ IsPath(path) /\ IsBranch(p, path, s) /\ b \in Nat /\ b < MaxBlocks
         /\ path \in Seq(Nat) /\ Len(path) \in 1 .. DEPTH
         /\ Len(s) \in 1 .. Len(path) /\ Len(s) \in Nat /\ Len(path) \in Nat /\ Len(path) <= 4
         /\ DOMAIN s = 1 .. Len(s)
         /\ \A n \in 1 .. Len(s) : s[n] \in Cell
<1>1. path = block_to_path(b) /\ s = get_branch(p, path)
  BY DEF Branch
<1>2. b \in Nat /\ b < MaxBlocks
  BY Sizes DEF Block
<1>3. IsPath(path)
  BY <1>1, <1>2, PathIs
<1>4. path \in Seq(Nat) /\ Len(path) \in 1 .. DEPTH
  BY <1>3 DEF IsPath
<1>5. IsBranch(p, path, s)
  BY <1>1, <1>4, BranchIs
<1>6. Len(path) \in Nat /\ Len(path) <= 4 /\ 1 <= Len(path)
  BY <1>4, UpTo4
<1>7. Len(s) \in 1 .. Len(path)
  BY <1>5 DEF IsBranch
<1>8. Len(s) \in Nat
  BY <1>6, <1>7
<1>9. s \in Seq(({Inode} \cup Zone) \X Nat)
  BY <1>5 DEF IsBranch, IsCells
<1>10. DOMAIN s = 1 .. Len(s)
  BY <1>9
<1>11. ASSUME NEW n \in 1 .. Len(s) PROVE s[n] \in Cell
  <2>1. CASE n = 1
    <3>1. s[1] = <<Inode, path[1]>>
      BY <1>5 DEF IsBranch
    <3>2. PICK m : m = Len(path)
      OBVIOUS
    <3>3. m \in Nat /\ 1 <= m /\ m <= 4 /\ path[1] \in Nat
          /\ IF m = 1 THEN path[1] < DIRECT ELSE path[1] = DIRECT + m - 2
      BY <1>3, <1>4, <1>6, <3>2 DEF IsPath
    <3>4. path[1] \in 0 .. (DIRECT + DEPTH - 2)
      BY <3>3, Sizes DEF DEPTH
    <3> QED BY <2>1, <3>1, <3>4 DEF Cell
  <2>2. CASE n # 1
    <3>1. n \in 2 .. Len(s) /\ n \in 2 .. Len(path)
      BY <1>6, <1>7, <2>2
    <3>2. p[s[n - 1]] \in Zone /\ s[n] = <<p[s[n - 1]], path[n]>>
      BY <1>5, <3>1 DEF IsBranch
    <3>3. path[n] \in Index
      BY <1>3, <3>1 DEF IsPath
    <3> QED BY <3>2, <3>3 DEF Cell
  <2> QED BY <2>1, <2>2
<1> QED BY <1>2, <1>3, <1>4, <1>5, <1>6, <1>7, <1>8, <1>10, <1>11

\* A block that is mapped is reached through pointers that are not 0.
LEMMA MappedIs ==
  ASSUME NEW p, NEW b \in Block, NEW path, NEW s, Branch(p, b, path, s),
         MapIn(p, b) # NoZone
  PROVE  /\ Len(s) = Len(path)
         /\ \A n \in 1 .. Len(s) : p[s[n]] # NoZone
         /\ \A n \in 1 .. Len(s) : n < Len(s) => p[s[n]] \in Zone
<1>1. path = block_to_path(b) /\ s = get_branch(p, path)
  BY DEF Branch
<1>2. IsBranch(p, path, s) /\ Len(s) \in Nat
  BY BranchTo_
<1>3. Len(s) = Len(path) /\ p[s[Len(s)]] # NoZone
  BY <1>1 DEF MapIn
<1>4. ASSUME NEW n \in 1 .. Len(s), n < Len(s) PROVE p[s[n]] \in Zone
  BY <1>2, <1>4, BranchStep
<1>5. ASSUME NEW n \in 1 .. Len(s) PROVE p[s[n]] # NoZone
  <2>1. n = Len(s) \/ n < Len(s)
    BY <1>2
  <2> QED BY <1>3, <1>4, <2>1, BlockTreeAssumption
<1> QED BY <1>3, <1>4, <1>5

\* Pointers that are the same on the way to a block lead the same way.
LEMMA WaySame ==
  ASSUME NEW p, NEW q, NEW b \in Block, NEW path, NEW s, Branch(p, b, path, s),
         \A n \in 1 .. Len(s) : p[s[n]] = q[s[n]]
  PROVE  Branch(q, b, path, s) /\ MapIn(q, b) = MapIn(p, b)
<1>1. path = block_to_path(b) /\ s = get_branch(p, path)
  BY DEF Branch
<1>2. /\ path \in Seq(Nat) /\ Len(path) \in 1 .. DEPTH /\ IsBranch(p, path, s)
      /\ Len(s) \in 1 .. Len(path) /\ Len(path) \in Nat
  BY BranchTo_
<1>3. PICK t : t = get_branch(q, path)
  OBVIOUS
<1>4. IsBranch(q, path, t)
  BY <1>2, <1>3, BranchIs
<1>5. s = t
  BY <1>2, <1>4, BranchSame
<1>6. Len(s) \in 1 .. Len(s)
  BY <1>2
<1>7. p[s[Len(s)]] = q[s[Len(s)]]
  BY <1>6
<1> QED BY <1>1, <1>3, <1>5, <1>7 DEF Branch, MapIn

LEMMA WayIs ==
  ASSUME NEW b \in Block, NEW path, NEW s, Branch(ptr, b, path, s)
  PROVE  \A c : c \in Way(b) <=> \E n \in 1 .. Len(s) : c = s[n]
<1>1. DOMAIN s = 1 .. Len(s)
  BY BranchTo_
<1> QED BY <1>1 DEF Way, Branch

LEMMA WayThen ==
  ASSUME NEW b \in Block, NEW path, NEW s, Branch(ptr', b, path, s)
  PROVE  \A c : c \in Way(b)' <=> \E n \in 1 .. Len(s) : c = s[n]
<1>1. DOMAIN s = 1 .. Len(s)
  BY BranchTo_
<1> QED BY <1>1 DEF Way, Branch

\* No zone on the way to a block is cut off.
LEMMA WayForest ==
  ASSUME TypeOK, NEW h \in Heights, NEW K \in SUBSET Zone, Forest(h, K),
         NEW b \in Block, NEW c \in Way(b)
  PROVE  c \in Ref(h) /\ ~ Cut(c[1])
<1>1. PICK path, s : path = block_to_path(b) /\ s = get_branch(ptr, path)
  OBVIOUS
<1>2. Branch(ptr, b, path, s) /\ EdgesOK(h) /\ TreesOK(h)
  BY <1>1 DEF Branch, Forest
<1>3. ChainOK(h, path, s) /\ Len(s) \in Nat
  BY <1>1, <1>2, BranchRef, BranchTo_
<1>4. PICK n \in 1 .. Len(s) : c = s[n]
  BY <1>2, WayIs
<1>5. ~ Cut(Inode)
  BY <1>2, BlockTreeAssumption DEF TreesOK, Cut, TypeOK
<1>6. CASE n = 1
  BY <1>3, <1>4, <1>5, <1>6 DEF ChainOK
<1>7. CASE n > 1
  <2>1. n - 1 \in 1 .. Len(s)
    BY <1>3, <1>7
  <2>2. s[n - 1] \in Ref(h) /\ c \in Ref(h) /\ c[1] = ptr[s[n - 1]] /\ c[1] \in Node(h)
    BY <1>3, <1>4, <1>7, <2>1 DEF ChainOK
  <2>3. c[1] # NoZone
    BY <2>2, BlockTreeAssumption DEF Node, TypeOK
  <2> QED BY <1>2, <2>2, <2>3 DEF EdgesOK
<1>8. n = 1 \/ n > 1
  OBVIOUS
<1> QED BY <1>6, <1>7, <1>8

\* What a step of truncate may do with the pointers and the stack.
Clears ==
  /\ \A c \in Cell : ptr'[c] = ptr[c] \/ (OnStack(c) /\ ptr'[c] = NoZone)
  /\ \A c : OnStack(c)' => OnStack(c) \/ Cut(c[1])
  /\ \A c \in Cell : OnStack(c) => OnStack(c)' \/ ptr'[c] = NoZone

LEMMA ClearsBehind ==
  ASSUME BehindOK, Clears, isize' = isize, Truncating
  PROVE  BehindOK'
<1> SUFFICES ASSUME NEW b \in Block, b >= isize, MapIn(ptr', b) # NoZone
             PROVE  \E c \in Way(b)' : OnStack(c)'
  <2>1. \A b \in Block : Map(b)' = MapIn(ptr', b)
    BY DEF Map
  <2> QED BY <2>1 DEF BehindOK
<1>1. PICK path, s : path = block_to_path(b) /\ s = get_branch(ptr', path)
  OBVIOUS
<1>2. Branch(ptr', b, path, s)
  BY <1>1 DEF Branch
<1>3. \A n \in 1 .. Len(s) : ptr'[s[n]] # NoZone /\ s[n] \in Cell
  BY <1>2, MappedIs, BranchTo_
<1>4. \A n \in 1 .. Len(s) : ptr'[s[n]] = ptr[s[n]]
  BY <1>3 DEF Clears
<1>5. Branch(ptr, b, path, s) /\ MapIn(ptr, b) = MapIn(ptr', b)
  BY <1>2, <1>4, WaySame
<1>6. PICK c \in Way(b) : OnStack(c)
  BY <1>5 DEF BehindOK, Map
<1>7. PICK n \in 1 .. Len(s) : c = s[n]
  BY <1>5, <1>6, WayIs
<1>8. OnStack(c)'
  BY <1>3, <1>6, <1>7 DEF Clears
<1>9. c \in Way(b)'
  BY <1>2, <1>7, WayThen
<1> QED BY <1>8, <1>9

\* A block is mapped as before when the pointers on the way to it are.
LEMMA FrontKept ==
  ASSUME NEW b \in Block, \A c \in Way(b) : ptr'[c] = ptr[c]
  PROVE  MapIn(ptr', b) = Map(b) /\ Way(b)' = Way(b)
<1>1. PICK path, s : path = block_to_path(b) /\ s = get_branch(ptr, path)
  OBVIOUS
<1>2. Branch(ptr, b, path, s)
  BY <1>1 DEF Branch
<1>3. \A n \in 1 .. Len(s) : ptr[s[n]] = ptr'[s[n]]
  BY <1>2, WayIs
<1>4. Branch(ptr', b, path, s) /\ MapIn(ptr', b) = MapIn(ptr, b)
  BY <1>2, <1>3, WaySame
<1> QED BY <1>2, <1>4 DEF Map, Way, Branch

LEMMA ClearsFront ==
  ASSUME TypeOK, NEW h \in Heights, NEW K \in SUBSET Zone, Forest(h, K),
         FrontOK, Clears, isize' = isize, w = "trunc"
  PROVE  /\ FrontOK'
         /\ \A b \in Block : b < isize => MapIn(ptr', b) = Map(b)
<1>1. ASSUME NEW b \in Block, b < isize, NEW c \in Way(b)
      PROVE  ptr'[c] = ptr[c] /\ ~ OnStack(c)'
  <2>1. c \in Ref(h) /\ ~ Cut(c[1]) /\ ~ OnStack(c)
    BY <1>1, WayForest DEF FrontOK
  <2> QED BY <2>1 DEF Clears, Ref
<1>2. \A b \in Block : b < isize => MapIn(ptr', b) = Map(b) /\ Way(b)' = Way(b)
  BY <1>1, FrontKept
<1> QED BY <1>1, <1>2 DEF FrontOK

\* Two ways to the same block of pointers are the same.
LEMMA WaysMeet ==
  ASSUME TypeOK, NEW h \in Heights, EdgesOK(h),
         NEW path, IsPath(path), NEW s, OnPath(ptr, path, s), ChainOK(h, path, s),
         NEW qath, IsPath(qath), NEW t, OnPath(ptr, qath, t), ChainOK(h, qath, t),
         NEW m \in 1 .. Len(s), NEW x \in 1 .. Len(t), s[m][1] = t[x][1]
  PROVE  /\ m = x
         /\ \A j \in 1 .. (m - 1) : s[j] = t[j] /\ path[j] = qath[j]
         /\ m > 1 => Len(path) = Len(qath)
<1>0. /\ Len(s) \in Nat /\ Len(t) \in Nat /\ Len(path) \in Nat /\ Len(qath) \in Nat
      /\ Len(s) <= Len(path) /\ Len(t) <= Len(qath)
      /\ 1 <= Len(path) /\ Len(path) <= 4 /\ 1 <= Len(qath) /\ Len(qath) <= 4
  BY UpTo4, SMTT(30) DEF IsPath, OnPath
<1> DEFINE Meet(i) == \A y \in 1 .. Len(t) : i <= Len(s) /\ s[i][1] = t[y][1] =>
              i = y /\ \A j \in 1 .. (i - 1) : s[j] = t[j]
<1>1. Inode \notin Node(h) /\ NoZone \notin Node(h)
  BY BlockTreeAssumption DEF Node, TypeOK
<1>2. Meet(1)
  <2> SUFFICES ASSUME NEW y \in 1 .. Len(t), 1 <= Len(s), s[1][1] = t[y][1]
               PROVE  y = 1
    OBVIOUS
  <2>1. s[1][1] = Inode
    <3>1. 1 \in 1 .. Len(s)
      BY <1>0
    <3>2. \A k \in 1 .. Len(s) : k = 1 => s[k][1] = Inode
      BY DEF ChainOK
    <3> QED BY <3>1, <3>2
  <2>2. y > 1 => t[y][1] \in Node(h)
    BY DEF ChainOK
  <2> QED BY <1>1, <2>1, <2>2
<1>3. ASSUME NEW i \in 1 .. 3, Meet(i)
      PROVE  Meet(i + 1)
  <2> SUFFICES ASSUME NEW y \in 1 .. Len(t), i + 1 <= Len(s), s[i + 1][1] = t[y][1]
               PROVE  i + 1 = y /\ \A j \in 1 .. i : s[j] = t[j]
    BY (i + 1) - 1 = i
  <2>1. i + 1 \in 1 .. Len(s) /\ i \in 1 .. Len(s) /\ i + 1 > 1 /\ (i + 1) - 1 = i
    <3>1. PICK l : l = Len(s)
      OBVIOUS
    <3>2. l \in Nat /\ i + 1 <= l
      BY <1>0, <3>1
    <3>3. i + 1 \in 1 .. l /\ i \in 1 .. l /\ i + 1 > 1 /\ (i + 1) - 1 = i
      BY <3>2
    <3> QED BY <3>1, <3>3
  <2>2. s[i + 1][1] \in Node(h) /\ s[i + 1][1] = ptr[s[i]] /\ s[i] \in Ref(h)
    BY <2>1 DEF ChainOK
  <2>3. y # 1
    BY <1>0, <1>1, <2>2 DEF ChainOK
  <2>4. y - 1 \in 1 .. Len(t) /\ y > 1
    BY <2>3
  <2>5. t[y][1] = ptr[t[y - 1]] /\ t[y - 1] \in Ref(h)
    BY <2>4 DEF ChainOK
  <2>6. ptr[s[i]] \in Zone
    BY <2>2 DEF Node, TypeOK
  <2>7. s[i] = t[y - 1]
    BY <2>2, <2>5, <2>6 DEF EdgesOK
  <2>8. s[i][1] = t[y - 1][1] /\ i <= Len(s)
    BY <2>1, <2>7
  <2>9. i = y - 1 /\ \A j \in 1 .. (i - 1) : s[j] = t[j]
    BY <1>3, <2>4, <2>8
  <2>10. \A j \in 1 .. i : j \in 1 .. (i - 1) \/ j = i
    OBVIOUS
  <2> QED BY <2>7, <2>9, <2>10
<1>4. Meet(m)
  <2> HIDE DEF Meet
  <2>1. Meet(2)
    BY <1>2, <1>3, 1 + 1 = 2
  <2>2. Meet(3)
    BY <1>3, <2>1, 2 + 1 = 3
  <2>3. Meet(4)
    BY <1>3, <2>2, 3 + 1 = 4
  <2>4. m = 1 \/ m = 2 \/ m = 3 \/ m = 4
    BY <1>0
  <2> QED BY <1>2, <2>1, <2>2, <2>3, <2>4
<1>5. m = x /\ \A j \in 1 .. (m - 1) : s[j] = t[j]
  BY <1>4
<1>6. ASSUME NEW j \in 1 .. (m - 1) PROVE path[j] = qath[j]
  <2>1. j \in 1 .. Len(s) /\ j \in 1 .. Len(t)
    BY <1>0, <1>5
  <2>2. s[j] = <<s[j][1], path[j]>> /\ t[j] = <<t[j][1], qath[j]>> /\ s[j] = t[j]
    BY <1>5, <2>1 DEF ChainOK
  <2> QED BY <2>2
<1>7. ASSUME m > 1 PROVE Len(path) = Len(qath)
  <2>1. path[1] = qath[1]
    BY <1>6, <1>7
  <2>5. PICK k, l : k = Len(path) /\ l = Len(qath)
    OBVIOUS
  <2>2. k > 1 /\ l > 1 /\ k \in Nat /\ l \in Nat
    BY <1>0, <1>5, <1>7, <2>5
  <2>3. k # 1 /\ l # 1
    BY <2>2
  <2>4. path[1] = DIRECT + Len(path) - 2 /\ qath[1] = DIRECT + Len(qath) - 2
    BY <2>3, <2>5 DEF IsPath
  <2>6. k \in Nat /\ l \in Nat /\ DIRECT + k - 2 = DIRECT + l - 2
    BY <1>0, <2>1, <2>4, <2>5
  <2>7. k = l
    BY <2>6, Sizes
  <2> QED BY <2>5, <2>7
<1> QED BY <1>5, <1>6, <1>7

\* Paths with a common beginning lead the same way as long as pointers agree.
LEMMA WaysAgree ==
  ASSUME NEW p, NEW path, NEW s, OnPath(p, path, s),
         NEW q, NEW qath, NEW t, OnPath(q, qath, t),
         Len(path) \in 1 .. DEPTH, Len(qath) \in 1 .. DEPTH,
         NEW l \in Nat, 1 <= l, l <= Len(s), l <= Len(t),
         \A j \in 1 .. (l - 1) : path[j] = qath[j] /\ q[s[j]] = p[s[j]]
  PROVE  /\ s[l][1] = t[l][1] /\ s[l] = <<s[l][1], path[l]>> /\ t[l] = <<t[l][1], qath[l]>>
         /\ \A j \in 1 .. (l - 1) : s[j] = t[j]
<1>0. Len(s) \in Nat /\ Len(t) \in Nat /\ l <= 4
  <2>1. Len(path) \in Nat /\ Len(qath) \in Nat /\ Len(path) <= 4
    BY UpTo4
  <2> QED BY <2>1 DEF OnPath
<1> DEFINE A(i) == i <= l =>
             /\ s[i][1] = t[i][1] /\ s[i] = <<s[i][1], path[i]>> /\ t[i] = <<t[i][1], qath[i]>>
             /\ \A j \in 1 .. (i - 1) : s[j] = t[j]
<1>1. A(1)
  <2>1. s[1] = <<Inode, path[1]>> /\ t[1] = <<Inode, qath[1]>>
    BY DEF OnPath
  <2> QED BY <2>1
<1>2. ASSUME NEW i \in 1 .. 3, A(i)
      PROVE  A(i + 1)
  <2> SUFFICES ASSUME i + 1 <= l
               PROVE  /\ s[i + 1][1] = t[i + 1][1] /\ s[i + 1] = <<s[i + 1][1], path[i + 1]>>
                      /\ t[i + 1] = <<t[i + 1][1], qath[i + 1]>>
                      /\ \A j \in 1 .. i : s[j] = t[j]
    BY (i + 1) - 1 = i
  <2>1. i \in 1 .. (l - 1) /\ i <= l /\ i \in Nat /\ 1 <= i /\ i < Len(s) /\ i < Len(t)
    BY <1>0
  <2>2. s[i][1] = t[i][1] /\ s[i] = <<s[i][1], path[i]>> /\ t[i] = <<t[i][1], qath[i]>>
        /\ \A j \in 1 .. (i - 1) : s[j] = t[j]
    BY <1>2, <2>1
  <2>3. path[i] = qath[i] /\ q[s[i]] = p[s[i]]
    BY <2>1
  <2>4. s[i] = t[i]
    BY <2>2, <2>3
  <2>5. s[i + 1] = <<p[s[i]], path[i + 1]>> /\ t[i + 1] = <<q[t[i]], qath[i + 1]>>
    BY <2>1, OnPathStep
  <2>6. \A j \in 1 .. i : j \in 1 .. (i - 1) \/ j = i
    OBVIOUS
  <2>7. \A j \in 1 .. i : s[j] = t[j]
    BY <2>2, <2>4, <2>6
  <2> QED BY <2>3, <2>4, <2>5, <2>7
<1> HIDE DEF A
<1>3. A(2)
  BY <1>1, <1>2, 1 + 1 = 2
<1>4. A(3)
  BY <1>2, <1>3, 2 + 1 = 3
<1>5. A(4)
  BY <1>2, <1>4, 3 + 1 = 4
<1>6. l = 1 \/ l = 2 \/ l = 3 \/ l = 4
  BY <1>0
<1>7. A(l)
  BY <1>1, <1>3, <1>4, <1>5, <1>6
<1> QED BY <1>7 DEF A

\* The two ways, with everything that is needed about them.
Beside(path, s, qath, t, l) ==
  /\ OnPath(ptr, path, s) /\ OnPath(ptr, qath, t)
  /\ Len(path) \in 1 .. DEPTH /\ Len(qath) \in 1 .. DEPTH
  /\ l \in Nat /\ 1 <= l /\ l <= Len(s) /\ l <= Len(t)
  /\ \A j \in 1 .. (l - 1) : path[j] = qath[j]

LEMMA WaysBeside ==
  ASSUME NEW path, NEW s, NEW qath, NEW t, NEW l, Beside(path, s, qath, t, l)
  PROVE  s[l][1] = t[l][1] /\ s[l] = <<s[l][1], path[l]>> /\ t[l] = <<t[l][1], qath[l]>>
<1>1. OnPath(ptr, path, s) /\ OnPath(ptr, qath, t)
  BY DEF Beside
<1>2. Len(path) \in 1 .. DEPTH /\ Len(qath) \in 1 .. DEPTH
  BY DEF Beside
<1>3. l \in Nat /\ 1 <= l /\ l <= Len(s) /\ l <= Len(t)
  BY DEF Beside
<1>4. \A j \in 1 .. (l - 1) : path[j] = qath[j] /\ ptr[s[j]] = ptr[s[j]]
  BY DEF Beside
<1> QED BY <1>1, <1>2, <1>3, <1>4, WaysAgree

Meeting(h, path, s, qath, t, m, x) ==
  /\ IsPath(path) /\ OnPath(ptr, path, s) /\ ChainOK(h, path, s)
  /\ IsPath(qath) /\ OnPath(ptr, qath, t) /\ ChainOK(h, qath, t)
  /\ m \in 1 .. Len(s) /\ x \in 1 .. Len(t) /\ s[m][1] = t[x][1]

LEMMA WaysMeetThere ==
  ASSUME TypeOK, NEW h \in Heights, EdgesOK(h), NEW path, NEW s, NEW qath, NEW t,
         NEW m, NEW x, Meeting(h, path, s, qath, t, m, x)
  PROVE  /\ m = x
         /\ \A j \in 1 .. (m - 1) : s[j] = t[j] /\ path[j] = qath[j]
         /\ m > 1 => Len(path) = Len(qath)
<1>1. IsPath(path) /\ OnPath(ptr, path, s) /\ ChainOK(h, path, s)
  BY DEF Meeting
<1>2. IsPath(qath) /\ OnPath(ptr, qath, t) /\ ChainOK(h, qath, t)
  BY DEF Meeting
<1>3. m \in 1 .. Len(s) /\ x \in 1 .. Len(t) /\ s[m][1] = t[x][1]
  BY DEF Meeting
<1> QED BY <1>1, <1>2, <1>3, WaysMeet


\* When truncate begins in the direct pointers.
LEMMA DirectBehind ==
  ASSUME TypeOK, NEW a \in Nat, TruncateDirect(a),
         NEW b \in Block, b >= a, NEW qath, NEW t, Branch(ptr', b, qath, t)
  PROVE  OnStack(t[1])'
<1>1. /\ a < DIRECT
      /\ Items(stack') = Cells(Inode, a, DIRECT - 1, 0) \cup WholeItems(0)
  BY DirectItems
<1>2. /\ IsPath(qath) /\ IsBranch(ptr', qath, t) /\ b \in Nat /\ b < MaxBlocks
      /\ qath = block_to_path(b)
  BY BranchTo_ DEF Branch
<1>3. t[1] = <<Inode, qath[1]>>
  BY <1>2 DEF IsBranch
<1>4. \E d : CellItem(t[1], d) \in Items(stack')
  <2>1. CASE Direct(b, qath)
    <3>1. qath[1] = b /\ b \in a .. (DIRECT - 1)
      BY <1>2, <2>1, Sizes DEF Direct
    <3>2. CellItem(<<Inode, b>>, 0) \in Cells(Inode, a, DIRECT - 1, 0)
      BY <3>1 DEF Cells
    <3> QED BY <1>1, <1>3, <3>1, <3>2
  <2>2. CASE \E x \in Nat : Single(b, x, qath) \/ Double(b, x, qath) \/ Triple(b, x, qath)
    <3>1. \E m \in 0 .. 2 : qath[1] = DIRECT + m
      <4>1. qath[1] = DIRECT \/ qath[1] = DIRECT + 1 \/ qath[1] = DIRECT + 2
        BY <2>2 DEF Single, Double, Triple
      <4>2. DIRECT = DIRECT + 0
        BY Sizes
      <4> QED BY <4>1, <4>2, 0 \in 0 .. 2, 1 \in 0 .. 2, 2 \in 0 .. 2
    <3>2. PICK m \in 0 .. 2 : qath[1] = DIRECT + m
      BY <3>1
    <3>3. CellItem(<<Inode, DIRECT + m>>, m + 1) \in WholeItems(0)
      BY DEF WholeItems
    <3> QED BY <1>1, <1>3, <3>2, <3>3
  <2> QED BY <1>2, <2>1, <2>2, PathKinds
<1>5. PICK d : CellItem(t[1], d) \in Items(stack')
  BY <1>4
<1>6. PICK k \in DOMAIN stack' : stack'[k] = CellItem(t[1], d)
  BY <1>5 DEF Items
<1> QED BY <1>6 DEF OnStack, CellAt

LEMMA DirectFront ==
  ASSUME TypeOK, NEW a \in Nat, TruncateDirect(a),
         NEW b \in Block, b < a, NEW c \in Way(b)
  PROVE  ptr' = ptr /\ ~ OnStack(c)'
<1>1. /\ a < DIRECT /\ ptr' = ptr
      /\ Items(stack') = Cells(Inode, a, DIRECT - 1, 0) \cup WholeItems(0)
  BY DirectItems
<1>2. PICK path, s : path = block_to_path(b) /\ s = get_branch(ptr, path)
  OBVIOUS
<1>3. Branch(ptr, b, path, s)
  BY <1>2 DEF Branch
<1>4. IsBranch(ptr, path, s) /\ b \in Nat /\ b < DIRECT /\ b < MaxBlocks
      /\ Len(s) \in 1 .. Len(path)
  <2>1. IsBranch(ptr, path, s) /\ b \in Nat /\ b < MaxBlocks /\ Len(s) \in 1 .. Len(path)
    BY <1>3, BranchTo_
  <2>2. b < DIRECT
    BY <1>1, <2>1, Sizes
  <2> QED BY <2>1, <2>2
<1>5. path = <<b>>
  BY <1>2, <1>4, Sizes DEF block_to_path
<1>6. Len(path) = 1 /\ path[1] = b
  BY <1>5
<1>7. s[1] = <<Inode, b>> /\ \A n \in 1 .. Len(s) : n = 1
  <2>1. s[1] = <<Inode, b>>
    BY <1>4, <1>6 DEF IsBranch
  <2>2. Len(s) \in 1 .. 1
    BY <1>4, <1>6
  <2>3. Len(s) = 1
    BY <2>2
  <2> QED BY <2>1, <2>3
<1>8. c = <<Inode, b>>
  BY <1>3, <1>7, WayIs
<1>9. ASSUME OnStack(c)' PROVE FALSE
  <2>1. PICK k, d : CellAt(k, c, d)'
    BY <1>9 DEF OnStack
  <2>2. CellItem(c, d) \in Items(stack')
    BY <2>1 DEF CellAt, Items
  <2>3. CASE CellItem(c, d) \in Cells(Inode, a, DIRECT - 1, 0)
    <3>1. PICK j \in a .. (DIRECT - 1) : CellItem(c, d) = CellItem(<<Inode, j>>, 0)
      BY <2>3 DEF Cells
    <3>2. PICK e : e = <<Inode, j>>
      OBVIOUS
    <3>3. c = e
      BY <3>1, <3>2, ItemKinds
    <3>4. b = j
      BY <1>8, <3>2, <3>3
    <3> QED BY <1>4, <3>4
  <2>4. CASE CellItem(c, d) \in WholeItems(0)
    <3>1. PICK m \in 0 .. 2 : CellItem(c, d) = CellItem(<<Inode, DIRECT + m>>, m + 1)
      BY <2>4 DEF WholeItems
    <3>2. PICK e, f : e = <<Inode, DIRECT + m>> /\ f = m + 1
      OBVIOUS
    <3>3. CellItem(c, d) = CellItem(e, f)
      BY <3>1, <3>2
    <3>4. c = e
      BY <3>3, ItemKinds
    <3>5. b = DIRECT + m
      BY <1>8, <3>2, <3>4
    <3> QED BY <1>4, <3>5, Sizes
  <2> QED BY <1>1, <2>2, <2>3, <2>4
<1> QED BY <1>1, <1>9

\* When truncate begins below the direct pointers.
LEMMA SharedBehind ==
  ASSUME TypeOK, NEW a \in Nat, a < MaxBlocks, NEW path, path = block_to_path(a),
         IsPath(path), Len(path) > 1, NEW s, OnPath(ptr, path, s),
         NEW p \in 1 .. Len(s), NEW back \in BOOLEAN, back => p > 1, s[p] \in Cell,
         SharedCut(path, s, p, back),
         NEW b \in Block, b >= a, NEW qath, NEW t, Branch(ptr', b, qath, t),
         MapIn(ptr', b) # NoZone
  PROVE  \E n \in 1 .. Len(t) : OnStack(t[n])'
<1> DEFINE A == Ends(s, Len(path), p, back, p) \cup WholeItems(Len(path) - 1)
<1>1. /\ IsPath(qath) /\ IsBranch(ptr', qath, t) /\ b \in Nat /\ b < MaxBlocks
      /\ qath = block_to_path(b)
  BY BranchTo_ DEF Branch
<1>2. Len(t) = Len(qath) /\ \A n \in 1 .. Len(t) : ptr'[t[n]] # NoZone
  BY MappedIs
<1>3. \A c, d : CellItem(c, d) \in A => OnStack(c)'
  <2>1. \A x \in A : \E k \in DOMAIN stack' : stack'[k] = x
    BY DEF SharedCut
  <2> QED BY <2>1 DEF OnStack, CellAt
<1>4. PICK n, m, l : n = Len(path) /\ m = Len(qath) /\ l = Len(s)
  OBVIOUS
<1>5. /\ n \in Nat /\ m \in Nat /\ l \in Nat /\ 1 < n /\ n <= 4 /\ 1 <= m /\ m <= 4
      /\ l <= n /\ p \in Nat /\ 1 <= p /\ p <= l /\ Len(t) = m
      /\ path \in Seq(Nat) /\ qath \in Seq(Nat)
      /\ Len(path) \in 1 .. DEPTH /\ Len(qath) \in 1 .. DEPTH
  <2>1. path \in Seq(Nat) /\ qath \in Seq(Nat)
        /\ Len(path) \in 1 .. DEPTH /\ Len(qath) \in 1 .. DEPTH
    BY <1>1 DEF IsPath
  <2>2. n \in Nat /\ m \in Nat /\ n <= 4 /\ 1 <= m /\ m <= 4 /\ 1 < n
    BY <1>4, <2>1, UpTo4
  <2>3. l \in 1 .. n /\ p \in 1 .. l
    BY <1>4 DEF OnPath
  <2>4. l \in Nat /\ l <= n /\ p \in Nat /\ 1 <= p /\ p <= l
    BY <2>2, <2>3
  <2> QED BY <1>2, <1>4, <2>1, <2>2, <2>4
<1>6. path = qath \/ Before(path, qath)
  BY <1>1, PathOrder DEF Block
<1>7. OnPath(ptr', qath, t)
  BY <1>1 DEF IsBranch, OnPath
<1>8. CASE n < m
  <2>1. t[1] = <<Inode, qath[1]>>
    BY <1>7 DEF OnPath
  <2>2. m # 1
    BY <1>5, <1>8
  <2>3. qath[1] = DIRECT + m - 2
    BY <1>1, <1>4, <2>2 DEF IsPath
  <2>4. DIRECT + m - 2 = DIRECT + (m - 2) /\ m - 2 \in (n - 1) .. 2
    BY <1>5, <1>8, Sizes
  <2>5. CellItem(<<Inode, DIRECT + (m - 2)>>, (m - 2) + 1) \in WholeItems(n - 1)
    BY <2>4 DEF WholeItems
  <2>6. \E d : CellItem(t[1], d) \in A
    BY <1>4, <2>1, <2>3, <2>4, <2>5
  <2> HIDE DEF A
  <2>7. 1 \in 1 .. Len(t)
    BY <1>5
  <2> QED BY <1>3, <2>6, <2>7
<1>9. CASE ~ (n < m)
  <2>1. PICK i \in 1 .. (n + 1) : /\ \A j \in 1 .. (i - 1) : path[j] = qath[j]
                                  /\ i <= n => path[i] < qath[i]
    <3>1. CASE path = qath
      <4>1. n + 1 \in 1 .. (n + 1) /\ ~ (n + 1 <= n)
        BY <1>5
      <4> QED BY <3>1, <4>1
    <3>2. CASE Before(path, qath)
      <4>1. \E i \in DOMAIN path : path[i] < qath[i] /\ \A j \in 1 .. (i - 1) : path[j] = qath[j]
        BY <1>4, <1>9, <3>2 DEF Before
      <4>2. DOMAIN path = 1 .. n
        BY <1>4, <1>5
      <4>3. \A i \in 1 .. n : i \in 1 .. (n + 1)
        BY <1>5
      <4> QED BY <4>1, <4>2, <4>3
    <3> QED BY <1>6, <3>1, <3>2
  <2>2. n = m
    <3>1. CASE path = qath
      BY <1>4, <3>1
    <3>2. CASE Before(path, qath)
      BY <1>4, <1>9, <3>2 DEF Before
    <3> QED BY <1>6, <3>1, <3>2
  <2>3. path[1] = qath[1]
    <3>1. n # 1 /\ m # 1
      BY <1>5, <2>2
    <3>2. path[1] = DIRECT + n - 2 /\ qath[1] = DIRECT + m - 2
      BY <1>1, <1>4, <3>1 DEF IsPath
    <3> QED BY <2>2, <3>2
  <2>4. i # 1
    <3>1. i = 1 => path[1] < qath[1]
      BY <1>5, <2>1
    <3>2. path[1] \in Nat
      <4>1. 1 \in 1 .. Len(path)
        BY <1>4, <1>5
      <4> QED BY <1>5, <4>1
    <3> QED BY <2>3, <3>1, <3>2
  <2>5. /\ \A c \in Cell : ptr'[c] # NoZone => ptr'[c] = ptr[c]
        /\ ~ back => ptr'[s[p]] = NoZone
    BY DEF SharedCut, TypeOK
  <2>6. \A j \in 1 .. Len(t) : ptr'[t[j]] = ptr[t[j]]
    BY <1>2, <2>5, BranchTo_
  <2>7. OnPath(ptr, qath, t)
    <3>1. ASSUME NEW j \in 2 .. Len(t)
          PROVE  ptr[t[j - 1]] \in Zone /\ t[j] = <<ptr[t[j - 1]], qath[j]>>
      <4>1. j - 1 \in 1 .. Len(t)
        BY <1>5
      <4> QED BY <1>7, <2>6, <4>1 DEF OnPath
    <3> QED BY <1>7, <3>1 DEF OnPath
  <2>8. CASE i <= p
    <3>1. i \in Nat /\ 1 <= i /\ i <= Len(s) /\ i <= Len(t) /\ i \in 2 .. p /\ i <= n /\ i \in 1 .. n
      BY <1>4, <1>5, <2>2, <2>4, <2>8
    <3>2. s[i][1] = t[i][1] /\ s[i] = <<s[i][1], path[i]>> /\ t[i] = <<t[i][1], qath[i]>>
      <4>1. \A j \in 1 .. (i - 1) : path[j] = qath[j]
        BY <2>1
      <4>2. OnPath(ptr, path, s) /\ OnPath(ptr, qath, t)
            /\ Len(path) \in 1 .. DEPTH /\ Len(qath) \in 1 .. DEPTH
        BY <1>5, <1>7, <2>7
      <4>3. i \in Nat /\ 1 <= i /\ i <= Len(s) /\ i <= Len(t)
        BY <3>1
      <4>4. Beside(path, s, qath, t, i)
        BY <4>1, <4>2, <4>3 DEF Beside
      <4> QED BY <4>4, WaysBeside
    <3>3. path[i] \in Nat /\ qath[i] \in Nat /\ path[i] < qath[i] /\ qath[i] \in Index
      <4>1. i \in 2 .. Len(path) /\ i \in 2 .. Len(qath)
        BY <1>4, <2>2, <2>4, <3>1
      <4>2. path[i] \in Index /\ qath[i] \in Index
        BY <1>1, <4>1 DEF IsPath
      <4>3. path[i] < qath[i]
        BY <2>1, <3>1
      <4> QED BY <4>2, <4>3 DEF Index
    <3>4. s[i][2] = path[i]
      BY <3>2
    <3>5. qath[i] \in From(s, i, p, back) .. (IndirCount - 1)
      BY <3>3, <3>4, Sizes DEF From, Index
    <3>6. CellItem(<<s[i][1], qath[i]>>, n - i)
            \in Cells(s[i][1], From(s, i, p, back), IndirCount - 1, n - i)
      BY <3>5 DEF Cells
    <3>7. CellItem(<<s[i][1], qath[i]>>, n - i) \in Ends(s, n, p, back, p)
      BY <3>1, <3>6 DEF Ends
    <3>8. \E d : CellItem(t[i], d) \in A
      BY <1>4, <3>2, <3>7
    <3> HIDE DEF A
    <3>9. i \in 1 .. Len(t)
      BY <3>1
    <3> QED BY <1>3, <3>8, <3>9
  <2>9. CASE p < i
    <3>1. p \in Nat /\ 1 <= p /\ p <= Len(s) /\ p <= Len(t) /\ p <= n /\ p \in 1 .. (i - 1)
      BY <1>4, <1>5, <2>2, <2>9
    <3>2. \A j \in 1 .. (p - 1) : path[j] = qath[j]
      BY <2>1, <3>1
    <3>3. s[p][1] = t[p][1] /\ s[p] = <<s[p][1], path[p]>> /\ t[p] = <<t[p][1], qath[p]>>
      <4>1. Beside(path, s, qath, t, p)
        BY <1>5, <2>7, <3>1, <3>2 DEF Beside
      <4> QED BY <4>1, WaysBeside
    <3>4. t[p] = s[p]
      BY <2>1, <3>1, <3>3
    <3>5. p \in 1 .. Len(t)
      BY <3>1
    <3>6. back
      BY <1>2, <2>5, <3>4, <3>5
    <3>7. p \in 2 .. p /\ p \in 2 .. n
      BY <1>5, <3>6
    <3>8. path[p] \in Index /\ s[p][2] = path[p]
      BY <1>4, <3>3, <3>7 DEF IsPath
    <3>9. path[p] \in From(s, p, p, back) .. (IndirCount - 1)
      BY <3>6, <3>8, Sizes DEF From, Index
    <3>10. CellItem(<<s[p][1], path[p]>>, n - p)
             \in Cells(s[p][1], From(s, p, p, back), IndirCount - 1, n - p)
      BY <3>9 DEF Cells
    <3>11. CellItem(<<s[p][1], path[p]>>, n - p) \in Ends(s, n, p, back, p)
      BY <3>7, <3>10 DEF Ends
    <3>12. \E d : CellItem(t[p], d) \in A
      BY <1>4, <3>3, <3>4, <3>11
    <3> HIDE DEF A
    <3> QED BY <1>3, <3>5, <3>12
  <2>10. i <= p \/ p < i
    BY <1>5
  <2> QED BY <2>8, <2>9, <2>10
<1> QED BY <1>8, <1>9


LEMMA SharedFront ==
  ASSUME TypeOK, NEW h \in Heights, EdgesOK(h), NEW a \in Nat, a < MaxBlocks,
         NEW path, path = block_to_path(a), IsPath(path), Len(path) > 1,
         NEW kk, kk = SharedDepth(path), NEW s, s = get_branch(ptr, SubSeq(path, 1, kk)),
         NEW p, p = SharedAt(s), NEW back \in BOOLEAN, back <=> p = kk /\ p > 1,
         SharedCut(path, s, p, back),
         NEW b \in Block, b < a, Map(b) # NoZone, NEW c \in Way(b)
  PROVE  ptr'[c] = ptr[c]
<1>1. PICK qath, t : qath = block_to_path(b) /\ t = get_branch(ptr, qath)
  OBVIOUS
<1>2. Branch(ptr, b, qath, t)
  BY <1>1 DEF Branch
<1>3. /\ IsPath(qath) /\ IsBranch(ptr, qath, t) /\ b \in Nat /\ OnPath(ptr, qath, t)
      /\ ChainOK(h, qath, t)
  BY <1>1, <1>2, BranchTo_, BranchRef
<1>4. /\ Len(t) = Len(qath) /\ \A n \in 1 .. Len(t) : ptr[t[n]] # NoZone
      /\ \A n \in 1 .. Len(t) : n < Len(t) => ptr[t[n]] \in Zone
  BY <1>2, MappedIs DEF Map
<1>5. /\ kk \in 1 .. Len(path) /\ IsBranch(ptr, SubSeq(path, 1, kk), s)
      /\ OnPath(ptr, path, s) /\ Len(s) <= kk
  BY SharedChain
<1>6. ChainOK(h, path, s)
  BY <1>5, ChainIs
<1>7. PICK n, m, l : n = Len(path) /\ m = Len(qath) /\ l = Len(s)
  OBVIOUS
<1>8. /\ n \in Nat /\ m \in Nat /\ l \in Nat /\ 1 < n /\ n <= 4 /\ 1 <= m /\ m <= 4
      /\ l <= n /\ Len(t) = m /\ 1 <= l /\ kk \in Nat /\ kk <= n /\ l <= kk
      /\ path \in Seq(Nat) /\ qath \in Seq(Nat)
      /\ Len(path) \in 1 .. DEPTH /\ Len(qath) \in 1 .. DEPTH /\ Len(s) \in 1 .. DEPTH
  <2>1. path \in Seq(Nat) /\ qath \in Seq(Nat)
        /\ Len(path) \in 1 .. DEPTH /\ Len(qath) \in 1 .. DEPTH
    BY <1>3 DEF IsPath
  <2>2. n \in Nat /\ m \in Nat /\ n <= 4 /\ 1 <= m /\ m <= 4 /\ 1 < n
    BY <1>7, <2>1, UpTo4
  <2>3. l \in 1 .. n /\ kk \in 1 .. n
    BY <1>5, <1>7 DEF OnPath
  <2>4. l \in Nat /\ l <= n /\ 1 <= l /\ kk \in Nat /\ kk <= n
    BY <2>2, <2>3
  <2>5. l \in 1 .. DEPTH
    BY <2>2, <2>4 DEF DEPTH
  <2> QED BY <1>4, <1>5, <1>7, <2>1, <2>2, <2>4, <2>5
<1>9. /\ p \in 1 .. l /\ p \in Nat /\ 1 <= p /\ p <= l
      /\ \A i \in (p + 1) .. l : AllZeroes(s[i])
  <2>1. p \in 1 .. l /\ \A i \in (p + 1) .. l : AllZeroes(s[i])
    BY <1>7, <1>8, SharedAtIs
  <2> QED BY <1>8, <2>1
<1>10. \A i \in (kk + 1) .. n : path[i] = 0
  BY <1>7, <1>8, SharedDepthIs
<1>11. Before(qath, path)
  BY <1>1, <1>3, PathOrder
<1>12. \A j \in 1 .. n : path[j] \in Nat
  BY <1>7, <1>8
<1>13. \A j \in 1 .. m : qath[j] \in Nat
  BY <1>7, <1>8
<1>14. PICK x \in 1 .. Len(t) : c = t[x]
  BY <1>2, WayIs
<1>15. m <= n
  BY <1>7, <1>8, <1>11 DEF Before
<1>16. ASSUME n = m
       PROVE  \E i \in 1 .. n : qath[i] < path[i] /\ \A j \in 1 .. (i - 1) : path[j] = qath[j]
  <2>1. \E i \in DOMAIN qath : qath[i] < path[i] /\ \A j \in 1 .. (i - 1) : qath[j] = path[j]
    BY <1>7, <1>8, <1>11, <1>16 DEF Before
  <2>2. DOMAIN qath = 1 .. n
    BY <1>7, <1>8, <1>16
  <2> QED BY <2>1, <2>2
<1>17. ptr'[c] = ptr[c]
  <2> SUFFICES ASSUME ptr'[c] # ptr[c]
               PROVE  FALSE
    OBVIOUS
  <2>1. c = s[p] /\ ~ back
    <3>1. c \in Cell
      BY <1>2, <1>14, BranchTo_
    <3> QED BY <3>1 DEF SharedCut, TypeOK
  <2>2. s[p][1] = t[x][1] /\ p \in 1 .. Len(s)
    BY <1>7, <1>9, <1>14, <2>1
  <2>3. /\ p = x /\ \A j \in 1 .. (p - 1) : path[j] = qath[j]
        /\ p > 1 => n = m
    <3>1. /\ p = x /\ \A j \in 1 .. (p - 1) : s[j] = t[j] /\ path[j] = qath[j]
          /\ p > 1 => Len(path) = Len(qath)
      <4>1. Meeting(h, path, s, qath, t, p, x)
        BY <1>3, <1>5, <1>6, <2>2 DEF Meeting
      <4> QED BY <4>1, WaysMeetThere
    <3> QED BY <1>7, <3>1
  <2>4. path[p] = qath[p]
    <3>1. s[p] = <<s[p][1], path[p]>> /\ t[x] = <<t[x][1], qath[x]>>
      BY <1>6, <1>3, <2>2 DEF ChainOK
    <3> QED BY <1>14, <2>1, <2>3, <3>1
  <2>5. n = m
    <3>1. CASE p = 1
      <4>1. n # 1
        BY <1>8
      <4>2. path[1] = DIRECT + n - 2
        BY <1>7, <4>1 DEF IsPath
      <4>3. IF m = 1 THEN qath[1] < DIRECT ELSE qath[1] = DIRECT + m - 2
        BY <1>3, <1>7 DEF IsPath
      <4>4. qath[1] = path[1]
        BY <2>4, <3>1
      <4>5. m # 1
        BY <1>8, <4>2, <4>3, <4>4, Sizes
      <4> QED BY <1>8, <4>2, <4>3, <4>4, <4>5, Sizes
    <3>2. CASE p > 1
      BY <2>3, <3>2
    <3> QED BY <1>9, <3>1, <3>2
  <2>6. PICK i \in 1 .. n : qath[i] < path[i] /\ \A j \in 1 .. (i - 1) : path[j] = qath[j]
    BY <1>16, <2>5
  <2>7. p < i
    <3>1. ASSUME i <= p PROVE FALSE
      <4>1. i \in 1 .. (p - 1) \/ i = p
        BY <1>9, <3>1
      <4>2. path[i] = qath[i]
        BY <2>3, <2>4, <4>1
      <4> QED BY <1>12, <2>6, <4>2
    <3> QED BY <1>9, <3>1
  <2>8. CASE i <= l
    <3>1. /\ i \in Nat /\ 1 <= i /\ i <= Len(s) /\ i <= Len(t)
          /\ i \in (p + 1) .. l /\ i \in 1 .. Len(t)
      BY <1>7, <1>8, <1>9, <2>5, <2>7, <2>8
    <3>2. s[i][1] = t[i][1] /\ s[i] = <<s[i][1], path[i]>> /\ t[i] = <<t[i][1], qath[i]>>
      <4>1. \A j \in 1 .. (i - 1) : path[j] = qath[j]
        BY <2>6
      <4>2. OnPath(ptr, path, s) /\ OnPath(ptr, qath, t)
            /\ Len(path) \in 1 .. DEPTH /\ Len(qath) \in 1 .. DEPTH
        BY <1>3, <1>5, <1>8
      <4>3. i \in Nat /\ 1 <= i /\ i <= Len(s) /\ i <= Len(t)
        BY <3>1
      <4>4. Beside(path, s, qath, t, i)
        BY <4>1, <4>2, <4>3 DEF Beside
      <4> QED BY <4>4, WaysBeside
    <3>3. qath[i] \in 0 .. (s[i][2] - 1)
      <4>1. s[i][2] = path[i]
        BY <3>2
      <4>2. path[i] \in Nat /\ qath[i] \in Nat
        BY <1>12, <1>13, <2>5
      <4> QED BY <2>6, <4>1, <4>2
    <3>4. ptr[<<s[i][1], qath[i]>>] = NoZone
      BY <1>9, <3>1, <3>3 DEF AllZeroes
    <3> QED BY <1>4, <3>1, <3>2, <3>4
  <2>9. CASE l < i
    <3>1. l \in Nat /\ 1 <= l /\ l <= Len(s) /\ l <= Len(t) /\ l \in 1 .. (i - 1)
          /\ l \in 1 .. Len(t) /\ l < Len(t)
      BY <1>7, <1>8, <2>5, <2>9
    <3>2. \A j \in 1 .. (l - 1) : path[j] = qath[j]
      BY <2>6, <3>1
    <3>3. s[l][1] = t[l][1] /\ s[l] = <<s[l][1], path[l]>> /\ t[l] = <<t[l][1], qath[l]>>
      <4>1. OnPath(ptr, path, s) /\ OnPath(ptr, qath, t)
            /\ Len(path) \in 1 .. DEPTH /\ Len(qath) \in 1 .. DEPTH
        BY <1>3, <1>5, <1>8
      <4>2. Beside(path, s, qath, t, l)
        BY <3>1, <3>2, <4>1 DEF Beside
      <4> QED BY <4>2, WaysBeside
    <3>4. s[l] = t[l] /\ ptr[t[l]] \in Zone
      BY <1>4, <2>6, <3>1, <3>3
    <3>5. l = kk
      <4>1. Len(SubSeq(path, 1, kk)) = kk
        BY <1>5, <1>8
      <4>2. ~ (l < kk)
        BY <1>5, <1>7, <3>4, <4>1 DEF IsBranch
      <4> QED BY <1>8, <4>2
    <3>6. i \in (kk + 1) .. n
      BY <1>8, <2>9, <3>5
    <3>7. path[i] = 0 /\ qath[i] \in Nat
      BY <1>10, <1>13, <2>5, <3>6
    <3> QED BY <2>6, <3>7
  <2> QED BY <1>8, <2>8, <2>9
<1> QED BY <1>17

\* What is left to clear is on the way to no block in front of a.
LEMMA SharedAhead ==
  ASSUME TypeOK, NEW h \in Heights, EdgesOK(h), NEW a \in Nat, a < MaxBlocks,
         NEW path, path = block_to_path(a), IsPath(path), Len(path) > 1,
         NEW kk, kk = SharedDepth(path), NEW s, OnPath(ptr, path, s), Len(s) <= kk,
         NEW p \in 1 .. Len(s), NEW back \in BOOLEAN, back <=> p = kk /\ p > 1,
         SharedCut(path, s, p, back),
         NEW b \in Block, b < a, NEW qath, qath = block_to_path(b),
         NEW t, OnPath(ptr, qath, t), NEW x \in 1 .. Len(t)
  PROVE  ~ OnStack(t[x])'
<1>1. path = block_to_path(a) /\ qath = block_to_path(b)
  OBVIOUS
<1>3. /\ IsPath(qath) /\ b \in Nat /\ OnPath(ptr, qath, t)
      /\ ChainOK(h, qath, t)
  <2>1. b \in Nat /\ b < MaxBlocks
    BY Sizes DEF Block
  <2>2. IsPath(qath)
    BY <2>1, PathIs
  <2> QED BY <2>1, <2>2, ChainIs
<1>5. /\ kk \in 1 .. Len(path) /\ OnPath(ptr, path, s) /\ Len(s) <= kk
  BY SharedDepthIs DEF IsPath
<1>6. ChainOK(h, path, s)
  BY <1>5, ChainIs
<1>7. PICK n, m, l, c : n = Len(path) /\ m = Len(qath) /\ l = Len(s) /\ c = t[x]
  OBVIOUS
<1>8. /\ n \in Nat /\ m \in Nat /\ l \in Nat /\ 1 < n /\ n <= 4 /\ 1 <= m /\ m <= 4
      /\ l <= n /\ 1 <= l /\ kk \in Nat /\ kk <= n /\ l <= kk
      /\ path \in Seq(Nat) /\ qath \in Seq(Nat)
      /\ Len(path) \in 1 .. DEPTH /\ Len(qath) \in 1 .. DEPTH
  <2>1. path \in Seq(Nat) /\ qath \in Seq(Nat)
        /\ Len(path) \in 1 .. DEPTH /\ Len(qath) \in 1 .. DEPTH
    BY <1>3 DEF IsPath
  <2>2. n \in Nat /\ m \in Nat /\ n <= 4 /\ 1 <= m /\ m <= 4 /\ 1 < n
    BY <1>7, <2>1, UpTo4
  <2>3. l \in 1 .. n /\ kk \in 1 .. n
    BY <1>5, <1>7 DEF OnPath
  <2>4. l \in Nat /\ l <= n /\ 1 <= l /\ kk \in Nat /\ kk <= n
    BY <2>2, <2>3
  <2> QED BY <1>5, <1>7, <2>1, <2>2, <2>4
<1>9. /\ p \in 1 .. l /\ p \in Nat /\ 1 <= p /\ p <= l
  <2>1. p \in 1 .. l
    BY <1>7
  <2> QED BY <1>8, <2>1
<1>10. \A i \in (kk + 1) .. n : path[i] = 0
  BY <1>7, <1>8, SharedDepthIs
<1>11. Before(qath, path)
  BY <1>1, <1>3, PathOrder
<1>12. \A j \in 1 .. n : path[j] \in Nat
  <2>1. Len(path) = n /\ path \in Seq(Nat)
    BY <1>7, <1>8
  <2> HIDE <1>7, <1>8
  <2> QED BY <2>1
<1>13. \A j \in 1 .. m : qath[j] \in Nat
  <2>1. Len(qath) = m /\ qath \in Seq(Nat)
    BY <1>7, <1>8
  <2> HIDE <1>7, <1>8
  <2> QED BY <2>1
<1>14. c = t[x]
  BY <1>7
<1>15. m <= n
  BY <1>7, <1>8, <1>11 DEF Before
<1>16. ASSUME n = m
       PROVE  \E i \in 1 .. n : qath[i] < path[i] /\ \A j \in 1 .. (i - 1) : path[j] = qath[j]
  <2>1. \E i \in DOMAIN qath : qath[i] < path[i] /\ \A j \in 1 .. (i - 1) : qath[j] = path[j]
    BY <1>7, <1>8, <1>11, <1>16 DEF Before
  <2>2. DOMAIN qath = 1 .. n
    BY <1>7, <1>8, <1>16
  <2> QED BY <2>1, <2>2
<1>18. ASSUME OnStack(c)' PROVE FALSE
  <2>1. PICK k, d : CellAt(k, c, d)'
    BY <1>18 DEF OnStack
  <2>2. \/ \E y \in 2 .. p : \E j \in From(s, y, p, back) .. (IndirCount - 1) :
              c = <<s[y][1], j>>
        \/ \E y \in (n - 1) .. 2 : c = <<Inode, DIRECT + y>>
    <3>1. \/ \E y \in 2 .. p : \E j \in From(s, y, p, back) .. (IndirCount - 1) :
                c = <<s[y][1], j>> /\ d = Len(path) - y
          \/ \E y \in (Len(path) - 1) .. 2 : c = <<Inode, DIRECT + y>> /\ d = y + 1
      BY <2>1, SharedCells
    <3>2. n = Len(path)
      BY <1>7
    <3>3. CASE \E y \in 2 .. p : \E j \in From(s, y, p, back) .. (IndirCount - 1) :
                c = <<s[y][1], j>> /\ d = Len(path) - y
      BY <3>3
    <3>4. CASE \E y \in (Len(path) - 1) .. 2 : c = <<Inode, DIRECT + y>> /\ d = y + 1
      BY <3>2, <3>4
    <3> QED BY <3>1, <3>3, <3>4
  <2>3. CASE \E y \in (n - 1) .. 2 : c = <<Inode, DIRECT + y>>
    <3>1. PICK y \in (n - 1) .. 2 : c = <<Inode, DIRECT + y>>
      BY <2>3
    <3>2. t[x] = <<t[x][1], qath[x]>> /\ (x > 1 => t[x][1] \in Node(h))
      BY <1>3 DEF ChainOK
    <3>3. x = 1
      BY <1>14, <3>1, <3>2, BlockTreeAssumption DEF Node, TypeOK
    <3>4. qath[1] = DIRECT + y
      BY <1>14, <3>1, <3>2, <3>3
    <3>5. IF m = 1 THEN qath[1] < DIRECT ELSE qath[1] = DIRECT + m - 2
      BY <1>3, <1>7 DEF IsPath
    <3> QED BY <1>8, <1>15, <3>4, <3>5, Sizes
  <2>4. CASE \E y \in 2 .. p : \E j \in From(s, y, p, back) .. (IndirCount - 1) :
               c = <<s[y][1], j>>
    <3>1. PICK y \in 2 .. p : \E j \in From(s, y, p, back) .. (IndirCount - 1) :
               c = <<s[y][1], j>>
      BY <2>4
    <3>2. PICK j \in From(s, y, p, back) .. (IndirCount - 1) : c = <<s[y][1], j>>
      BY <3>1
    <3>3. y \in 1 .. Len(s) /\ y \in Nat /\ y > 1 /\ y <= p
      BY <1>7, <1>9
    <3>4. s[y][1] = t[x][1]
      BY <1>14, <3>2
    <3>5. y = x /\ n = m /\ \A i \in 1 .. (y - 1) : path[i] = qath[i]
      <4>1. Meeting(h, path, s, qath, t, y, x)
        BY <1>3, <1>5, <1>6, <3>3, <3>4 DEF Meeting
      <4>2. /\ y = x /\ \A i \in 1 .. (y - 1) : path[i] = qath[i]
            /\ Len(path) = Len(qath)
        BY <3>3, <4>1, WaysMeetThere
      <4> QED BY <1>7, <4>2
    <3>6. s[y] = <<s[y][1], path[y]>> /\ t[x] = <<t[x][1], qath[x]>>
      BY <1>3, <1>6, <3>3 DEF ChainOK
    <3>7. qath[y] = j /\ s[y][2] = path[y]
      BY <1>14, <3>2, <3>5, <3>6
    <3>8. PICK i \in 1 .. n : qath[i] < path[i] /\ \A f \in 1 .. (i - 1) : path[f] = qath[f]
      BY <1>16, <3>5
    <3>9. path[i] \in Nat /\ qath[i] \in Nat /\ path[y] \in Nat
      <4>1. y \in 1 .. n
        BY <1>7, <1>8, <3>3
      <4> QED BY <1>12, <1>13, <3>5, <4>1
    <3>10. CASE i < y
      <4>1. i \in 1 .. (y - 1)
        BY <3>3, <3>10
      <4> QED BY <3>5, <3>8, <3>9, <4>1
    <3>11. From(s, y, p, back) = IF y = p /\ back THEN path[y] ELSE path[y] + 1
      BY <3>7 DEF From
    <3>12. CASE i = y
      BY <3>7, <3>8, <3>9, <3>11, <3>12
    <3>13. CASE i > y
      <4>1. y \in 1 .. (i - 1)
        BY <3>3, <3>13
      <4>2. path[y] = j
        BY <3>7, <3>8, <4>1
      <4>3. y = p /\ back
        BY <3>9, <3>11, <4>2
      <4>4. i \in (kk + 1) .. n
        BY <1>8, <3>13, <4>3
      <4>5. path[i] = 0
        BY <1>10, <4>4
      <4> QED BY <3>8, <3>9, <4>5
    <3> QED BY <3>3, <3>10, <3>12, <3>13
  <2> QED BY <2>2, <2>3, <2>4
<1> QED BY <1>7, <1>18


\* However truncate is begun, it will reach what is behind a, and nothing in
\* front of it when all of the path could be read.
LEMMA TruncateLimits ==
  ASSUME TypeOK, NEW h \in Heights, EdgesOK(h), NEW a \in Nat, a < MaxBlocks,
         TruncateDirect(a) \/ TruncateIndirect(a) \/ TruncateReadError(a)
  PROVE  /\ \A b \in Block : b >= a /\ MapIn(ptr', b) # NoZone => \E c \in Way(b)' : OnStack(c)'
         /\ \A b \in Block : b < a => \A c \in Way(b)' : ~ OnStack(c)'
         /\ TruncateReadError(a)
            \/ \A b \in Block : b < a /\ Map(b) # NoZone => MapIn(ptr', b) = Map(b)
<1>1. PICK path, kk, s : path = block_to_path(a) /\ kk = SharedDepth(path)
                         /\ s = get_branch(ptr, SubSeq(path, 1, kk))
  OBVIOUS
<1>2. IsPath(path)
  BY <1>1, PathIs
<1>3. /\ OnPath(ptr, path, s) /\ Len(s) <= kk
      /\ \A cut \in 1 .. (Len(s) - 1) :
           OnPath(ptr, path, SubSeq(s, 1, cut)) /\ Len(SubSeq(s, 1, cut)) <= kk
  <2>1. /\ OnPath(ptr, path, s) /\ Len(s) <= kk /\ kk \in 1 .. Len(path)
        /\ \A cut \in 1 .. (Len(s) - 1) : OnPath(ptr, path, SubSeq(s, 1, cut))
    BY <1>1, <1>2, SharedChain
  <2>2. PICK X : X = ({Inode} \cup Zone) \X Nat
    OBVIOUS
  <2>3. s \in Seq(X)
    BY <2>1, <2>2 DEF OnPath, IsCells
  <2>4. PICK l, n : l = Len(s) /\ n = Len(path)
    OBVIOUS
  <2>5. n \in 1 .. DEPTH /\ l \in 1 .. n /\ kk \in 1 .. n /\ l <= kk
    BY <1>2, <2>1, <2>4 DEF IsPath, OnPath
  <2>6. n \in Nat
    BY <2>5, UpTo4
  <2>7. ASSUME NEW cut \in 1 .. (Len(s) - 1) PROVE Len(SubSeq(s, 1, cut)) <= kk
    <3>1. cut \in 1 .. (l - 1) /\ cut \in 0 .. Len(s)
      BY <2>4, <2>5, <2>6
    <3>2. Len(SubSeq(s, 1, cut)) = cut
      BY <2>3, <3>1
    <3> QED BY <2>5, <2>6, <3>1, <3>2
  <2> QED BY <2>1, <2>7
<1>4. ASSUME TruncateDirect(a)
      PROVE  /\ \A b \in Block : b >= a => \E c \in Way(b)' : OnStack(c)'
             /\ \A b \in Block : b < a => \A c \in Way(b)' : ~ OnStack(c)'
             /\ \A b \in Block : b < a /\ Map(b) # NoZone => MapIn(ptr', b) = Map(b)
  <2>1. ASSUME NEW b \in Block, b >= a PROVE \E c \in Way(b)' : OnStack(c)'
    <3>1. PICK qath, t : qath = block_to_path(b) /\ t = get_branch(ptr', qath)
      OBVIOUS
    <3>2. Branch(ptr', b, qath, t)
      BY <3>1 DEF Branch
    <3>3. OnStack(t[1])'
      BY <1>4, <2>1, <3>2, DirectBehind
    <3>4. t[1] \in Way(b)'
      <4>1. Len(t) \in 1 .. Len(qath) /\ Len(t) \in Nat
        BY <3>2, BranchTo_
      <4>2. 1 \in 1 .. Len(t)
        BY <4>1
      <4> QED BY <3>2, <4>2, WayThen
    <3> QED BY <3>3, <3>4
  <2>2. ptr' = ptr
    BY <1>4 DEF TruncateDirect
  <2>3. \A b \in Block : Way(b)' = Way(b) /\ MapIn(ptr', b) = Map(b)
    BY <2>2 DEF Way, Map
  <2>4. \A b \in Block : b < a => \A c \in Way(b) : ~ OnStack(c)'
    BY <1>4, DirectFront
  <2> QED BY <2>1, <2>3, <2>4
<1>5. ASSUME Len(path) > 1, NEW u, OnPath(ptr, path, u), Len(u) <= kk, FindShared(path, kk, u)
      PROVE  \E p \in 1 .. Len(u), back \in BOOLEAN :
               /\ p = SharedAt(u) /\ (back <=> p = kk /\ p > 1)
               /\ SharedCut(path, u, p, back)
               /\ \A b \in Block : b >= a /\ MapIn(ptr', b) # NoZone =>
                    \E c \in Way(b)' : OnStack(c)'
               /\ \A b \in Block : b < a => \A c \in Way(b)' : ~ OnStack(c)'
  <2>1. PICK p \in 1 .. Len(u), back \in BOOLEAN :
               /\ p = SharedAt(u) /\ (back <=> p = kk /\ p > 1)
               /\ SharedCut(path, u, p, back)
    BY <1>2, <1>5, FindSharedIs
  <2>2. u[p] \in Cell
    <3>1. ChainOK(h, path, u)
      BY <1>2, <1>5, ChainIs
    <3> QED BY <3>1 DEF ChainOK, Ref
  <2>3. ASSUME NEW b \in Block, b >= a, MapIn(ptr', b) # NoZone
        PROVE  \E c \in Way(b)' : OnStack(c)'
    <3>1. PICK qath, t : qath = block_to_path(b) /\ t = get_branch(ptr', qath)
      OBVIOUS
    <3>2. Branch(ptr', b, qath, t)
      BY <3>1 DEF Branch
    <3>3. \E n \in 1 .. Len(t) : OnStack(t[n])'
      BY <1>1, <1>2, <1>5, <2>1, <2>2, <2>3, <3>2, SharedBehind
    <3> QED BY <3>2, <3>3, WayThen
  <2>4. ASSUME NEW b \in Block, b < a, NEW c \in Way(b)'
        PROVE  ~ OnStack(c)'
    <3>1. PICK qath, t : qath = block_to_path(b) /\ t = get_branch(ptr', qath)
      OBVIOUS
    <3>2. Branch(ptr', b, qath, t)
      BY <3>1 DEF Branch
    <3>3. /\ IsBranch(ptr', qath, t)
          /\ \A n \in 1 .. Len(t) : t[n] \in Cell
          /\ Len(t) \in Nat
      BY <3>2, BranchTo_
    <3>4. \A e \in Cell : ptr'[e] \in Zone => ptr'[e] = ptr[e]
      BY <2>1, BlockTreeAssumption DEF SharedCut, TypeOK
    <3>5. ASSUME NEW n \in 2 .. Len(t)
          PROVE  ptr[t[n - 1]] \in Zone /\ t[n] = <<ptr[t[n - 1]], qath[n]>>
      <4>1. n - 1 \in 1 .. Len(t)
        BY <3>3
      <4>2. ptr'[t[n - 1]] \in Zone /\ t[n] = <<ptr'[t[n - 1]], qath[n]>>
        BY <3>3 DEF IsBranch
      <4> QED BY <3>3, <3>4, <4>1, <4>2
    <3>6. OnPath(ptr, qath, t)
      BY <3>3, <3>5 DEF IsBranch, OnPath
    <3>7. PICK x \in 1 .. Len(t) : c = t[x]
      BY <3>2, WayThen
    <3>8. ~ OnStack(t[x])'
      BY <1>1, <1>2, <1>5, <2>1, <2>4, <3>1, <3>6, SharedAhead
    <3> QED BY <3>7, <3>8
  <2> QED BY <2>1, <2>3, <2>4
<1>6. ASSUME TruncateIndirect(a)
      PROVE  /\ \A b \in Block : b >= a /\ MapIn(ptr', b) # NoZone =>
                  \E c \in Way(b)' : OnStack(c)'
             /\ \A b \in Block : b < a => \A c \in Way(b)' : ~ OnStack(c)'
             /\ \A b \in Block : b < a /\ Map(b) # NoZone => MapIn(ptr', b) = Map(b)
  <2>1. Len(path) > 1 /\ FindShared(path, kk, s)
    BY <1>1, <1>6 DEF TruncateIndirect
  <2>2. PICK p \in 1 .. Len(s), back \in BOOLEAN :
               /\ p = SharedAt(s) /\ (back <=> p = kk /\ p > 1)
               /\ SharedCut(path, s, p, back)
               /\ \A b \in Block : b >= a /\ MapIn(ptr', b) # NoZone =>
                    \E c \in Way(b)' : OnStack(c)'
               /\ \A b \in Block : b < a => \A c \in Way(b)' : ~ OnStack(c)'
    BY <1>3, <1>5, <2>1
  <2>3. ASSUME NEW b \in Block, b < a, Map(b) # NoZone
        PROVE  MapIn(ptr', b) = Map(b)
    <3>1. \A c \in Way(b) : ptr'[c] = ptr[c]
      BY <1>1, <1>2, <2>1, <2>2, <2>3, SharedFront
    <3> QED BY <3>1, FrontKept
  <2> QED BY <2>2, <2>3
<1>7. ASSUME TruncateReadError(a)
      PROVE  /\ \A b \in Block : b >= a /\ MapIn(ptr', b) # NoZone =>
                  \E c \in Way(b)' : OnStack(c)'
             /\ \A b \in Block : b < a => \A c \in Way(b)' : ~ OnStack(c)'
  <2>1. Len(path) > 1 /\ \E cut \in 1 .. (Len(s) - 1) : FindShared(path, kk, SubSeq(s, 1, cut))
    BY <1>1, <1>7 DEF TruncateReadError
  <2>2. PICK cut \in 1 .. (Len(s) - 1) : FindShared(path, kk, SubSeq(s, 1, cut))
    BY <2>1
  <2>3. PICK u : u = SubSeq(s, 1, cut)
    OBVIOUS
  <2>4. OnPath(ptr, path, u) /\ Len(u) <= kk /\ FindShared(path, kk, u)
    BY <1>3, <2>2, <2>3
  <2> QED BY <1>5, <2>1, <2>4
<1> QED BY <1>4, <1>6, <1>7


\* The steps of truncate.
LEMMA TruncateClears ==
  ASSUME TypeOK, NEW h \in Heights, NEW K \in SUBSET Zone, Sound(h, K),
         ClearCell \/ Descend \/ DescendError \/ FreeZone
  PROVE  Clears /\ Truncating /\ isize' = isize /\ w' = w
<1>1. Truncating /\ isize' = isize /\ w' = w /\ stack # <<>> /\ DOMAIN ptr = Cell
  BY DEF ClearCell, Descend, DescendError, FreeZone, TypeOK
<1>2. CASE ClearCell
  <2>1. PICK c0, d0 : c0 = Top.cell /\ d0 = Top.d
    OBVIOUS
  <2>2. ptr' = [ptr EXCEPT ![c0] = NoZone] /\ Top.kind = "cell"
    BY <1>2, <2>1 DEF ClearCell
  <2>3. c0 \in Cell /\ CellAt(1, c0, d0) /\ OnStack(c0) /\ d0 \in 0 .. 3
    BY <1>1, <2>1, <2>2, TopIs DEF OnStack
  <2>4. ptr'[c0] = NoZone /\ \A c \in Cell : c # c0 => ptr'[c] = ptr[c]
    BY <1>1, <2>2, <2>3
  <2>5. \A e, f : CellAt(1, e, f) => e = c0
    BY <2>3, ItemKinds DEF CellAt
  <2>6. /\ \A k, c, d : CellAt(k, c, d)' => \E m : CellAt(m, c, d)
        /\ \A k, c, d : CellAt(k, c, d) /\ k # 1 => \E m : CellAt(m, c, d)'
    <3>1. CASE ptr[c0] = NoZone
      <4>1. stack' = <<>> \o Tail(stack)
        BY <1>2, <2>1, <3>1 DEF ClearCell
      <4>2. /\ \A k, c, d : CellAt(k, c, d)' => CellAt(k + 1, c, d)
            /\ \A k, c, d : CellAt(k, c, d) => (k # 1 => CellAt(k - 1, c, d)')
        BY <1>1, <4>1, Popped
      <4> QED BY <4>2
    <3>2. CASE ptr[c0] \in Zone
      <4>1. PICK x : x = TreeItem(ptr[c0], d0)
        OBVIOUS
      <4>2. stack' = <<x>> \o Tail(stack)
        BY <1>2, <2>1, <3>2, <4>1, BlockTreeAssumption DEF ClearCell
      <4>3. x \in Item
        BY <2>3, <3>2, <4>1 DEF Item, TreeItem
      <4>4. /\ DOMAIN stack' = DOMAIN stack /\ stack'[1] = x
            /\ \A k \in DOMAIN stack : k # 1 => stack'[k] = stack[k]
        BY <1>1, <4>2, <4>3, Exchanged
      <4>5. \A c, d : CellItem(c, d) # stack'[1]
        BY <4>1, <4>4, ItemKinds
      <4> QED BY <4>4, <4>5 DEF CellAt
    <3>3. ptr[c0] = NoZone \/ ptr[c0] \in Zone
      BY <2>3 DEF Sound, Forest, CellsOK, EdgesOK, TypeOK
    <3> QED BY <3>1, <3>2, <3>3
  <2>7. \A c : OnStack(c)' => OnStack(c)
    BY <2>6 DEF OnStack
  <2>8. \A c : OnStack(c) => OnStack(c)' \/ c = c0
    BY <2>5, <2>6 DEF OnStack
  <2> QED BY <1>1, <2>3, <2>4, <2>7, <2>8 DEF Clears
<1>3. CASE Descend
  <2>1. PICK z, d0, e0 : z = Top.zone /\ d0 = Top.d /\ e0 = Top.d - 1
    OBVIOUS
  <2>2. /\ Top.kind = "tree" /\ d0 > 0 /\ ptr' = ptr
        /\ stack' = CellItems(z, 0, IndirCount - 1, e0) \o <<TreeItem(z, 0)>> \o Tail(stack)
    BY <1>3, <2>1 DEF Descend, treeVars
  <2>3. z \in Zone /\ TreeAt(1, z, d0) /\ e0 \in 0 .. 3 /\ e0 = d0 - 1 /\ d0 \in 0 .. 3
    BY <1>1, <2>1, <2>2, TopIs
  <2>4. /\ \A k \in DOMAIN stack' :
             \/ k - 1 \in Index /\ stack'[k] = CellItem(<<z, k - 1>>, e0)
             \/ stack'[k] = TreeItem(z, 0)
             \/ k - IndirCount \in DOMAIN stack /\ stack'[k] = stack[k - IndirCount]
        /\ \A k \in DOMAIN stack : k # 1 => k + IndirCount \in DOMAIN stack'
                                             /\ stack'[k + IndirCount] = stack[k]
    BY <1>1, <2>2, <2>3, Descended, ZenonT(40)
  <2>5. \A e, f : ~ CellAt(1, e, f)
    BY <2>3, ItemKinds DEF CellAt, TreeAt
  <2>6. \A c : OnStack(c) => OnStack(c)'
    BY <2>4, <2>5 DEF OnStack, CellAt
  <2>7. Cut(z)
    BY <2>3 DEF Cut
  <2>8. ASSUME NEW c, OnStack(c)' PROVE OnStack(c) \/ Cut(c[1])
    <3>1. PICK k, d : k \in DOMAIN stack' /\ stack'[k] = CellItem(c, d)
      BY <2>8 DEF OnStack, CellAt
    <3>2. stack'[k] # TreeItem(z, 0)
      BY <3>1, ItemKinds
    <3>3. CASE k - 1 \in Index /\ stack'[k] = CellItem(<<z, k - 1>>, e0)
      <4>1. PICK f : f = <<z, k - 1>>
        OBVIOUS
      <4>2. CellItem(c, d) = CellItem(f, e0)
        BY <3>1, <3>3, <4>1
      <4>3. c = f
        BY <4>2, ItemKinds
      <4> QED BY <2>7, <4>1, <4>3
    <3>4. CASE k - IndirCount \in DOMAIN stack /\ stack'[k] = stack[k - IndirCount]
      BY <3>1, <3>4 DEF OnStack, CellAt
    <3> QED BY <2>4, <3>1, <3>2, <3>3, <3>4
  <2> QED BY <1>1, <2>2, <2>6, <2>8 DEF Clears
<1>4. CASE DescendError \/ FreeZone
  <2>1. PICK z, d0 : z = Top.zone /\ d0 = Top.d
    OBVIOUS
  <2>2. Top.kind = "tree" /\ ptr' = ptr /\ stack' = Tail(stack)
    BY <1>4 DEF DescendError, FreeZone
  <2>3. TreeAt(1, z, d0)
    BY <1>1, <2>1, <2>2, TopIs
  <2>4. stack' = <<>> \o Tail(stack)
    BY <1>1, <2>2 DEF TypeOK
  <2>5. /\ \A k, c, d : CellAt(k, c, d)' => CellAt(k + 1, c, d)
        /\ \A k, c, d : CellAt(k, c, d) => (k # 1 => CellAt(k - 1, c, d)')
    BY <1>1, <2>4, Popped
  <2>6. \A e, f : ~ CellAt(1, e, f)
    BY <2>3, ItemKinds DEF CellAt, TreeAt
  <2>7. \A c : OnStack(c)' => OnStack(c)
    BY <2>5 DEF OnStack
  <2>8. \A c : OnStack(c) => OnStack(c)'
    BY <2>5, <2>6 DEF OnStack
  <2> QED BY <1>1, <2>2, <2>7, <2>8 DEF Clears
<1> QED BY <1>1, <1>2, <1>3, <1>4



-----------------------------------------------------------------------------
(* What truncate cuts off and what it leaves: a second invariant.          *)

Limits ==
  /\ errs \in 0 .. MaxErrors
  /\ w = "chunking" => isize = 0
  /\ BehindOK
  /\ FrontOK

\* find_shared goes on after a read of get_branch that failed.
CutAfterError == w = "failed" /\ errs' # errs

\* The blocks in front of i_size are mapped as before.
Kept ==
  \A b \in Block : b < isize' /\ Map(b) # NoZone => MapIn(ptr', b) = Map(b)

\* Nothing is being truncated at first.
LEMMA StartLimits ==
  ASSUME Init
  PROVE  Limits
BY Sizes DEF Init, Limits, BehindOK, FrontOK, Truncating

\* A step that leaves the pointers of the file and the stack alone.
LEMMA StillLimits ==
  ASSUME TypeOK, NEW h \in Heights, EdgesOK(h), Limits,
         \A c \in Ref(h) : ptr'[c] = ptr[c], stack' = stack,
         errs' \in errs .. MaxErrors,
         w' \in {"trunc", "chunking"} => w' = w /\ isize' = isize
  PROVE  Limits' /\ Kept
<1>1. \A b \in Block : get_branch(ptr', block_to_path(b)) = get_branch(ptr, block_to_path(b))
                       /\ MapIn(ptr', b) = Map(b)
  BY BranchStays
<1>2. \A b \in Block : Way(b)' = Way(b) /\ Map(b)' = Map(b)
  BY <1>1 DEF Way, Map
<1>3. \A c : OnStack(c)' <=> OnStack(c)
  BY DEF OnStack, CellAt
<1>4. errs' \in 0 .. MaxErrors
  BY Sizes DEF Limits
<1>5. BehindOK'
  BY <1>2, <1>3 DEF Limits, BehindOK, Truncating
<1>6. FrontOK'
  BY <1>2, <1>3 DEF Limits, FrontOK
<1> QED BY <1>1, <1>4, <1>5, <1>6 DEF Limits, Kept

\* splice_branch fills a pointer that was 0, so no way leads through it.
LEMMA SpliceLimits ==
  ASSUME TypeOK, Limits, SpliceBranch
  PROVE  Limits' /\ Kept
<1>1. PICK c0, z : c0 = Partial /\ z = new[1]
  OBVIOUS
<1>2. /\ w' = "map" /\ errs' = errs /\ ptr[c0] = NoZone
      /\ ptr' = [ptr EXCEPT ![c0] = z]
  BY <1>1 DEF SpliceBranch
<1>3. \A c \in Cell : c # c0 => ptr'[c] = ptr[c]
  BY <1>2 DEF TypeOK
<1>4. ASSUME NEW b \in Block, Map(b) # NoZone PROVE MapIn(ptr', b) = Map(b)
  <2>1. PICK path, s : path = block_to_path(b) /\ s = get_branch(ptr, path)
    OBVIOUS
  <2>2. Branch(ptr, b, path, s) /\ MapIn(ptr, b) # NoZone
    BY <1>4, <2>1 DEF Branch, Map
  <2>3. \A n \in 1 .. Len(s) : ptr[s[n]] # NoZone /\ s[n] \in Cell
    BY <2>2, MappedIs, BranchTo_
  <2>4. \A n \in 1 .. Len(s) : ptr[s[n]] = ptr'[s[n]]
    BY <1>2, <1>3, <2>3
  <2> QED BY <2>2, <2>4, WaySame DEF Map
<1>5. Limits'
  BY <1>2 DEF Limits, BehindOK, FrontOK, Truncating
<1> QED BY <1>4, <1>5 DEF Kept

\* When truncate begins, its stack holds what has to go and nothing else.
LEMMA StartedLimits ==
  ASSUME TypeOK, NEW h \in Heights, EdgesOK(h), Limits, WriteFailed \/ Chunk
  PROVE  Limits' /\ (CutAfterError \/ Kept)
<1>0. errs \in Nat /\ errs <= MaxErrors /\ MaxErrors \in Nat
  BY Sizes DEF Limits
<1>1. CASE WriteFailed
  <2>1. PICK a : a = isize
    OBVIOUS
  <2>2. /\ w' = "trunc" /\ isize' = a /\ block_to_path(a) # <<>>
        /\ TruncateDirect(a) \/ TruncateIndirect(a) \/ TruncateReadError(a)
    BY <1>1, <2>1 DEF WriteFailed
  <2>3. a \in Nat /\ a < MaxBlocks
    <3>1. a \in Nat
      BY <2>1, Sizes DEF TypeOK
    <3> QED BY <2>2, <3>1, PathIs
  <2>4. /\ errs' = errs \/ (errs' = errs + 1 /\ errs < MaxErrors)
        /\ TruncateReadError(a) => errs' = errs + 1
    BY <2>2 DEF TruncateDirect, TruncateIndirect, TruncateReadError
  <2>5. errs' \in 0 .. MaxErrors /\ (TruncateReadError(a) => CutAfterError)
    BY <1>0, <1>1, <2>4 DEF CutAfterError, WriteFailed
  <2>6. /\ \A b \in Block : b >= a /\ MapIn(ptr', b) # NoZone => \E c \in Way(b)' : OnStack(c)'
        /\ \A b \in Block : b < a => \A c \in Way(b)' : ~ OnStack(c)'
        /\ TruncateReadError(a)
           \/ \A b \in Block : b < a /\ Map(b) # NoZone => MapIn(ptr', b) = Map(b)
    BY <2>2, <2>3, TruncateLimits
  <2>7. \A b \in Block : Map(b)' = MapIn(ptr', b)
    BY DEF Map
  <2>8. BehindOK'
    BY <2>2, <2>6, <2>7 DEF BehindOK
  <2>9. FrontOK'
    BY <2>2, <2>6 DEF FrontOK
  <2>10. CutAfterError \/ Kept
    BY <2>2, <2>5, <2>6 DEF Kept
  <2> QED BY <2>2, <2>5, <2>8, <2>9, <2>10 DEF Limits
<1>2. CASE Chunk
  <2>1. w' = "chunking" /\ isize' = 0 /\ TruncateDirect(0) /\ errs' = errs
    BY <1>2 DEF Chunk, TruncateDirect
  <2>2. 0 < MaxBlocks
    BY <2>1, DirectIs, 0 \in Nat DEF TruncateDirect
  <2>3. \A b \in Block : b >= 0 /\ MapIn(ptr', b) # NoZone => \E c \in Way(b)' : OnStack(c)'
    BY <2>1, <2>2, TruncateLimits, 0 \in Nat
  <2>4. \A b \in Block : Map(b)' = MapIn(ptr', b)
    BY DEF Map
  <2>5. BehindOK'
    BY <2>1, <2>3, <2>4 DEF BehindOK
  <2>6. FrontOK'
    BY <2>1 DEF FrontOK
  <2>7. Kept
    BY <2>1, Sizes DEF Kept, Block
  <2> QED BY <1>0, <2>1, <2>5, <2>6, <2>7 DEF Limits
<1> QED BY <1>1, <1>2

\* What a step of truncate leaves to do, and what it has already done.
LEMMA ClearsLimits ==
  ASSUME TypeOK, NEW h \in Heights, NEW K \in SUBSET Zone, Sound(h, K), Limits,
         ClearCell \/ Descend \/ DescendError \/ FreeZone
  PROVE  Limits' /\ (CutAfterError \/ Kept)
<1>0. errs \in Nat /\ errs <= MaxErrors /\ MaxErrors \in Nat
  BY Sizes DEF Limits
<1>1. Clears /\ Truncating /\ isize' = isize /\ w' = w
  BY TruncateClears
<1>2. errs' = errs \/ (errs' = errs + 1 /\ errs < MaxErrors)
  BY DEF ClearCell, Descend, DescendError, FreeZone
<1>3. errs' \in 0 .. MaxErrors
  BY <1>0, <1>2
<1>4. BehindOK'
  BY <1>1, ClearsBehind DEF Limits
<1>5. ASSUME w = "trunc" PROVE FrontOK' /\ Kept
  <2>1. Forest(h, K) /\ FrontOK
    BY DEF Sound, Limits
  <2> QED BY <1>1, <1>5, <2>1, ClearsFront DEF Kept
<1>6. ASSUME w # "trunc" PROVE FrontOK' /\ Kept
  <2>1. w = "chunking" /\ isize = 0
    BY <1>1, <1>6 DEF Truncating, Limits
  <2> QED BY <1>1, <2>1, Sizes DEF FrontOK, Kept, Block
<1> QED BY <1>1, <1>3, <1>4, <1>5, <1>6 DEF Limits



\* alloc_branch writes only to blocks that the file does not point to yet.
LEMMA AllocCells ==
  ASSUME TypeOK, NEW h \in Heights, EdgesOK(h), AllocBlock
  PROVE  \A c \in Ref(h) : ptr'[c] = ptr[c]
<1> DEFINE at == block_to_path(wb)[Len(block_to_path(wb)) - Left + 1 + Len(new)]
<1>1. PICK z \in free :
        ptr' = [c \in Cell |->
              IF new # <<>> /\ c[1] = new[Len(new)]
              THEN IF c[2] = at THEN z ELSE NoZone
              ELSE IF c[1] = z /\ Len(new) + 1 = Left THEN Junk
              ELSE ptr[c]]
  BY Zenon DEF AllocBlock
<1> HIDE DEF at
<1>2. z \notin own /\ z # Inode
  BY BlockTreeAssumption DEF TypeOK
<1>3. new # <<>> => new[Len(new)] \in New /\ new[Len(new)] # Inode
  <2>1. new # <<>> => Len(new) \in DOMAIN new /\ new[Len(new)] \in Zone
    BY DEF TypeOK
  <2> QED BY <2>1, BlockTreeAssumption DEF New
<1>4. ASSUME NEW c \in Ref(h) PROVE ptr'[c] = ptr[c]
  <2>1. c \in Cell /\ c[1] # z /\ (c[1] = Inode \/ c[1] \notin New)
    BY <1>2 DEF Ref, Node
  <2> QED BY <1>1, <1>3, <2>1
<1> QED BY <1>4

\* Another file takes no zone that this one points to.
LEMMA OtherCells ==
  ASSUME TypeOK, NEW h \in Heights, NEW z \in Zone, OtherTakes(z)
  PROVE  \A c \in Ref(h) : ptr'[c] = ptr[c]
<1>1. z \notin own /\ z # Inode
  BY BlockTreeAssumption DEF TypeOK, OtherTakes
<1>2. \A c \in Cell : c[1] # z => ptr'[c] = ptr[c]
  BY DEF OtherTakes
<1> QED BY <1>1, <1>2 DEF Ref, Node

\* What the steps do that neither truncate nor splice a branch.
Still(h) ==
  /\ \A c \in Ref(h) : ptr'[c] = ptr[c]
  /\ stack' = stack
  /\ errs' \in errs .. MaxErrors
  /\ w' \in {"trunc", "chunking"} => w' = w /\ isize' = isize

LEMMA WriterStill ==
  ASSUME TypeOK, NEW h \in Heights, EdgesOK(h), errs \in 0 .. MaxErrors,
         \/ \E b \in WriteAt, n \in 1 .. MaxWrite : Write(b, n)
         \/ GetBlockFound \/ GetBlockHole \/ GetBlockError \/ WriteEnd
         \/ AllocBlock \/ AllocFail \/ WriteFailedInside \/ TruncateEnd
         \/ \E s \in NewSizes : SetSize(s)
  PROVE  Still(h)
<1> USE Sizes DEF treeVars, writerVars, Still
<1>1. CASE \E b \in WriteAt, n \in 1 .. MaxWrite : Write(b, n)
  BY <1>1 DEF Write
<1>2. CASE GetBlockFound
  BY <1>2 DEF GetBlockFound
<1>3. CASE GetBlockHole
  BY <1>3 DEF GetBlockHole
<1>4. CASE GetBlockError
  BY <1>4 DEF GetBlockError
<1>5. CASE WriteEnd
  BY <1>5 DEF WriteEnd
<1>6. CASE AllocBlock
  <2>1. /\ stack' = stack /\ errs' = errs /\ w' = w /\ isize' = isize
    BY <1>6 DEF AllocBlock
  <2>2. \A c \in Ref(h) : ptr'[c] = ptr[c]
    BY <1>6, AllocCells
  <2> QED BY <2>1, <2>2
<1>7. CASE AllocFail
  BY <1>7 DEF AllocFail
<1>8. CASE WriteFailedInside
  BY <1>8 DEF WriteFailedInside
<1>9. CASE TruncateEnd
  BY <1>9 DEF TruncateEnd
<1>10. CASE \E s \in NewSizes : SetSize(s)
  BY <1>10 DEF SetSize
<1> QED BY <1>1, <1>2, <1>3, <1>4, <1>5, <1>6, <1>7, <1>8, <1>9, <1>10

LEMMA StepLimits ==
  ASSUME IInv, Limits, [Next]_vars
  PROVE  Limits' /\ (CutAfterError \/ Kept)
<1>1. TypeOK /\ errs \in 0 .. MaxErrors /\ errs \in errs .. MaxErrors
  BY Sizes DEF IInv, Limits
<1>2. PICK h \in Heights, K \in SUBSET Zone : Sound(h, K)
  BY DEF IInv
<1>3. EdgesOK(h)
  BY <1>2 DEF Sound, Forest
<1>4. ASSUME Still(h) PROVE Limits' /\ (CutAfterError \/ Kept)
  BY <1>1, <1>3, <1>4, StillLimits DEF Still
<1>5. CASE UNCHANGED vars
  <2>1. Still(h)
    BY <1>1, <1>5 DEF vars, Still
  <2> QED BY <1>4, <2>1
<1>6. ASSUME NEW r \in Reader, ReaderStep(r) PROVE Limits' /\ (CutAfterError \/ Kept)
  <2>1. Still(h)
    BY <1>1, <1>6, ReaderQuiet DEF treeVars, writerVars, Still
  <2> QED BY <1>4, <2>1
<1>7. ASSUME NEW z \in Zone, OtherTakes(z) \/ OtherGives(z)
      PROVE  Limits' /\ (CutAfterError \/ Kept)
  <2>1. \A c \in Ref(h) : ptr'[c] = ptr[c]
    BY <1>1, <1>7, OtherCells DEF OtherGives
  <2>2. UNCHANGED <<isize, errs, writerVars>>
    BY <1>7 DEF OtherTakes, OtherGives
  <2>3. Still(h)
    BY <1>1, <2>1, <2>2 DEF writerVars, Still
  <2> QED BY <1>4, <2>3
<1>8. CASE Writer
  <2>1. CASE \/ \E b \in WriteAt, n \in 1 .. MaxWrite : Write(b, n)
             \/ GetBlockFound \/ GetBlockHole \/ GetBlockError \/ WriteEnd
             \/ AllocBlock \/ AllocFail \/ WriteFailedInside \/ TruncateEnd
             \/ \E s \in NewSizes : SetSize(s)
    <3>1. Still(h)
      BY <1>1, <1>3, <2>1, WriterStill
    <3> QED BY <1>4, <3>1
  <2>2. CASE SpliceBranch
    BY <1>1, <2>2, SpliceLimits
  <2>3. CASE WriteFailed \/ Chunk
    BY <1>1, <1>3, <2>3, StartedLimits
  <2>4. CASE ClearCell \/ Descend \/ DescendError \/ FreeZone
    BY <1>1, <1>2, <2>4, ClearsLimits
  <2> QED BY <1>8, <2>1, <2>2, <2>3, <2>4 DEF Writer
<1> QED BY <1>5, <1>6, <1>7, <1>8 DEF Next

\* While truncate runs, everything behind i_size is on its stack and nothing in
\* front of it, after a failed read too.
THEOREM LimitsHold == Spec => []Limits
<1>1. Init => Limits
  BY StartLimits
<1>2. IInv /\ Limits /\ [Next]_vars => Limits'
  BY StepLimits
<1> QED BY <1>1, <1>2, Invariant, PTL DEF Spec

\* No step of a write, of find_shared or of free_branches changes what a block
\* in front of i_size is mapped to, but for find_shared after a failed read.
THEOREM KeptUnlessError == Spec => [][CutAfterError \/ Kept]_vars
<1>1. IInv /\ Limits /\ [Next]_vars => [CutAfterError \/ Kept]_vars
  BY StepLimits
<1> QED BY <1>1, LimitsHold, Invariant, PTL DEF Spec

\* truncate leaves the blocks in front of i_size as they are when its reads do
\* not fail; after an error of sb_bread find_shared may cut off more.
THEOREM FrontIsKept ==
  ASSUME MaxErrors = 0
  PROVE  Spec => KeepsFront
<1>1. IInv /\ Limits /\ Limits' /\ [Next]_vars =>
        [\A b \in Block : b < isize' /\ Map(b) # NoZone => MapIn(ptr', b) = Map(b)]_vars
  <2> SUFFICES ASSUME IInv, Limits, Limits', [Next]_vars PROVE Kept
    BY DEF Kept
  <2>1. ~ CutAfterError
    BY DEF Limits, CutAfterError
  <2> QED BY <2>1, StepLimits
<1> QED BY <1>1, LimitsHold, Invariant, PTL DEF Spec, KeepsFront

\* The end of truncate is the only step that leaves it.
LEMMA LeavesTruncate ==
  ASSUME [Next]_vars, Truncating, ~ Truncating'
  PROVE  TruncateEnd
<1>1. w \in {"trunc", "chunking"} /\ w' \notin {"trunc", "chunking"}
  BY DEF Truncating
<1>2. CASE UNCHANGED vars
  BY <1>1, <1>2 DEF vars
<1>3. ASSUME NEW r \in Reader, ReaderStep(r) PROVE FALSE
  BY <1>1, <1>3, ReaderQuiet DEF writerVars
<1>4. ASSUME NEW z \in Zone, OtherTakes(z) \/ OtherGives(z) PROVE FALSE
  BY <1>1, <1>4 DEF OtherTakes, OtherGives, writerVars
<1>5. ASSUME NEW b \in WriteAt, NEW n \in 1 .. MaxWrite, Write(b, n) PROVE FALSE
  BY <1>1, <1>5 DEF Write
<1>6. ASSUME NEW s \in NewSizes, SetSize(s) PROVE FALSE
  BY <1>1, <1>6 DEF SetSize
<1>7. CASE GetBlockFound \/ GetBlockHole \/ GetBlockError \/ WriteEnd
  BY <1>1, <1>7 DEF GetBlockFound, GetBlockHole, GetBlockError, WriteEnd
<1>8. CASE AllocBlock \/ AllocFail \/ SpliceBranch
  BY <1>1, <1>8 DEF AllocBlock, AllocFail, SpliceBranch
<1>9. CASE WriteFailed \/ WriteFailedInside \/ Chunk
  BY <1>1, <1>9 DEF WriteFailed, WriteFailedInside, Chunk
<1>10. CASE ClearCell \/ Descend \/ DescendError \/ FreeZone
  BY <1>1, <1>10 DEF ClearCell, Descend, DescendError, FreeZone
<1> QED BY <1>2, <1>3, <1>4, <1>5, <1>6, <1>7, <1>8, <1>9, <1>10 DEF Next, Writer

\* When truncate returns no block is mapped from i_size on, even if a read has
\* failed on the way.
THEOREM TruncateCompletes == Spec => TruncateComplete
<1>1. Limits /\ [Next]_vars =>
        [Truncating /\ ~ Truncating' => \A b \in Block : b >= isize => Map(b) = NoZone]_vars
  <2> SUFFICES ASSUME Limits, [Next]_vars, Truncating, ~ Truncating',
                      NEW b \in Block, b >= isize, Map(b) # NoZone
               PROVE  FALSE
    OBVIOUS
  <2>1. stack = <<>>
    BY LeavesTruncate DEF TruncateEnd
  <2>2. \E c \in Way(b) : OnStack(c)
    BY DEF Limits, BehindOK
  <2> QED BY <2>1, <2>2, EmptyStack
<1> QED BY <1>1, LimitsHold, PTL DEF Spec, TruncateComplete



-----------------------------------------------------------------------------
(* What the readers have read: a third invariant.                          *)

Chunked == w \in {"chunking", "chunked"}

Link == [cell : Cell, key : Pointer]

\* A chain leads along a path by the pointers that were read.
LinksOK(path, c) ==
  /\ c \in Seq(Link)
  /\ Len(c) \in 1 .. Len(path)
  /\ c[1].cell = <<Inode, path[1]>>
  /\ \A n \in 2 .. Len(c) : c[n - 1].key \in Zone
                            /\ c[n].cell = <<c[n - 1].key, path[n]>>

\* The pointers p are those of the chain.
Match(p, c) == \A n \in 1 .. Len(c) : p[c[n].cell] = c[n].key

\* The last pointer of a chain, which is what get_block returns.
KeyOf(c) == c[Len(c)].key
Complete(path, c) == KeyOf(c) \notin Zone \/ Len(c) = Len(path)

\* A call of get_block for block b that has read the chain c: what it will
\* return was once right, and a chain that was verified still is.
CallOK(p, size, pc, b, c, zones) ==
  /\ b \in Block /\ b < size
  /\ MapIn(p, b) \in zones
  /\ LinksOK(block_to_path(b), c)
  /\ Complete(block_to_path(b), c) => KeyOf(c) \in zones
  /\ pc = "verified" => Match(p, c) /\ ~ Complete(block_to_path(b), c)

ReaderOK(r) ==
  rpc[r] # "idle" /\ ~ Chunked =>
    CallOK(ptr, isize, rpc[r], rb[r], rchain[r], seen[r])

IsCalls(f) == f = [r \in Reader |-> f[r]]

ReadersOK ==
  /\ IsCalls(rpc) /\ IsCalls(rb) /\ IsCalls(rchain) /\ IsCalls(res) /\ IsCalls(seen)
  /\ \A r \in Reader : ReaderOK(r)

LEMMA LinksAre ==
  ASSUME NEW path, IsPath(path), NEW c, LinksOK(path, c)
  PROVE  /\ Len(c) \in Nat /\ Len(path) \in Nat /\ 1 <= Len(c) /\ Len(c) <= Len(path)
         /\ Len(path) <= 4 /\ DOMAIN c = 1 .. Len(c) /\ Len(c) \in 1 .. Len(c)
         /\ \A n \in 1 .. Len(c) : c[n] \in Link
<1>1. Len(path) \in 1 .. DEPTH
  BY DEF IsPath
<1>2. Len(path) \in Nat /\ Len(path) <= 4
  BY <1>1, UpTo4
<1>3. c \in Seq(Link) /\ Len(c) \in 1 .. Len(path)
  BY DEF LinksOK
<1> HIDE DEF Link
<1>4. Len(c) \in Nat /\ 1 <= Len(c) /\ Len(c) <= Len(path) /\ Len(c) \in 1 .. Len(c)
  BY <1>2, <1>3
<1>5. DOMAIN c = 1 .. Len(c) /\ \A n \in 1 .. Len(c) : c[n] \in Link
  BY <1>3
<1> QED BY <1>2, <1>4, <1>5

\* A chain that matches the pointers is the beginning of the branch.
LEMMA MatchIs ==
  ASSUME NEW p, NEW b \in Block, NEW path, NEW s, Branch(p, b, path, s),
         NEW c, LinksOK(path, c), Match(p, c)
  PROVE  Len(c) <= Len(s) /\ \A n \in 1 .. Len(c) : c[n].cell = s[n]
<1>0. /\ IsPath(path) /\ IsBranch(p, path, s)
      /\ Len(s) \in Nat /\ Len(path) \in Nat /\ 1 <= Len(s) /\ Len(s) <= Len(path)
  <2>1. IsPath(path) /\ IsBranch(p, path, s) /\ Len(s) \in 1 .. Len(path)
        /\ Len(s) \in Nat /\ Len(path) \in Nat
    BY BranchTo_
  <2> QED BY <2>1
<1> DEFINE A(n) == n <= Len(c) => n <= Len(s) /\ c[n].cell = s[n]
<1>1. Len(c) \in Nat /\ 1 <= Len(c) /\ Len(c) <= Len(path) /\ Len(path) <= 4
  BY <1>0, LinksAre
<1>2. A(1)
  BY <1>0 DEF LinksOK, IsBranch
<1>3. ASSUME NEW n \in Nat, 1 <= n, A(n) PROVE A(n + 1)
  <2> SUFFICES ASSUME n + 1 <= Len(c) PROVE n + 1 <= Len(s) /\ c[n + 1].cell = s[n + 1]
    OBVIOUS
  <2>1. n <= Len(c) /\ n < Len(c) /\ n \in 1 .. Len(c) /\ n + 1 \in 2 .. Len(c)
        /\ (n + 1) - 1 = n /\ n < Len(path)
    <3>1. PICK l, m : l = Len(c) /\ m = Len(path)
      OBVIOUS
    <3>2. l \in Nat /\ l <= m /\ m \in Nat /\ n + 1 <= l
      BY <1>1, <3>1
    <3>3. n <= l /\ n < l /\ n \in 1 .. l /\ n + 1 \in 2 .. l /\ (n + 1) - 1 = n /\ n < m
      BY <1>3, <3>2
    <3> QED BY <3>1, <3>3
  <2>2. n <= Len(s) /\ c[n].cell = s[n]
    BY <1>3, <2>1
  <2>3. c[n].key \in Zone /\ c[n + 1].cell = <<c[n].key, path[n + 1]>>
    BY <2>1 DEF LinksOK
  <2>4. p[s[n]] = c[n].key
    BY <2>1, <2>2 DEF Match
  <2>5. n < Len(s)
    <3>1. n = Len(s) => p[s[n]] \notin Zone
      BY <1>0, <2>1 DEF IsBranch
    <3>2. n # Len(s)
      BY <2>3, <2>4, <3>1
    <3> QED BY <1>0, <2>2, <3>2
  <2>6. s[n + 1] = <<p[s[n]], path[n + 1]>>
    BY <1>0, <1>3, <2>5, BranchStep
  <2> QED BY <1>0, <2>3, <2>4, <2>5, <2>6
<1> HIDE DEF A
<1>4. A(1) /\ A(2) /\ A(3) /\ A(4)
  <2>1. A(2)
    BY <1>2, <1>3, 1 + 1 = 2
  <2>2. A(3)
    BY <2>1, <1>3, 2 + 1 = 3
  <2>3. A(4)
    BY <2>2, <1>3, 3 + 1 = 4
  <2> QED BY <1>2, <2>1, <2>2, <2>3
<1>5. ASSUME NEW n \in Nat, 1 <= n, n <= Len(c) PROVE n <= Len(s) /\ c[n].cell = s[n]
  <2>1. n = 1 \/ n = 2 \/ n = 3 \/ n = 4
    BY <1>1, <1>5
  <2> QED BY <1>4, <1>5, <2>1 DEF A
<1>6. \A n \in 1 .. Len(c) : n \in Nat /\ 1 <= n /\ n <= Len(c)
  BY <1>1
<1> QED BY <1>1, <1>5, <1>6

\* When nothing follows, its last pointer is what the block is mapped to.
LEMMA MatchMap ==
  ASSUME TypeOK, NEW h \in Heights, EdgesOK(h), NEW b \in Block,
         NEW c, LinksOK(block_to_path(b), c), Match(ptr, c), Complete(block_to_path(b), c)
  PROVE  KeyOf(c) = Map(b)
<1>1. PICK path, s : path = block_to_path(b) /\ s = get_branch(ptr, path)
  OBVIOUS
<1>2. Branch(ptr, b, path, s)
  BY <1>1 DEF Branch
<1>3. PICK n : n = Len(c)
  OBVIOUS
<1>4. IsPath(path) /\ IsBranch(ptr, path, s) /\ Len(s) \in Nat /\ Len(path) \in Nat
      /\ Len(s) \in 1 .. Len(path)
  BY <1>2, BranchTo_
<1>5. n \in Nat /\ 1 <= n /\ n <= Len(s) /\ n \in 1 .. Len(c) /\ c[n].cell = s[n]
  BY <1>1, <1>2, <1>3, <1>4, LinksAre, MatchIs
<1>6. KeyOf(c) = ptr[s[n]] /\ (ptr[s[n]] \notin Zone \/ n = Len(path))
  BY <1>1, <1>3, <1>5 DEF Match, KeyOf, Complete
<1>7. n = Len(s)
  <2>1. n < Len(s) => ptr[s[n]] \in Zone
    BY <1>4, <1>5, BranchStep
  <2> QED BY <1>4, <1>5, <1>6, <2>1
<1>8. CASE Len(s) = Len(path)
  <2>1. path # <<>>
    BY <1>1, BranchRef
  <2> QED BY <1>1, <1>6, <1>7, <1>8, <2>1 DEF Map, MapIn
<1>9. CASE Len(s) # Len(path)
  <2>1. Map(b) = NoZone
    BY <1>1, <1>9 DEF Map, MapIn
  <2>2. s[n] \in Ref(h)
    <3>1. ChainOK(h, path, s)
      BY <1>1, BranchRef
    <3>2. n \in 1 .. Len(s)
      BY <1>5
    <3> QED BY <3>1, <3>2 DEF ChainOK
  <2>3. ptr[s[n]] \notin Zone
    BY <1>6, <1>7, <1>9
  <2>4. ptr[s[n]] = NoZone
    BY <2>2, <2>3 DEF EdgesOK, TypeOK
  <2> QED BY <1>6, <2>1, <2>4
<1> QED BY <1>8, <1>9



\* What add_chain appends is the next pointer of the branch.
LEMMA LinksNext ==
  ASSUME TypeOK, NEW b \in Block, NEW path, path = block_to_path(b),
         NEW c, LinksOK(path, c), Match(ptr, c), ~ Complete(path, c),
         NEW e, e = <<KeyOf(c), path[Len(c) + 1]>>,
         NEW d, d = Append(c, [cell |-> e, key |-> ptr[e]])
  PROVE  LinksOK(path, d) /\ Match(ptr, d)
<1>1. IsPath(path) /\ path \in Seq(Nat)
  <2>1. b \in Nat /\ b < MaxBlocks
    BY Sizes DEF Block
  <2> QED BY <2>1, PathIs DEF IsPath
<1>2. PICK l, m : l = Len(c) /\ m = Len(path)
  OBVIOUS
<1>3. l \in Nat /\ m \in Nat /\ 1 <= l /\ l <= m /\ c \in Seq(Link)
  BY <1>1, <1>2, LinksAre DEF LinksOK
<1>4. KeyOf(c) \in Zone /\ l # m
  BY <1>2 DEF Complete
<1>5. l < m /\ l + 1 \in 2 .. m
  BY <1>3, <1>4
<1>6. path[l + 1] \in Index
  BY <1>1, <1>2, <1>5 DEF IsPath
<1>7. e \in Cell /\ ptr[e] \in Pointer
  BY <1>2, <1>4, <1>6 DEF Cell, TypeOK
<1>8. PICK f : f = [cell |-> e, key |-> ptr[e]]
  OBVIOUS
<1>9. f \in Link /\ f.cell = e /\ f.key = ptr[e]
  BY <1>7, <1>8 DEF Link
<1>10. /\ d \in Seq(Link) /\ Len(d) = l + 1 /\ d[l + 1] = f
       /\ \A n \in 1 .. l : d[n] = c[n]
  <2> HIDE DEF Link
  <2> QED BY <1>2, <1>3, <1>8, <1>9
<1>11. ASSUME NEW n \in 2 .. Len(d)
       PROVE  d[n - 1].key \in Zone /\ d[n].cell = <<d[n - 1].key, path[n]>>
  <2>1. n \in 2 .. (l + 1) /\ n - 1 \in 1 .. l
    BY <1>3, <1>10
  <2>2. d[n - 1] = c[n - 1]
    BY <1>10, <2>1
  <2>3. CASE n = l + 1
    <3>1. n - 1 = l
      BY <1>3, <2>3
    <3>2. c[n - 1].key = KeyOf(c)
      BY <1>2, <3>1 DEF KeyOf
    <3> QED BY <1>2, <1>4, <1>9, <1>10, <2>2, <2>3, <3>2
  <2>4. CASE n # l + 1
    <3>1. n \in 2 .. l /\ n \in 1 .. l
      BY <1>3, <2>1, <2>4
    <3>2. c[n - 1].key \in Zone /\ c[n].cell = <<c[n - 1].key, path[n]>>
      BY <1>2, <3>1 DEF LinksOK
    <3> QED BY <1>10, <2>2, <3>1, <3>2
  <2> QED BY <2>3, <2>4
<1>12. LinksOK(path, d)
  <2>1. 1 \in 1 .. l /\ l + 1 \in 1 .. m
    BY <1>3, <1>5
  <2>2. d[1].cell = <<Inode, path[1]>>
    BY <1>10, <2>1 DEF LinksOK
  <2>3. Len(d) \in 1 .. Len(path)
    BY <1>2, <1>10, <2>1
  <2> QED BY <1>10, <1>11, <2>2, <2>3 DEF LinksOK
<1>13. Match(ptr, d)
  <2> SUFFICES ASSUME NEW n \in 1 .. Len(d) PROVE ptr[d[n].cell] = d[n].key
    BY DEF Match
  <2>1. CASE n = l + 1
    BY <1>9, <1>10, <2>1
  <2>2. CASE n # l + 1
    <3>1. n \in 1 .. l
      BY <1>3, <1>10, <2>2
    <3> QED BY <1>2, <1>10, <3>1 DEF Match
  <2> QED BY <2>1, <2>2
<1> QED BY <1>12, <1>13

\* The first pointer is that of the inode.
LEMMA LinksFirst ==
  ASSUME TypeOK, NEW b \in Block, NEW path, path = block_to_path(b),
         NEW e, e = <<Inode, path[1]>>,
         NEW d, d = <<[cell |-> e, key |-> ptr[e]]>>
  PROVE  LinksOK(path, d) /\ Match(ptr, d)
<1>1. PICK s : s = get_branch(ptr, path)
  OBVIOUS
<1>2. Branch(ptr, b, path, s)
  BY <1>1 DEF Branch
<1>3. /\ IsBranch(ptr, path, s) /\ Len(s) \in 1 .. Len(path) /\ Len(s) \in Nat
      /\ Len(path) \in Nat /\ \A n \in 1 .. Len(s) : s[n] \in Cell
  BY <1>2, BranchTo_
<1>4. 1 \in 1 .. Len(s) /\ 1 \in 1 .. Len(path)
  BY <1>3
<1>5. e \in Cell /\ ptr[e] \in Pointer
  BY <1>3, <1>4 DEF IsBranch, TypeOK
<1>6. PICK f : f = [cell |-> e, key |-> ptr[e]]
  OBVIOUS
<1>7. f \in Link /\ f.cell = e /\ f.key = ptr[e] /\ d = <<f>>
  BY <1>5, <1>6 DEF Link
<1>8. d \in Seq(Link) /\ Len(d) = 1 /\ d[1] = f
  BY <1>7
<1>9. LinksOK(path, d)
  BY <1>4, <1>7, <1>8 DEF LinksOK
<1>10. Match(ptr, d)
  BY <1>7, <1>8 DEF Match
<1> QED BY <1>9, <1>10

\* A step of reader r.
LEMMA ReaderStepOK ==
  ASSUME TypeOK, NEW h \in Heights, EdgesOK(h), ReadersOK, NEW r \in Reader, ReaderStep(r)
  PROVE  ReadersOK'
<1>1. ptr' = ptr /\ isize' = isize /\ w' = w
  BY ReaderQuiet DEF treeVars, writerVars
<1>2. /\ IsCalls(rpc)' /\ IsCalls(rb)' /\ IsCalls(rchain)' /\ IsCalls(res)' /\ IsCalls(seen)'
      /\ \A q \in Reader : q # r => /\ rpc'[q] = rpc[q] /\ rb'[q] = rb[q]
                                    /\ rchain'[q] = rchain[q] /\ seen'[q] = seen[q]
  BY DEF ReadersOK, IsCalls, ReaderStep, ReadStart, ReadReturn, ReadError, VerifyChain,
         ChainChanged, AddChain, Return
<1>3. ASSUME NEW q \in Reader, q # r PROVE ReaderOK(q)'
  BY <1>1, <1>2, <1>3 DEF ReadersOK, ReaderOK, Chunked
<1>4. ReaderOK(r)'
  <2> SUFFICES ASSUME rpc'[r] # "idle", ~ Chunked
               PROVE  CallOK(ptr, isize, rpc'[r], rb'[r], rchain'[r], seen'[r])
    BY <1>1 DEF ReaderOK, Chunked
  <2>1. ASSUME NEW b \in Block, ReadStart(r, b)
        PROVE  CallOK(ptr, isize, rpc'[r], rb'[r], rchain'[r], seen'[r])
    <3>1. PICK path, e, d : path = block_to_path(b) /\ e = <<Inode, path[1]>>
                            /\ d = <<[cell |-> e, key |-> ptr[e]]>>
      OBVIOUS
    <3>2. /\ b < isize /\ rpc'[r] = "walk" /\ rb'[r] = b /\ rchain'[r] = d
          /\ seen'[r] = {Map(b)}
      BY <2>1, <3>1 DEF ReadStart, ReadersOK, IsCalls
    <3>3. LinksOK(path, d) /\ Match(ptr, d)
      BY <3>1, LinksFirst
    <3>4. Complete(path, d) => KeyOf(d) = Map(b)
      BY <3>1, <3>3, MatchMap
    <3> QED BY <3>1, <3>2, <3>3, <3>4 DEF CallOK, Map
  <2>2. CASE ReadReturn(r) \/ ReadError(r) \/ ChainChanged(r)
    BY <2>2 DEF ReadReturn, ReadError, ChainChanged, Return, ReadersOK, IsCalls
  <2>3. CASE VerifyChain(r)
    <3>1. /\ rpc'[r] = "verified" /\ rb'[r] = rb[r] /\ rchain'[r] = rchain[r]
          /\ seen'[r] = seen[r] /\ Walking(r) /\ Verified(r)
      BY <2>3 DEF VerifyChain, ReadersOK, IsCalls
    <3>2. CallOK(ptr, isize, rpc[r], rb[r], rchain[r], seen[r])
      BY <3>1 DEF Walking, ReadersOK, ReaderOK
    <3>3. PICK c, path : c = rchain[r] /\ path = block_to_path(rb[r])
      OBVIOUS
    <3>4. LinksOK(path, c) /\ IsPath(path)
      <4>1. rb[r] \in Nat /\ rb[r] < MaxBlocks
        BY <3>2, Sizes DEF CallOK, Block
      <4> QED BY <3>2, <3>3, <4>1, PathIs DEF CallOK
    <3>5. DOMAIN c = 1 .. Len(c) /\ Len(c) \in Nat /\ Len(path) \in Nat
      BY <3>4, LinksAre
    <3>6. Match(ptr, c)
      BY <3>1, <3>3, <3>5 DEF Verified, Match
    <3>7. ~ Complete(path, c)
      BY <3>1, <3>3, <3>5 DEF Walking, LastKey, Path, Complete, KeyOf
    <3> QED BY <3>1, <3>2, <3>3, <3>6, <3>7 DEF CallOK
  <2>4. CASE AddChain(r)
    <3>1. PICK c, b : c = rchain[r] /\ b = rb[r]
      OBVIOUS
    <3>2. PICK path, e, d : path = block_to_path(b) /\ e = <<KeyOf(c), path[Len(c) + 1]>>
                            /\ d = Append(c, [cell |-> e, key |-> ptr[e]])
      OBVIOUS
    <3>3. /\ rpc[r] = "verified" /\ rpc'[r] = "walk" /\ rb'[r] = b /\ rchain'[r] = d
          /\ seen'[r] = seen[r]
      BY <2>4, <3>1, <3>2 DEF AddChain, ReadersOK, IsCalls, LastKey, KeyOf, Path
    <3>4. CallOK(ptr, isize, "verified", b, c, seen[r])
      BY <3>1, <3>3 DEF ReadersOK, ReaderOK
    <3>5. /\ b \in Block /\ LinksOK(path, c) /\ Match(ptr, c) /\ ~ Complete(path, c)
          /\ Map(b) \in seen[r] /\ b < isize
      BY <3>2, <3>4 DEF CallOK, Map
    <3>6. LinksOK(path, d) /\ Match(ptr, d)
      BY <3>2, <3>5, LinksNext
    <3>7. Complete(path, d) => KeyOf(d) = Map(b)
      BY <3>2, <3>5, <3>6, MatchMap
    <3> QED BY <3>2, <3>3, <3>5, <3>6, <3>7 DEF CallOK, Map
  <2> QED BY <2>1, <2>2, <2>3, <2>4 DEF ReaderStep
<1> QED BY <1>2, <1>3, <1>4 DEF ReadersOK



\* What the other steps leave of a call that goes on.
Frame ==
  /\ UNCHANGED callVars
  /\ IsCalls(seen)'
  /\ \A r \in Reader : rpc[r] # "idle" =>
       /\ seen[r] \subseteq seen'[r]
       /\ Map(rb[r]) \in seen[r] => MapIn(ptr', rb[r]) \in seen'[r]
  /\ ~ Chunked' =>
       /\ ~ Chunked
       /\ \A r \in Reader : rpc[r] # "idle" /\ rb[r] \in Block /\ rb[r] < isize => rb[r] < isize'

LEMMA QuietFrame ==
  ASSUME IsCalls(seen), ptr' = ptr, UNCHANGED readerVars,
         Chunked' \/ (~ Chunked /\ isize' = isize)
  PROVE  Frame
BY DEF Frame, readerVars, callVars, Map, IsCalls

LEMMA ObservedFrame ==
  ASSUME Observe, Chunked' \/ (~ Chunked /\ isize' = isize)
  PROVE  Frame
<1>1. UNCHANGED callVars
  BY DEF Observe
<1>2. seen' = [r \in Reader |-> IF rpc[r] = "idle" THEN {}
                                ELSE seen[r] \cup {MapIn(ptr', rb[r])}]
  BY DEF Observe
<1>3. IsCalls(seen)'
  BY <1>2 DEF IsCalls
<1> QED BY <1>1, <1>2, <1>3 DEF Frame

LEMMA OtherFrame ==
  ASSUME ReadersOK, NEW z \in Zone, OtherTakes(z) \/ OtherGives(z)
  PROVE  Frame
<1>1. isize' = isize /\ Chunked' = Chunked
  BY DEF OtherTakes, OtherGives, writerVars, Chunked
<1>2. CASE OtherTakes(z)
  <2>1. Observe
    BY <1>2 DEF OtherTakes
  <2> QED BY <1>1, <2>1, ObservedFrame
<1>3. CASE OtherGives(z)
  <2>1. ptr' = ptr /\ UNCHANGED readerVars /\ IsCalls(seen)
    BY <1>3 DEF OtherGives, ReadersOK
  <2> QED BY <1>1, <2>1, QuietFrame
<1> QED BY <1>2, <1>3

LEMMA WriterFrame ==
  ASSUME TypeOK, ReadersOK, Writer
  PROVE  Frame
<1>0. IsCalls(seen)
  BY DEF ReadersOK
<1>1. CASE \E b \in WriteAt, n \in 1 .. MaxWrite : Write(b, n)
  <2>1. ptr' = ptr /\ UNCHANGED readerVars /\ (Chunked' \/ (~ Chunked /\ isize' = isize))
    BY <1>1 DEF Write, treeVars, Chunked
  <2> QED BY <1>0, <2>1, QuietFrame
<1>2. CASE GetBlockFound \/ GetBlockHole \/ GetBlockError
  <2>1. ptr' = ptr /\ UNCHANGED readerVars /\ (Chunked' \/ (~ Chunked /\ isize' = isize))
    BY <1>2 DEF GetBlockFound, GetBlockHole, GetBlockError, treeVars, Chunked
  <2> QED BY <1>0, <2>1, QuietFrame
<1>3. CASE AllocFail \/ WriteFailedInside
  <2>1. ptr' = ptr /\ UNCHANGED readerVars /\ (Chunked' \/ (~ Chunked /\ isize' = isize))
    BY <1>3 DEF AllocFail, WriteFailedInside, treeVars, Chunked
  <2> QED BY <1>0, <2>1, QuietFrame
<1>4. CASE WriteEnd
  <2>1. /\ ptr' = ptr /\ UNCHANGED readerVars /\ ~ Chunked
        /\ isize' = IF wend > isize THEN wend ELSE isize
    BY <1>4 DEF WriteEnd, treeVars, Chunked
  <2>2. isize \in Int /\ wend \in Int
    BY Sizes DEF TypeOK
  <2>3. \A b \in Block : b < isize => b < isize'
    BY <2>1, <2>2, Sizes DEF Block
  <2> QED BY <1>0, <2>1, <2>3 DEF Frame, readerVars, callVars, Map, IsCalls
<1>5. CASE AllocBlock \/ SpliceBranch
  <2>1. Observe /\ (Chunked' \/ (~ Chunked /\ isize' = isize))
    BY <1>5 DEF AllocBlock, SpliceBranch, Chunked
  <2> QED BY <2>1, ObservedFrame
<1>6. CASE WriteFailed
  <2>1. Observe /\ (Chunked' \/ (~ Chunked /\ isize' = isize))
    BY <1>6 DEF WriteFailed, Chunked
  <2> QED BY <2>1, ObservedFrame
<1>7. CASE Chunk
  <2>1. ptr' = ptr /\ UNCHANGED readerVars /\ Chunked'
    BY <1>7 DEF Chunk, TruncateDirect, Chunked
  <2> QED BY <1>0, <2>1, QuietFrame
<1>8. CASE ClearCell
  <2>1. Observe /\ (Chunked' \/ (~ Chunked /\ isize' = isize))
    BY <1>8 DEF ClearCell, Chunked
  <2> QED BY <2>1, ObservedFrame
<1>9. CASE Descend \/ DescendError \/ FreeZone
  <2>1. ptr' = ptr /\ UNCHANGED readerVars /\ (Chunked' \/ (~ Chunked /\ isize' = isize))
    BY <1>9 DEF Descend, DescendError, FreeZone, treeVars, Chunked
  <2> QED BY <1>0, <2>1, QuietFrame
<1>10. CASE TruncateEnd
  <2>1. ptr' = ptr /\ UNCHANGED readerVars /\ (Chunked' \/ (~ Chunked /\ isize' = isize))
    BY <1>10 DEF TruncateEnd, Truncating, treeVars, Chunked
  <2> QED BY <1>0, <2>1, QuietFrame
<1>11. CASE \E s \in NewSizes : SetSize(s)
  <2>1. PICK s \in NewSizes : SetSize(s)
    BY <1>11
  <2>2. /\ ptr' = ptr /\ UNCHANGED readerVars /\ ~ Chunked
        /\ \A r \in Reader : rpc[r] # "idle" => rb[r] < isize'
    BY <2>1 DEF SetSize, treeVars, Chunked
  <2> QED BY <1>0, <2>2 DEF Frame, readerVars, callVars, Map, IsCalls
<1> QED BY <1>1, <1>2, <1>3, <1>4, <1>5, <1>6, <1>7, <1>8, <1>9, <1>10, <1>11 DEF Writer

\* A chain that a reader has verified lies on the way to its block, and the
\* writer does not change it until the reader lets go of the lock.
LEMMA VerifiedStays ==
  ASSUME TypeOK, NEW h \in Heights, NEW K \in SUBSET Zone, Sound(h, K), FrontOK,
         Still(h) \/ SpliceBranch \/ WriteFailed \/ Chunk
           \/ ClearCell \/ Descend \/ DescendError \/ FreeZone,
         ~ Chunked', NEW r \in Reader, rpc[r] = "verified",
         NEW b \in Block, b < isize, NEW c, LinksOK(block_to_path(b), c), Match(ptr, c)
  PROVE  Match(ptr', c)
<1>1. PICK path, s : path = block_to_path(b) /\ s = get_branch(ptr, path)
  OBVIOUS
<1>2. Branch(ptr, b, path, s) /\ Forest(h, K)
  BY <1>1 DEF Branch, Sound
<1>3. IsPath(path) /\ Len(s) \in Nat
  BY <1>2, BranchTo_
<1>4. ASSUME NEW n \in 1 .. Len(c) PROVE c[n].cell \in Way(b)
  <2>1. Len(c) <= Len(s) /\ c[n].cell = s[n] /\ Len(c) \in Nat
    BY <1>1, <1>2, <1>3, MatchIs, LinksAre
  <2>2. n \in 1 .. Len(s)
    BY <1>3, <2>1
  <2> QED BY <1>2, <2>1, <2>2, WayIs
<1>5. ~ Unlocked
  BY DEF Unlocked
<1>6. ASSUME NEW e \in Way(b) PROVE ptr'[e] = ptr[e]
  <2>1. e \in Ref(h) /\ e \in Cell
    BY <1>2, WayForest DEF Ref
  <2>2. CASE Still(h)
    BY <2>1, <2>2 DEF Still
  <2>3. CASE SpliceBranch
    BY <1>5, <2>3 DEF SpliceBranch
  <2>4. CASE WriteFailed
    BY <1>5, <2>4 DEF WriteFailed, TruncateDirect, TruncateIndirect, TruncateReadError
  <2>5. CASE Chunk
    BY <2>5 DEF Chunk, Chunked
  <2>6. CASE ClearCell \/ Descend \/ DescendError \/ FreeZone
    <3>1. Clears /\ Truncating /\ w' = w
      BY <2>6, TruncateClears
    <3>2. w = "trunc"
      BY <3>1 DEF Truncating, Chunked
    <3>3. ~ OnStack(e)
      BY <3>2 DEF FrontOK
    <3> QED BY <2>1, <3>1, <3>3 DEF Clears
  <2> QED BY <2>2, <2>3, <2>4, <2>5, <2>6
<1> QED BY <1>4, <1>6 DEF Match

LEMMA FrameReaders ==
  ASSUME TypeOK, NEW h \in Heights, NEW K \in SUBSET Zone, Sound(h, K), FrontOK,
         ReadersOK, Frame,
         Still(h) \/ SpliceBranch \/ WriteFailed \/ Chunk
           \/ ClearCell \/ Descend \/ DescendError \/ FreeZone
  PROVE  ReadersOK'
<1>1. UNCHANGED <<rpc, rb, rchain, res>>
  BY DEF Frame, callVars
<1>2. /\ IsCalls(rpc)' /\ IsCalls(rb)' /\ IsCalls(rchain)' /\ IsCalls(res)' /\ IsCalls(seen)'
  BY <1>1 DEF Frame, ReadersOK, IsCalls
<1>3. ASSUME NEW r \in Reader, rpc[r] # "idle", ~ Chunked'
      PROVE  CallOK(ptr', isize', rpc[r], rb[r], rchain[r], seen'[r])
  <2>1. ~ Chunked
    BY <1>3 DEF Frame
  <2>2. CallOK(ptr, isize, rpc[r], rb[r], rchain[r], seen[r])
    BY <1>3, <2>1 DEF ReadersOK, ReaderOK
  <2>3. PICK b, c : b = rb[r] /\ c = rchain[r]
    OBVIOUS
  <2>4. /\ b \in Block /\ b < isize /\ Map(b) \in seen[r] /\ LinksOK(block_to_path(b), c)
        /\ Complete(block_to_path(b), c) => KeyOf(c) \in seen[r]
        /\ rpc[r] = "verified" => Match(ptr, c) /\ ~ Complete(block_to_path(b), c)
    BY <2>2, <2>3 DEF CallOK, Map
  <2>5. seen[r] \subseteq seen'[r] /\ MapIn(ptr', b) \in seen'[r] /\ b < isize'
    BY <1>3, <2>3, <2>4 DEF Frame
  <2>6. rpc[r] = "verified" => Match(ptr', c)
    BY <1>3, <2>4, VerifiedStays
  <2> QED BY <2>3, <2>4, <2>5, <2>6 DEF CallOK
<1>4. \A r \in Reader : ReaderOK(r)'
  BY <1>1, <1>3 DEF ReaderOK
<1> QED BY <1>2, <1>4 DEF ReadersOK



LEMMA StepReaders ==
  ASSUME IInv, Limits, ReadersOK, [Next]_vars
  PROVE  ReadersOK'
<1>1. TypeOK /\ FrontOK /\ errs \in 0 .. MaxErrors /\ errs \in errs .. MaxErrors
  BY Sizes DEF IInv, Limits
<1>2. PICK h \in Heights, K \in SUBSET Zone : Sound(h, K)
  BY DEF IInv
<1>3. EdgesOK(h)
  BY <1>2 DEF Sound, Forest
<1>4. CASE UNCHANGED vars
  BY <1>4 DEF vars, ReadersOK, IsCalls, ReaderOK, Chunked
<1>5. ASSUME NEW r \in Reader, ReaderStep(r) PROVE ReadersOK'
  BY <1>1, <1>3, <1>5, ReaderStepOK
<1>6. ASSUME NEW z \in Zone, OtherTakes(z) \/ OtherGives(z) PROVE ReadersOK'
  <2>1. \A c \in Ref(h) : ptr'[c] = ptr[c]
    BY <1>1, <1>6, OtherCells DEF OtherGives
  <2>2. UNCHANGED <<isize, errs, writerVars>>
    BY <1>6 DEF OtherTakes, OtherGives
  <2>3. Still(h)
    BY <1>1, <2>1, <2>2 DEF writerVars, Still
  <2>4. Frame
    BY <1>6, OtherFrame
  <2> QED BY <1>1, <1>2, <2>3, <2>4, FrameReaders
<1>7. CASE Writer
  <2>1. Frame
    BY <1>1, <1>7, WriterFrame
  <2>2. Still(h) \/ SpliceBranch \/ WriteFailed \/ Chunk
          \/ ClearCell \/ Descend \/ DescendError \/ FreeZone
    BY <1>1, <1>3, <1>7, WriterStill DEF Writer
  <2> QED BY <1>1, <1>2, <2>1, <2>2, FrameReaders
<1> QED BY <1>4, <1>5, <1>6, <1>7 DEF Next

\* What a reader has read so far was right at some moment of its call, and a
\* chain that it has verified under pointers_lock stays right until add_chain,
\* although free_branches does not take that lock.
THEOREM ReadersHold == Spec => []ReadersOK
<1>1. Init => ReadersOK
  BY DEF Init, ReadersOK, IsCalls, ReaderOK
<1>2. IInv /\ Limits /\ ReadersOK /\ [Next]_vars => ReadersOK'
  BY StepReaders
<1> QED BY <1>1, <1>2, Invariant, LimitsHold, PTL DEF Spec

\* Only ReadReturn, ReadError and ChainChanged end a call.
LEMMA EndsCall ==
  ASSUME ReadersOK, [Next]_vars, NEW r \in Reader, rpc[r] # "idle", rpc'[r] = "idle"
  PROVE  \/ rpc[r] = "walk" /\ Complete(Path(r), rchain[r]) /\ res'[r] = KeyOf(rchain[r])
         \/ res'[r] \in {"EIO", "EAGAIN"}
<1>1. IsCalls(rpc) /\ IsCalls(res)
  BY DEF ReadersOK
<1>2. ASSUME UNCHANGED callVars PROVE FALSE
  BY <1>2 DEF callVars
<1>3. CASE UNCHANGED vars
  BY <1>2, <1>3 DEF vars, callVars
<1>4. ASSUME NEW z \in Zone, OtherTakes(z) \/ OtherGives(z) PROVE FALSE
  <2>1. Frame
    BY <1>4, OtherFrame
  <2> QED BY <1>2, <2>1 DEF Frame
<1>5. ASSUME Writer PROVE UNCHANGED callVars
  BY <1>5 DEF Writer, Write, GetBlockFound, GetBlockHole, GetBlockError, WriteEnd,
       AllocBlock, AllocFail, SpliceBranch, WriteFailed, WriteFailedInside, Chunk,
       ClearCell, Descend, DescendError, FreeZone, TruncateEnd, SetSize,
       Observe, readerVars
<1>6. ASSUME NEW q \in Reader, ReaderStep(q), q # r PROVE FALSE
  <2>1. rpc'[r] = rpc[r]
    BY <1>1, <1>6 DEF IsCalls, ReaderStep, ReadStart, ReadReturn, ReadError, VerifyChain,
         ChainChanged, AddChain, Return
  <2> QED BY <2>1
<1>7. CASE ReaderStep(r)
  <2>1. CASE (\E b \in Block : ReadStart(r, b)) \/ VerifyChain(r) \/ AddChain(r)
    BY <1>1, <2>1 DEF IsCalls, ReadStart, VerifyChain, AddChain
  <2>2. CASE ReadReturn(r)
    BY <1>1, <2>2 DEF IsCalls, ReadReturn, Return, LastKey, KeyOf, Complete
  <2>3. CASE ReadError(r) \/ ChainChanged(r)
    BY <1>1, <2>3 DEF IsCalls, ReadError, ChainChanged, Return
  <2> QED BY <1>7, <2>1, <2>2, <2>3 DEF ReaderStep
<1> QED BY <1>2, <1>3, <1>4, <1>5, <1>6, <1>7 DEF Next

\* A reader is given a zone that its block was mapped to at some moment of the
\* call, unless the file is being chunked: whatever write, write_failed and
\* other files do in the meantime, and whichever reads fail.
THEOREM ReaderIsRight == Spec => ReaderRightUnlessChunked
<1>1. ReadersOK /\ [Next]_vars =>
        [\A r \in Reader :
           rpc[r] # "idle" /\ rpc'[r] = "idle" /\ res'[r] \in Pointer =>
             res'[r] \in seen[r] \/ w \in {"chunking", "chunked"}]_vars
  <2> SUFFICES ASSUME ReadersOK, [Next]_vars, NEW r \in Reader, rpc[r] # "idle",
                      rpc'[r] = "idle", res'[r] \in Pointer, ~ Chunked
               PROVE  res'[r] \in seen[r]
    BY DEF Chunked
  <2>1. res'[r] \notin {"EIO", "EAGAIN"}
    BY ErrnoAssumption DEF Pointer
  <2>2. Complete(Path(r), rchain[r]) /\ res'[r] = KeyOf(rchain[r])
    BY <2>1, EndsCall
  <2>3. CallOK(ptr, isize, rpc[r], rb[r], rchain[r], seen[r])
    BY DEF ReadersOK, ReaderOK
  <2> QED BY <2>2, <2>3 DEF CallOK, Path
<1> QED BY <1>1, ReadersHold, PTL DEF Spec, ReaderRightUnlessChunked

-----------------------------------------------------------------------------
(* nblocks.  Blocks and indirect blocks of each height are counted from 0, *)
(* in the order of the blocks they lead to.                                *)

\* The one of height n that the path to block b leads through.
Number(b, n) ==
  IF n = 0 THEN b
  ELSE IF n = 1 THEN (b - DIRECT) \div IndirCount
  ELSE IF n = 2 THEN ((b - DIRECT) \div IndirCount - 1) \div IndirCount
  ELSE (((b - DIRECT) \div IndirCount - 1) \div IndirCount - 1) \div IndirCount

\* The path to number u of height n, and the first block below it.
PathTo(u, n) ==
  IF n = 0 THEN block_to_path(u)
  ELSE IF n = 1
  THEN IF u = 0 THEN <<DIRECT>>
       ELSE IF u - 1 < IndirCount THEN <<DIRECT + 1, u - 1>>
       ELSE <<DIRECT + 2, (u - 1 - IndirCount) \div IndirCount,
              (u - 1 - IndirCount) % IndirCount>>
  ELSE IF n = 2
  THEN IF u = 0 THEN <<DIRECT + 1>> ELSE <<DIRECT + 2, u - 1>>
  ELSE <<DIRECT + 2>>

FirstBelow(u, n) ==
  IF n = 0 THEN u
  ELSE IF n = 1 THEN DIRECT + IndirCount * u
  ELSE IF n = 2 THEN DIRECT + IndirCount * (1 + IndirCount * u)
  ELSE DIRECT + IndirCount * (1 + IndirCount * (1 + IndirCount * u))

\* What nblocks counts.
RoundUp(size, direct) ==
  IF size <= direct THEN 0 ELSE (size - direct + IndirCount - 1) \div IndirCount

Count(size, n) ==
  IF n = 0 THEN size
  ELSE IF n = 1 THEN RoundUp(size, DIRECT)
  ELSE IF n = 2 THEN RoundUp(RoundUp(size, DIRECT), 1)
  ELSE RoundUp(RoundUp(RoundUp(size, DIRECT), 1), 1)

LEMMA Quotient ==
  ASSUME NEW q \in Nat, NEW r \in Nat, r < IndirCount, NEW a, a = IndirCount * q + r
  PROVE  a \div IndirCount = q
<1>1. IndirCount \in Nat \ {0}
  BY Sizes
<1>2. \A B \in Nat \ {0}, x, y \in Nat : y < B => (x * B + y) \div B = x
  BY Z3
<1>3. IndirCount * q = q * IndirCount
  BY <1>1
<1> QED BY <1>1, <1>2, <1>3

\* u is one of the blocks that are counted when the first below it is in front.
LEMMA RoundUpIs ==
  ASSUME NEW size \in Nat, NEW direct \in Nat, NEW u \in Nat
  PROVE  /\ RoundUp(size, direct) \in Nat
         /\ u < RoundUp(size, direct) <=> direct + IndirCount * u < size
<1>0. IndirCount \in Nat \ {0} /\ IndirCount * u \in Nat
  BY Sizes
<1>1. CASE size <= direct
  BY <1>0, <1>1 DEF RoundUp
<1>2. CASE ~ (size <= direct)
  <2>1. PICK a, q, r : /\ a = size - direct + IndirCount - 1
                       /\ q = a \div IndirCount /\ r = a % IndirCount
    OBVIOUS
  <2>2. a \in Nat
    BY <1>0, <1>2, <2>1
  <2>3. q \in Nat /\ r \in Nat /\ r < IndirCount /\ a = IndirCount * q + r
    BY <1>0, <2>1, <2>2, DivMod DEF Index
  <2>4. RoundUp(size, direct) = q
    BY <1>2, <2>1 DEF RoundUp
  <2>5. ASSUME u < q PROVE direct + IndirCount * u < size
    <3>1. q - u \in Nat \ {0} /\ q = u + (q - u)
      BY <2>3, <2>5
    <3>2. IndirCount * q = IndirCount * u + IndirCount * (q - u)
      BY <1>0, <2>3, <3>1
    <3>3. IndirCount * (q - u) >= IndirCount
      <4>1. \A x, y \in Nat \ {0} : x * y >= x
        BY Z3
      <4> QED BY <1>0, <3>1, <4>1
    <3>4. IndirCount * q \in Nat /\ IndirCount * (q - u) \in Nat
      BY <1>0, <2>3, <3>1
    <3> QED BY <1>0, <2>1, <2>3, <3>2, <3>3, <3>4
  <2>6. ASSUME ~ (u < q) PROVE ~ (direct + IndirCount * u < size)
    <3>1. u - q \in Nat /\ u = q + (u - q)
      BY <2>3, <2>6
    <3>2. IndirCount * u = IndirCount * q + IndirCount * (u - q)
      BY <1>0, <2>3, <3>1
    <3>3. IndirCount * (u - q) \in Nat /\ IndirCount * q \in Nat
      BY <1>0, <2>3, <3>1
    <3> QED BY <1>0, <2>1, <2>3, <3>2, <3>3
  <2> QED BY <2>3, <2>4, <2>5, <2>6
<1> QED BY <1>1, <1>2

LEMMA CountIs ==
  ASSUME NEW size \in Nat, NEW n \in 0 .. 3, NEW u \in Nat
  PROVE  /\ Count(size, n) \in Nat
         /\ u < Count(size, n) <=> FirstBelow(u, n) < size
<1> DEFINE a == RoundUp(size, DIRECT)
           b == RoundUp(a, 1)
           c == RoundUp(b, 1)
           u1 == 1 + IndirCount * u
           u2 == 1 + IndirCount * u1
<1>0. DIRECT \in Nat /\ 1 \in Nat /\ IndirCount \in Nat
  BY Sizes
<1>1. u1 \in Nat
  BY <1>0
<1>2. u2 \in Nat
  <2> HIDE DEF u1
  <2> QED BY <1>0, <1>1
<1> HIDE DEF u1, u2
<1>3. a \in Nat
  BY <1>0, RoundUpIs
<1>4. \A v \in Nat : v < a <=> DIRECT + IndirCount * v < size
  BY <1>0, RoundUpIs
<1> HIDE DEF a
<1>5. b \in Nat /\ \A v \in Nat : v < b <=> 1 + IndirCount * v < a
  BY <1>0, <1>3, RoundUpIs
<1> HIDE DEF b
<1>6. c \in Nat /\ \A v \in Nat : v < c <=> 1 + IndirCount * v < b
  BY <1>0, <1>5, RoundUpIs
<1> HIDE DEF c
<1>7. n = 0 \/ n = 1 \/ n = 2 \/ n = 3
  OBVIOUS
<1>8. CASE n = 0
  BY <1>8 DEF Count, FirstBelow
<1>9. CASE n = 1
  <2>1. Count(size, n) = a /\ FirstBelow(u, n) = DIRECT + IndirCount * u
    BY <1>9 DEF Count, FirstBelow, a
  <2> QED BY <1>3, <1>4, <2>1
<1>10. CASE n = 2
  <2>1. Count(size, n) = b /\ FirstBelow(u, n) = DIRECT + IndirCount * u1
    BY <1>10 DEF Count, FirstBelow, a, b, u1
  <2>2. u < b <=> u1 < a
    BY <1>5 DEF u1
  <2> QED BY <1>1, <1>4, <1>5, <2>1, <2>2
<1>11. CASE n = 3
  <2>1. Count(size, n) = c /\ FirstBelow(u, n) = DIRECT + IndirCount * u2
    BY <1>11 DEF Count, FirstBelow, a, b, c, u1, u2
  <2>2. (u < c <=> u1 < b) /\ (u1 < b <=> u2 < a)
    BY <1>1, <1>5, <1>6 DEF u1, u2
  <2> QED BY <1>2, <1>4, <1>6, <2>1, <2>2
<1> QED BY <1>7, <1>8, <1>9, <1>10, <1>11

\* The first block below number u of a height leads through number u.
LEMMA FirstBelowIs ==
  ASSUME NEW n \in 0 .. 3, NEW u \in Nat
  PROVE  /\ FirstBelow(u, n) \in Nat
         /\ Number(FirstBelow(u, n), n) = u
         /\ FirstBelow(0, n) <= FirstBelow(u, n)
<1>0. DIRECT \in Nat /\ 0 \in Nat /\ IndirCount \in Nat /\ 0 < IndirCount
  BY Sizes
<1> DEFINE f1(v) == DIRECT + IndirCount * v
           up(v) == 1 + IndirCount * v
<1>1. ASSUME NEW v \in Nat
      PROVE  /\ f1(v) \in Nat /\ up(v) \in Nat
             /\ (f1(v) - DIRECT) \div IndirCount = v
             /\ (up(v) - 1) \div IndirCount = v
  <2>1. IndirCount * v \in Nat
    BY <1>0
  <2>2. f1(v) - DIRECT = IndirCount * v + 0 /\ up(v) - 1 = IndirCount * v + 0
    BY <1>0, <2>1
  <2>3. f1(v) \in Nat /\ up(v) \in Nat
    BY <1>0, <2>1
  <2> HIDE DEF f1, up
  <2> QED BY <1>0, <2>2, <2>3, Quotient
<1>2. ASSUME NEW v \in Nat, NEW x \in Nat, x <= v
      PROVE  f1(x) <= f1(v) /\ up(x) <= up(v)
  <2>1. v - x \in Nat /\ v = x + (v - x)
    BY <1>2
  <2>2. IndirCount * v = IndirCount * x + IndirCount * (v - x)
    BY <1>0, <2>1
  <2>3. IndirCount * x \in Nat /\ IndirCount * (v - x) \in Nat
    BY <1>0, <2>1
  <2> QED BY <1>0, <2>2, <2>3
<1>3. \A v : FirstBelow(v, 0) = v /\ FirstBelow(v, 1) = f1(v) /\ FirstBelow(v, 2) = f1(up(v))
             /\ FirstBelow(v, 3) = f1(up(up(v)))
  BY DEF FirstBelow
<1>4. \A b : /\ Number(b, 0) = b /\ Number(b, 1) = (b - DIRECT) \div IndirCount
             /\ Number(b, 2) = (Number(b, 1) - 1) \div IndirCount
             /\ Number(b, 3) = (Number(b, 2) - 1) \div IndirCount
  BY DEF Number
<1> HIDE DEF f1, up
<1>5. up(u) \in Nat /\ up(up(u)) \in Nat /\ up(0) \in Nat /\ up(up(0)) \in Nat
  BY <1>0, <1>1
<1>6. 0 <= u /\ up(0) <= up(u) /\ up(up(0)) <= up(up(u))
  BY <1>0, <1>2, <1>5
<1>7. n = 0 \/ n = 1 \/ n = 2 \/ n = 3
  OBVIOUS
<1>8. CASE n = 0
  BY <1>0, <1>3, <1>4, <1>8
<1>9. CASE n = 1
  BY <1>0, <1>1, <1>2, <1>3, <1>4, <1>6, <1>9
<1>10. CASE n = 2
  <2>1. Number(f1(up(u)), 1) = up(u)
    BY <1>1, <1>4, <1>5
  <2>2. Number(f1(up(u)), 2) = u
    BY <1>1, <1>4, <2>1
  <2> QED BY <1>1, <1>2, <1>3, <1>5, <1>6, <1>10, <2>2
<1>11. CASE n = 3
  <2>1. Number(f1(up(up(u))), 1) = up(up(u))
    BY <1>1, <1>4, <1>5
  <2>2. Number(f1(up(up(u))), 2) = up(u)
    BY <1>1, <1>4, <1>5, <2>1
  <2>3. Number(f1(up(up(u))), 3) = u
    BY <1>1, <1>4, <2>2
  <2> QED BY <1>1, <1>2, <1>3, <1>5, <1>6, <1>11, <2>3
<1> QED BY <1>7, <1>8, <1>9, <1>10, <1>11

LEMMA StartIs ==
  ASSUME NEW s \in Seq(Nat), NEW t \in Seq(Nat), NEW n, n = Len(t), n <= Len(s),
         \A i \in 1 .. n : t[i] = s[i]
  PROVE  SubSeq(s, 1, n) = t
<1>1. n \in Nat /\ Len(s) \in Nat
  OBVIOUS
<1>2. SubSeq(s, 1, n) \in Seq(Nat) /\ Len(SubSeq(s, 1, n)) = n
      /\ \A i \in 1 .. n : SubSeq(s, 1, n)[i] = s[i]
  BY <1>1
<1> QED BY <1>2, SameSeq

LEMMA Starts ==
  ASSUME NEW a \in Nat, NEW b \in Nat, NEW c \in Nat
  PROVE  /\ SubSeq(<<a, b>>, 1, 1) = <<a>>
         /\ SubSeq(<<a, b, c>>, 1, 1) = <<a>>
         /\ SubSeq(<<a, b, c>>, 1, 2) = <<a, b>>
<1> DEFINE s1 == <<a>>
           s2 == <<a, b>>
           s3 == <<a, b, c>>
<1>1. /\ s1 \in Seq(Nat) /\ s2 \in Seq(Nat) /\ s3 \in Seq(Nat)
      /\ Len(s1) = 1 /\ Len(s2) = 2 /\ Len(s3) = 3
      /\ s1[1] = a /\ s2[1] = a /\ s3[1] = a /\ s2[2] = b /\ s3[2] = b
  OBVIOUS
<1> HIDE DEF s1, s2, s3
<1>2. /\ \A i \in 1 .. 1 : i = 1
      /\ \A i \in 1 .. 2 : i = 1 \/ i = 2
      /\ 1 <= 2 /\ 1 <= 3 /\ 2 <= 3
  OBVIOUS
<1>3. SubSeq(s2, 1, 1) = s1
  BY <1>1, <1>2, StartIs
<1>4. SubSeq(s3, 1, 1) = s1
  BY <1>1, <1>2, StartIs
<1>5. SubSeq(s3, 1, 2) = s2
  BY <1>1, <1>2, StartIs
<1> QED BY <1>3, <1>4, <1>5 DEF s1, s2, s3

LEMMA LongStarts ==
  ASSUME NEW a \in Nat, NEW b \in Nat, NEW c \in Nat, NEW d \in Nat
  PROVE  /\ SubSeq(<<a, b, c, d>>, 1, 1) = <<a>>
         /\ SubSeq(<<a, b, c, d>>, 1, 2) = <<a, b>>
         /\ SubSeq(<<a, b, c, d>>, 1, 3) = <<a, b, c>>
<1> DEFINE s1 == <<a>>
           s2 == <<a, b>>
           s3 == <<a, b, c>>
           s4 == <<a, b, c, d>>
<1>1. /\ s1 \in Seq(Nat) /\ s2 \in Seq(Nat) /\ s3 \in Seq(Nat) /\ s4 \in Seq(Nat)
      /\ Len(s1) = 1 /\ Len(s2) = 2 /\ Len(s3) = 3 /\ Len(s4) = 4
      /\ s1[1] = a /\ s2[1] = a /\ s3[1] = a /\ s4[1] = a
      /\ s2[2] = b /\ s3[2] = b /\ s4[2] = b /\ s3[3] = c /\ s4[3] = c
  OBVIOUS
<1> HIDE DEF s1, s2, s3, s4
<1>2. /\ \A i \in 1 .. 1 : i = 1
      /\ \A i \in 1 .. 2 : i = 1 \/ i = 2
      /\ \A i \in 1 .. 3 : i = 1 \/ i = 2 \/ i = 3
      /\ 1 <= 4 /\ 2 <= 4 /\ 3 <= 4
  OBVIOUS
<1>3. SubSeq(s4, 1, 1) = s1
  BY <1>1, <1>2, StartIs
<1>4. SubSeq(s4, 1, 2) = s2
  BY <1>1, <1>2, StartIs
<1>5. SubSeq(s4, 1, 3) = s3
  BY <1>1, <1>2, StartIs
<1> QED BY <1>3, <1>4, <1>5 DEF s1, s2, s3, s4

\* The path to block b up to height n is the path to its number.
Reaches(b, path, n) ==
  /\ Number(b, n) \in Nat
  /\ SubSeq(path, 1, Len(path) - n) = PathTo(Number(b, n), n)
  /\ FirstBelow(Number(b, n), n) <= b

LEMMA NumberIs ==
  ASSUME NEW b \in Nat, b < MaxBlocks, NEW path, path = block_to_path(b)
  PROVE  \A n \in 0 .. 3 :
           /\ n < Len(path) <=> FirstBelow(0, n) <= b
           /\ n < Len(path) => Reaches(b, path, n)
           /\ n = 3 /\ n < Len(path) => Number(b, n) = 0
<1> DEFINE I2 == IndirCount * IndirCount
<1>0. DIRECT \in Nat /\ DIRECT > 0 /\ IndirCount \in Nat /\ 0 < IndirCount /\ I2 \in Nat
  BY Sizes
<1>1. /\ FirstBelow(0, 0) = 0 /\ FirstBelow(0, 1) = DIRECT
      /\ FirstBelow(0, 2) = DIRECT + IndirCount
      /\ FirstBelow(0, 3) = DIRECT + IndirCount + I2
  <2>1. IndirCount * 0 = 0 /\ IndirCount * (1 + IndirCount) = IndirCount + I2
    BY <1>0
  <2>2. IndirCount * (1 + 0) = IndirCount
    BY <1>0
  <2> QED BY <1>0, <2>1, <2>2 DEF FirstBelow
<1>2. /\ Number(b, 0) = b /\ Number(b, 1) = (b - DIRECT) \div IndirCount
      /\ Number(b, 2) = (Number(b, 1) - 1) \div IndirCount
      /\ Number(b, 3) = (Number(b, 2) - 1) \div IndirCount
  BY DEF Number
<1>3. path \in Seq(Nat) /\ Len(path) \in Nat
  BY PathIs DEF IsPath
<1>4. Reaches(b, path, 0)
  <2>1. SubSeq(path, 1, Len(path)) = path
    BY <1>3
  <2>2. Number(b, 0) = b /\ PathTo(b, 0) = path /\ FirstBelow(b, 0) = b
    BY DEF Number, PathTo, FirstBelow
  <2> QED BY <1>3, <2>1, <2>2 DEF Reaches
<1>5. \A n \in 0 .. 3 : n = 0 \/ n = 1 \/ n = 2 \/ n = 3
  OBVIOUS
<1> HIDE DEF I2
<1>6. CASE Direct(b, path)
  <2>1. b < DIRECT /\ Len(path) = 1
    BY <1>6 DEF Direct
  <2> QED BY <1>0, <1>1, <1>4, <1>5, <2>1
<1>7. ASSUME NEW x \in Nat, Single(b, x, path) PROVE
        \A n \in 0 .. 3 :
           /\ n < Len(path) <=> FirstBelow(0, n) <= b
           /\ n < Len(path) => Reaches(b, path, n)
           /\ n = 3 /\ n < Len(path) => Number(b, n) = 0
  <2>1. x = b - DIRECT /\ x < IndirCount /\ path = <<DIRECT, x>>
    BY <1>7 DEF Single
  <2>2. Len(path) = 2 /\ Len(path) - 1 = 1 /\ SubSeq(path, 1, Len(path) - 1) = <<DIRECT>>
    <3>1. Len(path) = 2 /\ Len(path) - 1 = 1
      BY <2>1
    <3>2. SubSeq(<<DIRECT, x>>, 1, 1) = <<DIRECT>>
      BY <1>0, Starts
    <3> QED BY <2>1, <3>1, <3>2
  <2>3. DIRECT <= b /\ b < DIRECT + IndirCount
    BY <1>0, <2>1
  <2>4. Number(b, 1) = 0
    <3>1. x = IndirCount * 0 + x
      BY <1>0
    <3> QED BY <1>2, <2>1, <3>1, Quotient
  <2>5. Reaches(b, path, 1)
    <3>1. PathTo(0, 1) = <<DIRECT>>
      BY DEF PathTo
    <3>2. FirstBelow(0, 1) <= b /\ Number(b, 1) \in Nat
      BY <1>1, <2>3, <2>4
    <3> QED BY <2>2, <2>4, <3>1, <3>2 DEF Reaches
  <2> QED BY <1>0, <1>1, <1>4, <1>5, <2>2, <2>3, <2>5
<1>8. ASSUME NEW x \in Nat, Double(b, x, path) PROVE
        \A n \in 0 .. 3 :
           /\ n < Len(path) <=> FirstBelow(0, n) <= b
           /\ n < Len(path) => Reaches(b, path, n)
           /\ n = 3 /\ n < Len(path) => Number(b, n) = 0
  <2>1. PICK q, r : q = x \div IndirCount /\ r = x % IndirCount
    OBVIOUS
  <2>2. /\ q \in Nat /\ r \in Nat /\ r < IndirCount /\ x = IndirCount * q + r
        /\ q < IndirCount
    <3>1. x < IndirCount * IndirCount
      BY <1>8 DEF Double
    <3>2. q < IndirCount
      BY <1>0, <2>1, <3>1, DivBelow
    <3>3. q \in Nat /\ r \in Index /\ x = IndirCount * q + r
      BY <2>1, DivMod
    <3> QED BY <1>0, <3>2, <3>3 DEF Index
  <2>3. x = b - DIRECT - IndirCount /\ x < I2 /\ path = <<DIRECT + 1, q, r>>
    BY <1>8, <2>1 DEF Double, I2
  <2>4. Len(path) = 3 /\ SubSeq(path, 1, Len(path) - 1) = <<DIRECT + 1, q>>
        /\ SubSeq(path, 1, Len(path) - 2) = <<DIRECT + 1>>
    <3>1. Len(path) = 3 /\ Len(path) - 1 = 2 /\ Len(path) - 2 = 1
      BY <2>3
    <3>2. DIRECT + 1 \in Nat
      BY <1>0
    <3>3. SubSeq(<<DIRECT + 1, q, r>>, 1, 1) = <<DIRECT + 1>>
          /\ SubSeq(<<DIRECT + 1, q, r>>, 1, 2) = <<DIRECT + 1, q>>
      <4>1. ASSUME NEW e \in Nat
            PROVE  SubSeq(<<e, q, r>>, 1, 1) = <<e>> /\ SubSeq(<<e, q, r>>, 1, 2) = <<e, q>>
        <5>1. q \in Nat /\ r \in Nat
          BY <2>2
        <5> QED BY <4>1, <5>1, Starts
      <4> QED BY <3>2, <4>1
    <3> QED BY <2>3, <3>1, <3>3
  <2>5. DIRECT + IndirCount <= b /\ b < DIRECT + IndirCount + I2
    BY <1>0, <2>3
  <2>6. b - DIRECT = IndirCount * (1 + q) + r
    <3>1. IndirCount * (1 + q) = IndirCount + IndirCount * q /\ IndirCount * q \in Nat
      BY <1>0, <2>2
    <3> QED BY <1>0, <2>2, <2>3, <3>1
  <2>7. 1 + q \in Nat /\ Number(b, 1) = 1 + q
    BY <1>2, <2>2, <2>6, Quotient
  <2>8. Number(b, 2) = 0
    <3>1. (1 + q) - 1 = IndirCount * 0 + q
      BY <1>0, <2>2
    <3> QED BY <1>2, <2>2, <2>7, <3>1, Quotient
  <2>9. Reaches(b, path, 1)
    <3>1. PathTo(1 + q, 1) = <<DIRECT + 1, q>>
      BY <2>2 DEF PathTo
    <3>2. FirstBelow(1 + q, 1) = DIRECT + IndirCount * (1 + q)
      BY DEF FirstBelow
    <3>3. FirstBelow(1 + q, 1) <= b
      BY <1>0, <2>2, <2>6, <2>7, <3>2
    <3> QED BY <2>4, <2>7, <3>1, <3>3 DEF Reaches
  <2>10. Reaches(b, path, 2)
    <3>1. PathTo(0, 2) = <<DIRECT + 1>>
      BY DEF PathTo
    <3>2. FirstBelow(0, 2) <= b /\ Number(b, 2) \in Nat
      BY <1>1, <2>5, <2>8
    <3> QED BY <2>4, <2>8, <3>1, <3>2 DEF Reaches
  <2> QED BY <1>0, <1>1, <1>4, <1>5, <2>4, <2>5, <2>9, <2>10
<1>9. ASSUME NEW x \in Nat, Triple(b, x, path) PROVE
        \A n \in 0 .. 3 :
           /\ n < Len(path) <=> FirstBelow(0, n) <= b
           /\ n < Len(path) => Reaches(b, path, n)
           /\ n = 3 /\ n < Len(path) => Number(b, n) = 0
  <2>1. PICK q, r : q = x \div IndirCount /\ r = x % IndirCount
    OBVIOUS
  <2>2. q \in Nat /\ r \in Nat /\ r < IndirCount /\ x = IndirCount * q + r
    <3>1. q \in Nat /\ r \in Index /\ x = IndirCount * q + r
      BY <2>1, DivMod
    <3> QED BY <1>0, <3>1 DEF Index
  <2>3. PICK p, s : p = q \div IndirCount /\ s = q % IndirCount
    OBVIOUS
  <2>4. p \in Nat /\ s \in Nat /\ s < IndirCount /\ q = IndirCount * p + s
    <3>1. p \in Nat /\ s \in Index /\ q = IndirCount * p + s
      BY <2>2, <2>3, DivMod
    <3> QED BY <1>0, <3>1 DEF Index
  <2>5. x = b - DIRECT - IndirCount - I2 /\ path = <<DIRECT + 2, p, s, r>>
    BY <1>9, <2>1, <2>3 DEF Triple, I2
  <2>6. p \in Index
    <3>1. 2 \in 2 .. Len(path) /\ path[2] = p
      BY <2>5
    <3>2. IsPath(path)
      BY PathIs
    <3> QED BY <3>1, <3>2 DEF IsPath
  <2>7. p < IndirCount
    BY <1>0, <2>6 DEF Index
  <2>8. Len(path) = 4 /\ SubSeq(path, 1, Len(path) - 1) = <<DIRECT + 2, p, s>>
        /\ SubSeq(path, 1, Len(path) - 2) = <<DIRECT + 2, p>>
        /\ SubSeq(path, 1, Len(path) - 3) = <<DIRECT + 2>>
    <3>1. Len(path) = 4 /\ Len(path) - 1 = 3 /\ Len(path) - 2 = 2 /\ Len(path) - 3 = 1
      BY <2>5
    <3>2. DIRECT + 2 \in Nat
      BY <1>0
    <3>3. SubSeq(<<DIRECT + 2, p, s, r>>, 1, 1) = <<DIRECT + 2>>
          /\ SubSeq(<<DIRECT + 2, p, s, r>>, 1, 2) = <<DIRECT + 2, p>>
          /\ SubSeq(<<DIRECT + 2, p, s, r>>, 1, 3) = <<DIRECT + 2, p, s>>
      <4>1. ASSUME NEW e \in Nat
            PROVE  /\ SubSeq(<<e, p, s, r>>, 1, 1) = <<e>>
                   /\ SubSeq(<<e, p, s, r>>, 1, 2) = <<e, p>>
                   /\ SubSeq(<<e, p, s, r>>, 1, 3) = <<e, p, s>>
        <5>1. p \in Nat /\ s \in Nat /\ r \in Nat
          BY <2>2, <2>4
        <5> QED BY <4>1, <5>1, LongStarts
      <4> QED BY <3>2, <4>1
    <3> QED BY <2>5, <3>1, <3>3
  <2>9. DIRECT + IndirCount + I2 <= b
    BY <1>0, <2>5
  <2>10. b - DIRECT = IndirCount * (1 + IndirCount + q) + r
    <3>1. IndirCount * (1 + IndirCount + q) = IndirCount + I2 + IndirCount * q
          /\ IndirCount * q \in Nat
      BY <1>0, <2>2 DEF I2
    <3> QED BY <1>0, <2>2, <2>5, <3>1
  <2>11. 1 + IndirCount + q \in Nat /\ Number(b, 1) = 1 + IndirCount + q
    BY <1>0, <1>2, <2>2, <2>10, Quotient
  <2>12. (1 + IndirCount + q) - 1 = IndirCount * (1 + p) + s
    <3>1. IndirCount * (1 + p) = IndirCount + IndirCount * p /\ IndirCount * p \in Nat
      BY <1>0, <2>4
    <3> QED BY <1>0, <2>4, <3>1
  <2>13. 1 + p \in Nat /\ Number(b, 2) = 1 + p
    BY <1>2, <2>4, <2>11, <2>12, Quotient
  <2>14. Number(b, 3) = 0
    <3>1. (1 + p) - 1 = IndirCount * 0 + p
      BY <1>0, <2>4
    <3> QED BY <1>2, <2>4, <2>7, <2>13, <3>1, Quotient
  <2>15. Reaches(b, path, 1)
    <3>1. 1 + IndirCount + q # 0 /\ ~ (1 + IndirCount + q - 1 < IndirCount)
          /\ 1 + IndirCount + q - 1 - IndirCount = q
      BY <1>0, <2>2
    <3>2. PathTo(1 + IndirCount + q, 1) = <<DIRECT + 2, p, s>>
      <4>1. \A u : u # 0 /\ ~ (u - 1 < IndirCount) /\ u - 1 - IndirCount = q =>
                PathTo(u, 1) = <<DIRECT + 2, q \div IndirCount, q % IndirCount>>
        BY DEF PathTo
      <4> DEFINE v == 1 + IndirCount + q
      <4>2. v # 0 /\ ~ (v - 1 < IndirCount) /\ v - 1 - IndirCount = q
        BY <1>0, <2>2
      <4> HIDE DEF v
      <4>3. PathTo(v, 1) = <<DIRECT + 2, q \div IndirCount, q % IndirCount>>
        BY <4>1, <4>2
      <4> QED BY <2>3, <4>3 DEF v
    <3>3. FirstBelow(1 + IndirCount + q, 1) = DIRECT + IndirCount * (1 + IndirCount + q)
      BY DEF FirstBelow
    <3>4. FirstBelow(1 + IndirCount + q, 1) <= b
      BY <1>0, <2>2, <2>10, <2>11, <3>3
    <3> QED BY <2>8, <2>11, <3>2, <3>4 DEF Reaches
  <2>16. Reaches(b, path, 2)
    <3>1. PathTo(1 + p, 2) = <<DIRECT + 2, p>>
      BY <2>4 DEF PathTo
    <3>2. FirstBelow(1 + p, 2) = DIRECT + IndirCount * (1 + IndirCount * (1 + p))
      BY DEF FirstBelow
    <3>3. IndirCount * (1 + p) \in Nat
      BY <1>0, <2>4
    <3>4. 1 + IndirCount + q = (1 + IndirCount * (1 + p)) + s
      <4>1. IndirCount * (1 + p) + s = IndirCount + q
        BY <1>0, <2>2, <2>12
      <4> QED BY <1>0, <2>2, <2>4, <3>3, <4>1
    <3>5. PICK y \in Nat : y = 1 + IndirCount * (1 + p)
      BY <3>3
    <3>6. IndirCount * (1 + IndirCount + q) = IndirCount * y + IndirCount * s
          /\ IndirCount * y \in Nat /\ IndirCount * s \in Nat
      BY <1>0, <2>4, <3>4, <3>5
    <3>7. FirstBelow(1 + p, 2) = DIRECT + IndirCount * y
      BY <3>2, <3>5
    <3>8. FirstBelow(1 + p, 2) <= b
      BY <1>0, <2>2, <2>10, <3>6, <3>7
    <3> QED BY <2>8, <2>13, <3>1, <3>8 DEF Reaches
  <2>17. Reaches(b, path, 3)
    <3>1. PathTo(0, 3) = <<DIRECT + 2>>
      BY DEF PathTo
    <3>2. FirstBelow(0, 3) <= b /\ Number(b, 3) \in Nat
      BY <1>1, <2>9, <2>14
    <3> QED BY <2>8, <2>14, <3>1, <3>2 DEF Reaches
  <2> QED BY <1>0, <1>1, <1>4, <1>5, <2>8, <2>9, <2>14, <2>15, <2>16, <2>17
<1> QED BY <1>6, <1>7, <1>8, <1>9, PathKinds

\* Different numbers of one height have different paths.
LEMMA PathToDiffers ==
  ASSUME NEW n \in 0 .. 3, NEW u \in Nat, NEW v \in Nat, PathTo(u, n) = PathTo(v, n),
         FirstBelow(u, n) < MaxBlocks, FirstBelow(v, n) < MaxBlocks
  PROVE  u = v
<1>0. DIRECT \in Nat /\ IndirCount \in Nat /\ 0 < IndirCount
  BY Sizes
<1>1. n = 0 \/ n = 1 \/ n = 2 \/ n = 3
  OBVIOUS
<1>2. CASE n = 0
  <2>1. block_to_path(u) = block_to_path(v) /\ u < MaxBlocks /\ v < MaxBlocks
    BY <1>2 DEF PathTo, FirstBelow
  <2>2. ASSUME NEW a \in Nat, NEW b \in Nat, a < b, b < MaxBlocks,
               block_to_path(a) = block_to_path(b)
        PROVE  FALSE
    <3> DEFINE p == block_to_path(b)
    <3>1. p \in Seq(Nat)
      BY <2>2, PathIs DEF IsPath
    <3>2. Before(p, p)
      BY <2>2, PathOrder
    <3> HIDE DEF p
    <3> QED BY <3>1, <3>2 DEF Before
  <2>3. u < v \/ v < u \/ u = v
    OBVIOUS
  <2> QED BY <2>1, <2>2, <2>3
<1>3. CASE n = 1
  <2> DEFINE Low(x) == x # 0 /\ x - 1 < IndirCount
             High(x) == x # 0 /\ ~ (x - 1 < IndirCount)
  <2>1. ASSUME NEW x \in Nat
        PROVE  /\ x = 0 => PathTo(x, 1) = <<DIRECT>>
               /\ Low(x) => PathTo(x, 1) = <<DIRECT + 1, x - 1>>
               /\ High(x) => \E q, r \in Nat :
                    /\ PathTo(x, 1) = <<DIRECT + 2, q, r>>
                    /\ x = 1 + IndirCount + (IndirCount * q + r)
    <3>1. x = 0 => PathTo(x, 1) = <<DIRECT>>
      BY DEF PathTo
    <3>2. Low(x) => PathTo(x, 1) = <<DIRECT + 1, x - 1>>
      BY DEF PathTo
    <3>3. ASSUME High(x)
          PROVE  \E q, r \in Nat : /\ PathTo(x, 1) = <<DIRECT + 2, q, r>>
                                   /\ x = 1 + IndirCount + (IndirCount * q + r)
      <4>1. PICK y, q, r : y = x - 1 - IndirCount /\ q = y \div IndirCount
                           /\ r = y % IndirCount
        OBVIOUS
      <4>2. y \in Nat
        BY <1>0, <3>3, <4>1
      <4>3. q \in Nat /\ r \in Nat /\ y = IndirCount * q + r
        BY <4>1, <4>2, DivMod DEF Index
      <4>4. PathTo(x, 1) = <<DIRECT + 2, q, r>>
        BY <3>3, <4>1 DEF PathTo
      <4>5. IndirCount * q + r \in Nat
        BY <4>2, <4>3
      <4>6. x = 1 + IndirCount + (IndirCount * q + r)
        BY <1>0, <4>1, <4>3, <4>5
      <4> QED BY <4>3, <4>4, <4>6
    <3> QED BY <3>1, <3>2, <3>3
  <2>2. /\ u = 0 \/ Low(u) \/ High(u)
        /\ v = 0 \/ Low(v) \/ High(v)
        /\ PathTo(u, 1) = PathTo(v, 1)
    BY <1>3
  <2>3. \A a, b, c, d, e, f : /\ <<a>> # <<b, c>> /\ <<a>> # <<b, c, d>>
                              /\ <<a, b>> # <<c, d, e>>
                              /\ <<a, b>> = <<c, d>> => b = d
                              /\ <<a, b, c>> = <<d, e, f>> => b = e /\ c = f
    <3>1. \A a, b, c, d, e : <<a>> # <<b, c>> /\ <<a>> # <<b, c, d>> /\ <<a, b>> # <<c, d, e>>
      BY SMTT(30)
    <3>2. \A a, b, c, d : <<a, b>> = <<c, d>> => b = d
      BY SMTT(30)
    <3>3. \A a, b, c, d, e, f : <<a, b, c>> = <<d, e, f>> => b = e /\ c = f
      BY SMTT(30)
    <3> QED BY <3>1, <3>2, <3>3
  <2>4. \A x \in Nat : Low(x) => x = (x - 1) + 1
    OBVIOUS
  <2>5. CASE u = 0
    <3> HIDE DEF Low, High
    <3>1. PathTo(u, 1) = <<DIRECT>>
      BY <2>1, <2>5
    <3>2. CASE Low(v)
      BY <2>1, <2>2, <2>3, <3>1, <3>2
    <3>3. CASE High(v)
      BY <2>1, <2>2, <2>3, <3>1, <3>3
    <3> QED BY <2>2, <2>5, <3>2, <3>3
  <2>6. CASE Low(u)
    <3> HIDE DEF Low, High
    <3>1. PathTo(u, 1) = <<DIRECT + 1, u - 1>>
      BY <2>1, <2>6
    <3>2. ~ (v = 0)
      BY <2>1, <2>2, <2>3, <3>1
    <3>3. ~ High(v)
      BY <2>1, <2>2, <2>3, <3>1
    <3>4. PathTo(v, 1) = <<DIRECT + 1, v - 1>>
      BY <2>1, <2>2, <3>2, <3>3
    <3>5. u - 1 = v - 1
      BY <2>2, <2>3, <3>1, <3>4
    <3> QED BY <3>5
  <2>7. CASE High(u)
    <3> HIDE DEF Low, High
    <3>1. PICK q, r \in Nat : /\ PathTo(u, 1) = <<DIRECT + 2, q, r>>
                              /\ u = 1 + IndirCount + (IndirCount * q + r)
      BY <2>1, <2>7
    <3>2. High(v)
      BY <2>1, <2>2, <2>3, <3>1
    <3>3. PICK s, t \in Nat : /\ PathTo(v, 1) = <<DIRECT + 2, s, t>>
                              /\ v = 1 + IndirCount + (IndirCount * s + t)
      BY <2>1, <3>2
    <3>4. q = s /\ r = t
      BY <2>2, <2>3, <3>1, <3>3
    <3> QED BY <3>1, <3>3, <3>4
  <2> QED BY <2>2, <2>5, <2>6, <2>7
<1>4. CASE n = 2
  <2>1. \A x \in Nat : /\ x = 0 => PathTo(x, 2) = <<DIRECT + 1>>
                       /\ x # 0 => PathTo(x, 2) = <<DIRECT + 2, x - 1>>
    BY DEF PathTo
  <2>2. \A a, b, c, d : <<a>> # <<b, c>> /\ (<<a, b>> = <<c, d>> => b = d)
    OBVIOUS
  <2>3. PathTo(u, 2) = PathTo(v, 2)
    BY <1>4
  <2>4. CASE u = 0 \/ v = 0
    BY <2>1, <2>2, <2>3, <2>4
  <2>5. CASE u # 0 /\ v # 0
    <3>1. u - 1 = v - 1
      BY <2>1, <2>2, <2>3, <2>5
    <3> QED BY <3>1
  <2> QED BY <2>4, <2>5
<1>5. CASE n = 3
  <2>1. ASSUME NEW x \in Nat, FirstBelow(x, 3) < MaxBlocks
        PROVE  x = 0
    <3>1. FirstBelow(x, 3) \in Nat /\ Number(FirstBelow(x, 3), 3) = x
          /\ FirstBelow(0, 3) <= FirstBelow(x, 3)
      BY FirstBelowIs
    <3>2. 3 \in 0 .. 3
      OBVIOUS
    <3>3. Number(FirstBelow(x, 3), 3) = 0
      BY <2>1, <3>1, <3>2, NumberIs
    <3> QED BY <3>1, <3>3
  <2> QED BY <1>5, <2>1
<1> QED BY <1>1, <1>2, <1>3, <1>4, <1>5

\* The prefixes of paths that lead to height n.
Prefixes(size, n) ==
  {SubSeq(block_to_path(b), 1, Len(block_to_path(b)) - n) :
     b \in {a \in 0 .. (size - 1) : n < Len(block_to_path(a))}}

LEMMA PrefixesAre ==
  ASSUME NEW size \in Nat, size <= MaxBlocks, NEW n \in 0 .. 3
  PROVE  Prefixes(size, n) = {PathTo(u, n) : u \in 0 .. (Count(size, n) - 1)}
<1>0. MaxBlocks \in Nat
  BY Sizes
<1>1. ASSUME NEW b \in 0 .. (size - 1), n < Len(block_to_path(b))
      PROVE  \E u \in 0 .. (Count(size, n) - 1) :
               SubSeq(block_to_path(b), 1, Len(block_to_path(b)) - n) = PathTo(u, n)
  <2>1. b \in Nat /\ b < MaxBlocks /\ b < size
    BY <1>0
  <2>2. Reaches(b, block_to_path(b), n)
    BY <1>1, <2>1, NumberIs
  <2>3. PICK u : u = Number(b, n)
    OBVIOUS
  <2>4. u \in Nat /\ FirstBelow(u, n) \in Nat /\ FirstBelow(u, n) <= b
    BY <2>2, <2>3, FirstBelowIs DEF Reaches
  <2>5. FirstBelow(u, n) < size
    BY <2>1, <2>4
  <2>6. u < Count(size, n) /\ Count(size, n) \in Nat
    BY <2>4, <2>5, CountIs
  <2>7. u \in 0 .. (Count(size, n) - 1)
    BY <2>4, <2>6
  <2> QED BY <2>2, <2>3, <2>7 DEF Reaches
<1>2. ASSUME NEW u \in 0 .. (Count(size, n) - 1)
      PROVE  PathTo(u, n) \in Prefixes(size, n)
  <2>1. Count(size, n) \in Nat
    BY CountIs, 0 \in Nat
  <2>2. u \in Nat /\ u < Count(size, n)
    BY <2>1
  <2>3. PICK b : b = FirstBelow(u, n)
    OBVIOUS
  <2>4. b \in Nat /\ Number(b, n) = u /\ FirstBelow(0, n) <= b
    BY <2>2, <2>3, FirstBelowIs
  <2>5. b < size
    BY <2>2, <2>3, CountIs
  <2>6. b < MaxBlocks /\ b \in 0 .. (size - 1)
    BY <1>0, <2>4, <2>5
  <2>7. n < Len(block_to_path(b)) /\ Reaches(b, block_to_path(b), n)
    BY <2>4, <2>6, NumberIs
  <2>8. SubSeq(block_to_path(b), 1, Len(block_to_path(b)) - n) = PathTo(u, n)
    BY <2>4, <2>7 DEF Reaches
  <2> QED BY <2>6, <2>7, <2>8 DEF Prefixes
<1>3. Prefixes(size, n) \subseteq {PathTo(u, n) : u \in 0 .. (Count(size, n) - 1)}
  BY <1>1 DEF Prefixes
<1> QED BY <1>2, <1>3

LEMMA ImageSize ==
  ASSUME NEW m \in Nat, NEW f, \A u, v \in 0 .. (m - 1) : f[u] = f[v] => u = v
  PROVE  LET S == {f[u] : u \in 0 .. (m - 1)}
         IN  IsFiniteSet(S) /\ Cardinality(S) = m
<1> DEFINE I == 0 .. (m - 1)
           S == {f[u] : u \in I}
           g == [u \in I |-> f[u]]
<1>1. IsFiniteSet(I) /\ Cardinality(I) = m
  <2>1. 0 \in Int /\ m - 1 \in Int
    OBVIOUS
  <2>2. IsFiniteSet(I) /\ Cardinality(I) = IF 0 > m - 1 THEN 0 ELSE (m - 1) - 0 + 1
    BY <2>1, FS_Interval
  <2>3. (IF 0 > m - 1 THEN 0 ELSE (m - 1) - 0 + 1) = m
    OBVIOUS
  <2> HIDE DEF I
  <2> QED BY <2>2, <2>3
<1> HIDE DEF I
<1>2. g \in Bijection(I, S)
  <2>1. g \in [I -> S]
    OBVIOUS
  <2>2. \A u, v \in I : g[u] = g[v] => u = v
    BY DEF I
  <2>3. \A s \in S : \E u \in I : g[u] = s
    OBVIOUS
  <2> HIDE DEF g, S
  <2> QED BY <2>1, <2>2, <2>3 DEF Bijection, Injection, Surjection, IsInjective
<1>3. ExistsBijection(I, S)
  BY <1>2 DEF ExistsBijection
<1>4. IsFiniteSet(S) /\ Cardinality(S) = m
  <2> HIDE DEF S
  <2> QED BY <1>1, <1>3, FS_Bijection
<1> QED BY <1>4 DEF I

LEMMA PrefixesCounted ==
  ASSUME NEW size \in Nat, size <= MaxBlocks, NEW n \in 0 .. 3
  PROVE  IsFiniteSet(Prefixes(size, n)) /\ Cardinality(Prefixes(size, n)) = Count(size, n)
<1> DEFINE m == Count(size, n)
           f == [u \in 0 .. (m - 1) |-> PathTo(u, n)]
<1>1. m \in Nat
  BY CountIs, 0 \in Nat
<1>2. ASSUME NEW u \in 0 .. (m - 1), NEW v \in 0 .. (m - 1), PathTo(u, n) = PathTo(v, n)
      PROVE  u = v
  <2>1. u \in Nat /\ v \in Nat /\ u < m /\ v < m
    BY <1>1
  <2>2. FirstBelow(u, n) < size /\ FirstBelow(v, n) < size
    BY <2>1, CountIs
  <2>3. FirstBelow(u, n) \in Nat /\ FirstBelow(v, n) \in Nat /\ MaxBlocks \in Nat
    BY <2>1, FirstBelowIs, Sizes
  <2>4. FirstBelow(u, n) < MaxBlocks /\ FirstBelow(v, n) < MaxBlocks
    BY <2>2, <2>3
  <2> QED BY <1>2, <2>1, <2>4, PathToDiffers
<1> HIDE DEF m
<1>3. \A u \in 0 .. (m - 1) : f[u] = PathTo(u, n)
  OBVIOUS
<1>4. {f[u] : u \in 0 .. (m - 1)} = {PathTo(u, n) : u \in 0 .. (m - 1)}
  BY <1>3
<1> HIDE DEF f
<1>5. \A u, v \in 0 .. (m - 1) : f[u] = f[v] => u = v
  BY <1>2, <1>3
<1>6. /\ IsFiniteSet({f[u] : u \in 0 .. (m - 1)})
      /\ Cardinality({f[u] : u \in 0 .. (m - 1)}) = m
  BY <1>1, <1>5, ImageSize
<1>7. Prefixes(size, n) = {PathTo(u, n) : u \in 0 .. (m - 1)}
  BY PrefixesAre DEF m
<1> QED BY <1>4, <1>6, <1>7 DEF m

\* The first offset of a path tells its length, and so the height of its prefixes.
Tall(s) == IF s[1] < DIRECT THEN 1 ELSE s[1] - DIRECT + 2

LEMMA PrefixIs ==
  ASSUME NEW b \in Nat, b < MaxBlocks, NEW n \in Nat, n < Len(block_to_path(b)),
         NEW s, s = SubSeq(block_to_path(b), 1, Len(block_to_path(b)) - n)
  PROVE  Tall(s) = Len(s) + n
<1> DEFINE path == block_to_path(b)
<1>1. IsPath(path)
  BY PathIs
<1> HIDE DEF path
<1>2. path \in Seq(Nat) /\ Len(path) \in Nat /\ 1 <= Len(path) /\ path[1] \in Nat
  BY <1>1, UpTo4 DEF IsPath
<1>3. s = SubSeq(path, 1, Len(path) - n) /\ n < Len(path)
  BY DEF path
<1>4. Len(s) = Len(path) - n /\ s[1] = path[1]
  BY <1>2, <1>3
<1>5. Tall(s) = Len(path)
  <2>1. DIRECT \in Nat
    BY Sizes
  <2>2. IF Len(path) = 1 THEN path[1] < DIRECT ELSE path[1] = DIRECT + Len(path) - 2
    BY <1>1 DEF IsPath
  <2>3. Tall(s) = IF path[1] < DIRECT THEN 1 ELSE path[1] - DIRECT + 2
    BY <1>4 DEF Tall
  <2>4. PICK l, o : l = Len(path) /\ o = path[1]
    OBVIOUS
  <2>5. l \in Nat /\ 1 <= l /\ o \in Nat
        /\ IF l = 1 THEN o < DIRECT ELSE o = DIRECT + l - 2
    BY <1>2, <2>2, <2>4
  <2>6. (IF o < DIRECT THEN 1 ELSE o - DIRECT + 2) = l
    BY <2>1, <2>5
  <2> QED BY <2>3, <2>4, <2>6
<1> QED BY <1>2, <1>4, <1>5

LEMMA PrefixesDisjoint ==
  ASSUME NEW size \in Nat, size <= MaxBlocks, NEW n \in 0 .. 3, NEW m \in 0 .. 3, n # m
  PROVE  Prefixes(size, n) \cap Prefixes(size, m) = {}
<1>1. ASSUME NEW k \in 0 .. 3, NEW s, s \in Prefixes(size, k)
      PROVE  Len(s) \in Nat /\ Tall(s) = Len(s) + k
  <2>1. PICK b \in 0 .. (size - 1) :
          /\ k < Len(block_to_path(b))
          /\ s = SubSeq(block_to_path(b), 1, Len(block_to_path(b)) - k)
    BY <1>1 DEF Prefixes
  <2>2. b \in Nat /\ b < MaxBlocks /\ k \in Nat
    BY Sizes
  <2>3. Tall(s) = Len(s) + k
    BY <2>1, <2>2, PrefixIs
  <2>4. block_to_path(b) \in Seq(Nat) /\ Len(block_to_path(b)) \in Nat
    BY <2>2, PathIs DEF IsPath
  <2>5. \A p \in Seq(Nat), l \in Nat : l <= Len(p) => SubSeq(p, 1, l) \in Seq(Nat)
    OBVIOUS
  <2>6. Len(block_to_path(b)) - k \in Nat
        /\ Len(block_to_path(b)) - k <= Len(block_to_path(b))
    BY <2>1, <2>2, <2>4
  <2>7. s \in Seq(Nat)
    BY <2>1, <2>4, <2>5, <2>6
  <2> QED BY <2>3, <2>7
<1>2. ASSUME NEW s, s \in Prefixes(size, n), s \in Prefixes(size, m)
      PROVE  FALSE
  <2>1. Len(s) \in Nat /\ Tall(s) = Len(s) + n /\ Tall(s) = Len(s) + m
    BY <1>1, <1>2
  <2> QED BY <2>1
<1> QED BY <1>2

\* Four sets of which no two meet.
LEMMA FourSizes ==
  ASSUME NEW S, NEW c \in [0 .. 3 -> Nat],
         \A n \in 0 .. 3 : IsFiniteSet(S[n]) /\ Cardinality(S[n]) = c[n],
         \A n, m \in 0 .. 3 : n # m => S[n] \cap S[m] = {}
  PROVE  Cardinality(((S[0] \cup S[1]) \cup S[2]) \cup S[3]) = c[0] + c[1] + c[2] + c[3]
<1>1. 0 \in 0 .. 3 /\ 1 \in 0 .. 3 /\ 2 \in 0 .. 3 /\ 3 \in 0 .. 3
      /\ 0 # 1 /\ 0 # 2 /\ 0 # 3 /\ 1 # 2 /\ 1 # 3 /\ 2 # 3
  OBVIOUS
<1>2. c[0] \in Nat /\ c[1] \in Nat /\ c[2] \in Nat /\ c[3] \in Nat
  BY <1>1
<1>3. ASSUME NEW A, NEW B, IsFiniteSet(A), IsFiniteSet(B), A \cap B = {},
             Cardinality(A) \in Nat, Cardinality(B) \in Nat
      PROVE  IsFiniteSet(A \cup B) /\ Cardinality(A \cup B) = Cardinality(A) + Cardinality(B)
  <2>1. /\ IsFiniteSet(A \cup B)
        /\ Cardinality(A \cup B) = Cardinality(A) + Cardinality(B) - Cardinality(A \cap B)
    BY <1>3, FS_Union
  <2>2. Cardinality(A \cap B) = 0
    BY <1>3, FS_EmptySet
  <2> QED BY <1>3, <2>1, <2>2
<1>4. S[0] \cap S[1] = {} /\ (S[0] \cup S[1]) \cap S[2] = {}
      /\ ((S[0] \cup S[1]) \cup S[2]) \cap S[3] = {}
  <2>1. S[0] \cap S[1] = {} /\ S[0] \cap S[2] = {} /\ S[1] \cap S[2] = {}
        /\ S[0] \cap S[3] = {} /\ S[1] \cap S[3] = {} /\ S[2] \cap S[3] = {}
    BY <1>1
  <2> QED BY <2>1
<1>5. /\ IsFiniteSet(S[0]) /\ Cardinality(S[0]) = c[0]
      /\ IsFiniteSet(S[1]) /\ Cardinality(S[1]) = c[1]
      /\ IsFiniteSet(S[2]) /\ Cardinality(S[2]) = c[2]
      /\ IsFiniteSet(S[3]) /\ Cardinality(S[3]) = c[3]
  BY <1>1
<1>6. IsFiniteSet(S[0] \cup S[1]) /\ Cardinality(S[0] \cup S[1]) = c[0] + c[1]
  <2>1. Cardinality(S[0]) \in Nat /\ Cardinality(S[1]) \in Nat /\ S[0] \cap S[1] = {}
    BY <1>2, <1>4, <1>5
  <2>2. IsFiniteSet(S[0] \cup S[1])
        /\ Cardinality(S[0] \cup S[1]) = Cardinality(S[0]) + Cardinality(S[1])
    BY <1>3, <1>5, <2>1
  <2> QED BY <1>5, <2>2
<1>7. /\ IsFiniteSet((S[0] \cup S[1]) \cup S[2])
      /\ Cardinality((S[0] \cup S[1]) \cup S[2]) = c[0] + c[1] + c[2]
  <2> DEFINE A == S[0] \cup S[1]
  <2>1. Cardinality(A) \in Nat /\ IsFiniteSet(A) /\ A \cap S[2] = {}
        /\ Cardinality(A) = c[0] + c[1]
    BY <1>2, <1>4, <1>6
  <2> HIDE DEF A
  <2>2. IsFiniteSet(A \cup S[2])
        /\ Cardinality(A \cup S[2]) = Cardinality(A) + Cardinality(S[2])
    BY <1>2, <1>3, <1>5, <2>1
  <2> QED BY <1>5, <2>1, <2>2 DEF A
<1> DEFINE B == (S[0] \cup S[1]) \cup S[2]
<1>8. Cardinality(B) \in Nat /\ IsFiniteSet(B) /\ B \cap S[3] = {}
      /\ Cardinality(B) = c[0] + c[1] + c[2]
  BY <1>2, <1>4, <1>7
<1> HIDE DEF B
<1>9. Cardinality(B \cup S[3]) = Cardinality(B) + Cardinality(S[3])
  BY <1>2, <1>3, <1>8, <1>5
<1> QED BY <1>8, <1>5, <1>9 DEF B

\* The levels that nblocks adds up.
LEMMA NblocksIs ==
  ASSUME NEW size \in Nat
  PROVE  nblocks(size) = Count(size, 0) + Count(size, 1) + Count(size, 2) + Count(size, 3)
<1> DEFINE body(f, n) ==
             IF n = 0 THEN size
             ELSE LET direct == IF n = 1 THEN DIRECT ELSE 1
                  IN IF f[n - 1] <= direct THEN 0
                     ELSE (f[n - 1] - direct + IndirCount - 1) \div IndirCount
           g == [n \in 0 .. (DEPTH - 1) |-> Count(size, n)]
           f == CHOOSE f : f = [n \in 0 .. (DEPTH - 1) |-> body(f, n)]
<1>1. \A e : /\ body(e, 0) = size /\ body(e, 1) = RoundUp(e[0], DIRECT)
             /\ body(e, 2) = RoundUp(e[1], 1) /\ body(e, 3) = RoundUp(e[2], 1)
  BY DEF RoundUp
<1>2. DEPTH - 1 = 3
  BY DEF DEPTH
<1>3. /\ Count(size, 0) = size /\ Count(size, 1) = RoundUp(Count(size, 0), DIRECT)
      /\ Count(size, 2) = RoundUp(Count(size, 1), 1)
      /\ Count(size, 3) = RoundUp(Count(size, 2), 1)
  BY DEF Count
<1>4. \A n \in 0 .. 3 : n = 0 \/ n = 1 \/ n = 2 \/ n = 3
  OBVIOUS
<1> HIDE DEF body
<1>5. g = [n \in 0 .. (DEPTH - 1) |-> body(g, n)]
  <2>1. \A n \in 0 .. 3 : g[n] = Count(size, n)
    BY <1>2
  <2>2. 0 \in 0 .. 3 /\ 1 \in 0 .. 3 /\ 2 \in 0 .. 3 /\ 3 \in 0 .. 3
    OBVIOUS
  <2>3. \A n \in 0 .. 3 : g[n] = body(g, n)
    <3>1. g[0] = size /\ g[1] = RoundUp(g[0], DIRECT) /\ g[2] = RoundUp(g[1], 1)
          /\ g[3] = RoundUp(g[2], 1)
      <4> HIDE DEF g
      <4> QED BY <1>3, <2>1, <2>2
    <3> HIDE DEF g
    <3> QED BY <1>1, <1>4, <3>1
  <2>4. g = [n \in 0 .. (DEPTH - 1) |-> g[n]]
    OBVIOUS
  <2> HIDE DEF g
  <2> QED BY <1>2, <2>3, <2>4
<1>6. f = [n \in 0 .. (DEPTH - 1) |-> body(f, n)]
  <2> HIDE DEF g
  <2> QED BY <1>5
<1>7. nblocks(size) = f[0] + f[1] + f[2] + f[3]
  BY DEF nblocks, body
<1> HIDE DEF f, g
<1>8. f[0] = body(f, 0) /\ f[1] = body(f, 1) /\ f[2] = body(f, 2) /\ f[3] = body(f, 3)
  <2>1. 0 \in 0 .. (DEPTH - 1) /\ 1 \in 0 .. (DEPTH - 1) /\ 2 \in 0 .. (DEPTH - 1)
        /\ 3 \in 0 .. (DEPTH - 1)
    BY <1>2
  <2> QED BY <1>6, <2>1
<1>9. f[0] = Count(size, 0) /\ f[1] = Count(size, 1) /\ f[2] = Count(size, 2)
      /\ f[3] = Count(size, 3)
  <2>1. f[0] = Count(size, 0)
    BY <1>1, <1>3, <1>8
  <2>2. f[1] = Count(size, 1)
    BY <1>1, <1>3, <1>8, <2>1
  <2>3. f[2] = Count(size, 2)
    BY <1>1, <1>3, <1>8, <2>2
  <2>4. f[3] = Count(size, 3)
    BY <1>1, <1>3, <1>8, <2>3
  <2> QED BY <2>1, <2>2, <2>3, <2>4
<1> QED BY <1>7, <1>9

LEMMA NblocksRight ==
  ASSUME NEW size \in Nat, size <= MaxBlocks
  PROVE  nblocks(size) =
           Cardinality(UNION {{SubSeq(block_to_path(b), 1, n) :
                               n \in DOMAIN block_to_path(b)} : b \in 0 .. (size - 1)})
<1> DEFINE S == [n \in 0 .. 3 |-> Prefixes(size, n)]
           c == [n \in 0 .. 3 |-> Count(size, n)]
           All == UNION {{SubSeq(block_to_path(b), 1, n) :
                          n \in DOMAIN block_to_path(b)} : b \in 0 .. (size - 1)}
<1>1. c \in [0 .. 3 -> Nat]
  BY CountIs, 0 \in Nat
<1>2. 0 \in 0 .. 3 /\ 1 \in 0 .. 3 /\ 2 \in 0 .. 3 /\ 3 \in 0 .. 3
  OBVIOUS
<1>3. Cardinality(((S[0] \cup S[1]) \cup S[2]) \cup S[3]) = c[0] + c[1] + c[2] + c[3]
  <2>1. \A n \in 0 .. 3 : IsFiniteSet(S[n]) /\ Cardinality(S[n]) = c[n]
    BY PrefixesCounted
  <2>2. \A n, m \in 0 .. 3 : n # m => S[n] \cap S[m] = {}
    BY PrefixesDisjoint
  <2> HIDE DEF S, c
  <2> QED BY <1>1, <2>1, <2>2, FourSizes
<1>4. ASSUME NEW b \in 0 .. (size - 1)
      PROVE  /\ block_to_path(b) \in Seq(Nat)
             /\ Len(block_to_path(b)) \in Nat /\ 1 <= Len(block_to_path(b))
             /\ Len(block_to_path(b)) <= 4
             /\ DOMAIN block_to_path(b) = 1 .. Len(block_to_path(b))
  <2>1. b \in Nat /\ b < MaxBlocks
    BY Sizes
  <2>2. IsPath(block_to_path(b))
    BY <2>1, PathIs
  <2> QED BY <2>2, UpTo4 DEF IsPath
<1>5. ASSUME NEW x \in All PROVE \E n \in 0 .. 3 : x \in Prefixes(size, n)
  <2>0. PICK b \in 0 .. (size - 1) :
          x \in {SubSeq(block_to_path(b), 1, n) : n \in DOMAIN block_to_path(b)}
    BY <1>5
  <2>1. PICK k \in DOMAIN block_to_path(b) : x = SubSeq(block_to_path(b), 1, k)
    BY <2>0
  <2>2. PICK l : l = Len(block_to_path(b))
    OBVIOUS
  <2>3. l \in Nat /\ l <= 4 /\ k \in 1 .. l
    BY <1>4, <2>1, <2>2
  <2>4. l - k \in 0 .. 3 /\ l - k < l /\ l - (l - k) = k
    BY <2>3
  <2>5. x \in Prefixes(size, l - k)
    BY <2>1, <2>2, <2>4 DEF Prefixes
  <2> QED BY <2>4, <2>5
<1>6. ASSUME NEW n \in 0 .. 3, NEW x \in Prefixes(size, n) PROVE x \in All
  <2>1. PICK b \in 0 .. (size - 1) :
          /\ n < Len(block_to_path(b))
          /\ x = SubSeq(block_to_path(b), 1, Len(block_to_path(b)) - n)
    BY <1>6 DEF Prefixes
  <2>2. PICK l : l = Len(block_to_path(b))
    OBVIOUS
  <2>3. l \in Nat /\ n < l /\ DOMAIN block_to_path(b) = 1 .. l
    BY <1>4, <2>1, <2>2
  <2>4. l - n \in DOMAIN block_to_path(b)
    BY <2>3
  <2>5. x \in {SubSeq(block_to_path(b), 1, k) : k \in DOMAIN block_to_path(b)}
    BY <2>1, <2>2, <2>4
  <2> QED BY <2>5
<1>7. \A n \in 0 .. 3 : n = 0 \/ n = 1 \/ n = 2 \/ n = 3
  OBVIOUS
<1>8. /\ S[0] = Prefixes(size, 0) /\ S[1] = Prefixes(size, 1)
      /\ S[2] = Prefixes(size, 2) /\ S[3] = Prefixes(size, 3)
      /\ c[0] = Count(size, 0) /\ c[1] = Count(size, 1)
      /\ c[2] = Count(size, 2) /\ c[3] = Count(size, 3)
  BY <1>2
<1> HIDE DEF S, c, All
<1>9. All = ((S[0] \cup S[1]) \cup S[2]) \cup S[3]
  <2>1. All \subseteq ((S[0] \cup S[1]) \cup S[2]) \cup S[3]
    BY <1>5, <1>7, <1>8
  <2>2. ((S[0] \cup S[1]) \cup S[2]) \cup S[3] \subseteq All
    BY <1>2, <1>6, <1>8
  <2> QED BY <2>1, <2>2
<1>10. nblocks(size) = Cardinality(All)
  BY <1>3, <1>8, <1>9, NblocksIs
<1> QED BY <1>10 DEF All

\* The number of blocks that stat(2) reports is the number of zones that the
\* paths to the blocks of the file lead through, for every size of a block.
THEOREM BlocksAreReported == Spec => []BlocksReported
<1>1. TypeOK => BlocksReported
  <2>1. ASSUME TypeOK PROVE isize \in Nat /\ isize <= MaxBlocks
    BY <2>1, Sizes DEF TypeOK
  <2> QED BY <2>1, NblocksRight DEF BlocksReported
<1> QED BY <1>1, TypeCorrect, PTL

=============================================================================
