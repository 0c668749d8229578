-------------------------------- MODULE Namei -------------------------------
(***************************************************************************)
(* Names and link counts (namei.c on top of dir.c).                        *)
(*                                                                         *)
(* The VFS holds the inode locks of the directories (and of the inodes     *)
(* whose links change) during an operation, so each operation is one step. *)
(* What makes it hard is failure in the middle: an operation makes several *)
(* changes, each of which may fail, before or after it is made, and the    *)
(* caller sees one error.  And the VFS goes by its dentries: an operation  *)
(* starts from what an earlier lookup found.                               *)
(***************************************************************************)
EXTENDS Directory

CONSTANTS
  Ino,        \* inode numbers; 1 is MINIX_ROOT_INO
  Name,       \* names other than . and ..
  MaxSlots,   \* bound on the size of a directory
  MaxLinks,   \* s_max_links
  LinkWrap,   \* values of i_nlink
  MaxFaults   \* bound on the number of failing steps

Root == 1

ASSUME NameiAssumption ==
  /\ Ino \subseteq Nat \ {0} /\ Root \in Ino /\ IsFiniteSet(Ino)
  /\ {Dot, DotDot} \cap Name = {}
  /\ MaxSlots \in Nat /\ MaxSlots >= 2 /\ MaxFaults \in Nat
  /\ MaxLinks \in Nat /\ LinkWrap \in Nat /\ 2 < MaxLinks /\ MaxLinks < LinkWrap

VARIABLES
  kind,     \* what each inode is: "free", "file" or "dir"
  nlink,    \* i_nlink
  slots,    \* the entries of each directory
  dead,     \* directories that rmdir or rename removed (S_DEAD)
  tmp,      \* files of O_TMPFILE that may still be linked (I_LINKABLE)
  dcache,   \* dentries that say something else than the directory does
  faults,   \* number of failing steps so far
  \* Ghosts
  torn,     \* inodes of operations that failed after a change
  blind,    \* directories for which a negative dentry was wrong
  lost      \* inodes that a rename left without a name

vars == <<kind, nlink, slots, dead, tmp, dcache, faults, torn, blind, lost>>

-----------------------------------------------------------------------------
(* Failures.  One operation makes its calls in steps 1, 2, ...; a fault    *)
(* makes one of those that write or one of those that read fail.           *)

Page == 0 .. PageOf(MaxSlots)
NoFault == [step |-> 0, how |-> "ok", page |-> 0]
Fault(writes, reads) ==
  {NoFault} \cup
  (IF faults = MaxFaults THEN {}
   ELSE [step : writes, how : {"prepare", "sync"}, page : {0}]
          \cup [step : reads, how : {"read"}, page : Page])

How(f, step) == IF f.step = step /\ f.how # "read" THEN f.how ELSE "ok"
Bad(f, step) == IF f.step = step /\ f.how = "read" THEN {f.page} ELSE {}

-----------------------------------------------------------------------------
(* Dentries.  A dentry that agrees with the directory makes no difference  *)
(* to a fresh lookup, so only the others are kept.                         *)

Fresh == -1
Lookup(d, n) ==
  IF dcache[d][n] # Fresh THEN dcache[d][n]
  ELSE inode_by_name(slots[d], n, {})

Live(d) == kind[d] = "dir" /\ d \notin dead
Negative(d, n) == Lookup(d, n) = 0

\* cominix_iget refuses an inode without links on the disk.
Positive(i) == i # 0 /\ kind[i] # "free"

\* The dentries after a step: those in c, where they differ from the slots s.
Differing(c, s) ==
  [d \in Ino |-> [n \in Name |->
     IF c[d][n] = inode_by_name(s[d], n, {}) THEN Fresh ELSE c[d][n]]]

Dentries(c) ==
  /\ dcache' = Differing(c, slots')
  /\ blind' = blind \cup {d \in Ino : \E n \in Name : dcache'[d][n] = 0}

\* A failed operation leaves its dentries as they were.
Kept(d, n) == [dcache EXCEPT ![d][n] = Lookup(d, n)]

-----------------------------------------------------------------------------
\* What an operation leaves behind: wrote says that it changed an entry, err
\* that it did not do what it should, is are the inodes it is about, ds the
\* directories.  It tears is when an entry was changed; what is torn tears the
\* directories it is moved or removed in.
Outcome(f, wrote, err, is, ds) ==
  /\ faults' = IF f = NoFault THEN faults ELSE faults + 1
  /\ torn' = IF ~wrote THEN torn
             ELSE IF is \cap torn # {} THEN torn \cup (is \ {0}) \cup ds
             ELSE IF err THEN torn \cup (is \ {0})
             ELSE torn

inc(i) == (i + 1) % LinkWrap
dec(i) == (i - 1) % LinkWrap

NewIno == Min({i \in Ino : kind[i] = "free"})
CanCreate(d, n) ==
  /\ Live(d) /\ Negative(d, n)
  /\ Len(slots[d]) < MaxSlots \/ \E i \in DOMAIN slots[d] : slots[d][i].ino = 0

-----------------------------------------------------------------------------
(* Who names an inode.                                                     *)

Dirs == {d \in Ino : Live(d)}

\* The places that name inode i, in directories that are still there.
Names(i) == UNION {{<<d, j>> : j \in {j \in Used(slots[d], {}) :
                                          slots[d][j].ino = i}} : d \in Dirs}

\* Those of them that are not the entries . and ..
Outside(i) == {dj \in Names(i) : slots[dj[1]][dj[2]].name \in Name}

-----------------------------------------------------------------------------
Init ==
  /\ kind = [i \in Ino |-> IF i = Root THEN "dir" ELSE "free"]
  /\ nlink = [i \in Ino |-> IF i = Root THEN 2 ELSE 0]
  /\ slots = [i \in Ino |-> IF i = Root THEN make_empty(Root, Root, "ok").dir
                            ELSE <<>>]
  /\ dead = {} /\ tmp = {}
  /\ dcache = [d \in Ino |-> [n \in Name |-> Fresh]]
  /\ faults = 0 /\ torn = {} /\ blind = {} /\ lost = {}

-----------------------------------------------------------------------------
(* Adding names.                                                           *)

\* Mutant: the link counted before the entry was added is kept.
add_nondir_kept(links, i, err) == links

\* When the entry cannot be added the link is taken back.
add_nondir(links, i, err) ==
  IF err THEN [links EXCEPT ![i] = dec(@)] ELSE links

\* cominix_mknod, cominix_create and cominix_symlink.  On an error the inode
\* is freed at once.
Mknod(d, n) ==
  /\ CanCreate(d, n) /\ \E i \in Ino : kind[i] = "free"
  /\ \E f \in Fault({1}, {1}) :
       LET i == NewIno
           r == add_link(slots[d], n, i, Bad(f, 1), How(f, 1))
       IN /\ slots' = [slots EXCEPT ![d] = r.dir]
          /\ nlink' = add_nondir([nlink EXCEPT ![i] = 1], i, r.err)
          /\ kind' = [kind EXCEPT ![i] = IF r.err THEN "free" ELSE "file"]
          /\ Dentries([dcache EXCEPT ![d][n] = IF r.err THEN 0 ELSE i])
          /\ Outcome(f, slots' # slots, r.err, {i}, {})
  /\ UNCHANGED <<dead, tmp, lost>>

\* cominix_tmpfile: d_tmpfile drops the only link.
Tmpfile ==
  /\ \E i \in Ino : kind[i] = "free"
  /\ kind' = [kind EXCEPT ![NewIno] = "file"]
  /\ tmp' = tmp \cup {NewIno}
  /\ UNCHANGED <<nlink, slots, dead, dcache, faults, torn, blind, lost>>

\* cominix_link; the VFS allows it for a file with a name and for one of
\* O_TMPFILE.
Link(i, d, n) ==
  /\ kind[i] = "file" /\ CanCreate(d, n)
  /\ nlink[i] < MaxLinks /\ (nlink[i] > 0 \/ i \in tmp)
  /\ \E f \in Fault({1}, {1}) :
       LET r == add_link(slots[d], n, i, Bad(f, 1), How(f, 1))
       IN /\ slots' = [slots EXCEPT ![d] = r.dir]
          /\ nlink' = add_nondir([nlink EXCEPT ![i] = inc(@)], i, r.err)
          /\ tmp' = IF r.err THEN tmp ELSE tmp \ {i}
          /\ Dentries([dcache EXCEPT ![d][n] = IF r.err THEN 0 ELSE i])
          /\ Outcome(f, slots' # slots, r.err, {i}, {})
  /\ UNCHANGED <<kind, dead, lost>>

\* cominix_mkdir: step 1 writes . and .., step 2 the entry in the parent.  On
\* an error both link counts are taken back and the inode is freed.
Mkdir(d, n) ==
  /\ CanCreate(d, n) /\ \E i \in Ino : kind[i] = "free"
  /\ nlink[d] < MaxLinks
  /\ \E f \in Fault({1, 2}, {2}) :
       LET i == NewIno
           e == make_empty(i, d, How(f, 1))
           r == IF e.err THEN Unchanged(slots[d])
                ELSE add_link(slots[d], n, i, Bad(f, 2), How(f, 2))
           up == [nlink EXCEPT ![d] = inc(@), ![i] = 2]
       IN /\ slots' = [slots EXCEPT ![d] = r.dir,
                                     ![i] = IF r.err THEN <<>> ELSE e.dir]
          /\ nlink' = IF r.err THEN [up EXCEPT ![i] = dec(dec(@)), ![d] = dec(@)]
                      ELSE up
          /\ kind' = [kind EXCEPT ![i] = IF r.err THEN "free" ELSE "dir"]
          /\ Dentries([dcache EXCEPT ![d][n] = IF r.err THEN 0 ELSE i])
          /\ Outcome(f, slots' # slots, r.err, {i}, {})
  /\ UNCHANGED <<dead, tmp, lost>>

-----------------------------------------------------------------------------
(* Removing names.                                                         *)

\* Step 1 finds the entry, step 2 deletes it.
Removed(d, n, f) ==
  LET e == find_entry(slots[d], n, Bad(f, 1))
  IN IF e = 0 THEN Unchanged(slots[d]) ELSE delete_entry(slots[d], e, How(f, 2))

\* The inodes an operation on the name n of d is about: the one the dentry
\* holds, and the one that the entry found names if that is another.
About(d, n, bad) == {Lookup(d, n), inode_by_name(slots[d], n, bad)}

\* The dentry of a removed name turns negative, those below it are dropped.
Without(d, n, i) ==
  [e \in Ino |-> [m \in Name |-> IF e = d /\ m = n THEN 0
                                 ELSE IF e = i THEN Fresh ELSE dcache[e][m]]]

\* The count dropped is that of the inode the dentry holds.
unlinked(links, i, err) ==
  IF err THEN links ELSE [links EXCEPT ![i] = dec(@)]

Unlink(d, n) ==
  /\ Live(d) /\ ~Negative(d, n) /\ kind[Lookup(d, n)] = "file"
  /\ \E f \in Fault({2}, {1}) :
       LET i == Lookup(d, n)
           r == Removed(d, n, f)
           is == About(d, n, Bad(f, 1))
       IN /\ slots' = [slots EXCEPT ![d] = r.dir]
          /\ nlink' = unlinked(nlink, i, r.err)
          /\ Dentries(IF r.err THEN Kept(d, n) ELSE Without(d, n, 0))
          /\ Outcome(f, slots' # slots, r.err \/ Cardinality(is) > 1, is, {})
  /\ UNCHANGED <<kind, dead, tmp, lost>>

\* The inodes that a directory names besides itself and its parent.
Inside(i) ==
  {slots[i][j].ino : j \in {j \in Used(slots[i], {}) : slots[i][j].name \in Name}}

\* The directory that the entry .. of directory i names.
Up(i) == {slots[j][2].ino : j \in {i} \cap {j \in Ino : kind[j] = "dir"}}

rmdir_links(links, d, i, err) ==
  IF err THEN links ELSE [links EXCEPT ![d] = dec(@), ![i] = dec(@)]

\* cominix_rmdir: step 3 looks whether the directory is empty, as far as its
\* pages can be read.
Rmdir(d, n) ==
  /\ Live(d) /\ ~Negative(d, n) /\ kind[Lookup(d, n)] = "dir"
  /\ Lookup(d, n) \notin {Root, d}
  /\ \E f \in Fault({2}, {1, 3}) :
       LET i == Lookup(d, n)
           r == Removed(d, n, f)
           is == About(d, n, Bad(f, 1))
       IN /\ empty_dir(slots[i], i, Bad(f, 3))
          /\ slots' = [slots EXCEPT ![d] = r.dir]
          /\ nlink' = rmdir_links(unlinked(nlink, i, r.err), d, i, r.err)
          /\ dead' = IF r.err THEN dead ELSE dead \cup {i}
          /\ Dentries(IF r.err THEN Kept(d, n) ELSE Without(d, n, i))
          /\ Outcome(f, slots' # slots, r.err \/ Cardinality(is) > 1 \/ f.step = 3,
                     is \cup Inside(i), {d} \cup Up(i))
  /\ UNCHANGED <<kind, tmp, lost>>

-----------------------------------------------------------------------------
(* Renaming.  Steps 1 to 4 look, 5 to 7 change: the new entry, the old     *)
(* entry, the entry .. of a directory.  An error ends the operation there, *)
(* and nothing that was done is undone.                                    *)

\* Directories below directory i, through any name.
Below(i) ==
  LET Closed(S) == \A p \in S, m \in Name : Lookup(p, m) \in S \cup {0}
  IN {j \in Ino : \A S \in SUBSET Ino : i \in S /\ Closed(S) => j \in S}

\* What the VFS asks for before it calls cominix_rename with dentries for
\* oi and ni, where ni = 0 is a negative one.
MayRename(od, on, nd, nn, oi, ni) ==
  /\ Live(od) /\ Live(nd) /\ <<od, on>> # <<nd, nn>> /\ Positive(oi)
  /\ ni = 0 \/ (Positive(ni) /\ kind[oi] = kind[ni])
  /\ oi \notin {ni, Root} /\ ni # Root
  /\ ni = 0 => CanCreate(nd, nn)
  /\ kind[oi] = "dir" => nd \notin Below(oi) /\ (ni # 0 => od \notin Below(ni))
  /\ ni = 0 /\ kind[oi] = "dir" /\ od # nd => nlink[nd] < MaxLinks

\* Mutants: the old entry is deleted before the new one is made; .. is not
\* changed.
rename_dirs_early(e, t, oi, od, nd, nn, f) ==
  LET r6 == delete_entry(slots[od], e, How(f, 6))
      s6 == [slots EXCEPT ![od] = r6.dir]
      r5 == IF t # 0 THEN set_link(s6[nd], t, oi, How(f, 5))
            ELSE add_link(s6[nd], nn, oi, Bad(f, 5), How(f, 5))
  IN [dirs |-> IF r6.err THEN s6 ELSE [s6 EXCEPT ![nd] = r5.dir],
      done |-> IF r6.err \/ r5.err THEN 4 ELSE 7]
rename_dirs_updir(e, t, oi, od, nd, nn, f) ==
  LET r5 == IF t # 0 THEN set_link(slots[nd], t, oi, How(f, 5))
            ELSE add_link(slots[nd], nn, oi, Bad(f, 5), How(f, 5))
      s5 == [slots EXCEPT ![nd] = r5.dir]
      r6 == delete_entry(s5[od], e, How(f, 6))
  IN [dirs |-> IF r5.err THEN s5 ELSE [s5 EXCEPT ![od] = r6.dir],
      done |-> IF r5.err THEN 4 ELSE IF r6.err THEN 5 ELSE 7]

\* The directories after the changes, and the last step that went well.  e is
\* the old entry, t the entry of the target, or 0.
rename_dirs(e, t, oi, od, nd, nn, f) ==
  LET r5 == IF t # 0 THEN set_link(slots[nd], t, oi, How(f, 5))
            ELSE add_link(slots[nd], nn, oi, Bad(f, 5), How(f, 5))
      s5 == [slots EXCEPT ![nd] = r5.dir]
      r6 == delete_entry(s5[od], e, How(f, 6))
      s6 == [s5 EXCEPT ![od] = r6.dir]
      r7 == set_link(s6[oi], 2, nd, How(f, 7))
  IN IF r5.err THEN [dirs |-> s5, done |-> 4]
     ELSE IF r6.err THEN [dirs |-> s6, done |-> 5]
     ELSE IF kind[oi] # "dir" THEN [dirs |-> s6, done |-> 7]
     ELSE [dirs |-> [s6 EXCEPT ![oi] = r7.dir], done |-> IF r7.err THEN 6 ELSE 7]

\* The link counts: that of the target goes down, or that of the new parent
\* up, and that of the old parent down at the end.
rename_links(oi, ni, od, nd, done) ==
  LET isdir == kind[oi] = "dir"
      met == IF ni # 0 THEN [nlink EXCEPT ![ni] = IF isdir THEN dec(dec(@)) ELSE dec(@)]
             ELSE IF isdir THEN [nlink EXCEPT ![nd] = inc(@)] ELSE nlink
  IN IF done < 5 THEN nlink
     ELSE IF isdir /\ done = 7 THEN [met EXCEPT ![od] = dec(@)]
     ELSE met

\* The dentry of the old name moves to the new one; below a replaced
\* directory there are no dentries left.
Moved(od, on, nd, nn, oi, ni) ==
  [d \in Ino |-> [n \in Name |->
     IF d = nd /\ n = nn THEN oi
     ELSE IF (d = od /\ n = on) \/ d = ni THEN Fresh
     ELSE dcache[d][n]]]

\* The operation with dentries for oi and ni and the fault f.
Renamed(od, on, nd, nn, oi, ni, f) ==
  LET isdir == kind[oi] = "dir"
      e == find_entry(slots[od], on, Bad(f, 1))
      t == IF ni = 0 THEN 0 ELSE find_entry(slots[nd], nn, Bad(f, 4))
      go == /\ e # 0 /\ (isdir => dotdot(slots[oi], Bad(f, 2)) # 0)
            /\ ni # 0 => t # 0 /\ (isdir => empty_dir(slots[ni], ni, Bad(f, 3)))
      r == IF go THEN rename_dirs(e, t, oi, od, nd, nn, f)
           ELSE [dirs |-> slots, done |-> 0]
      ok == r.done = 7
      old == About(od, on, Bad(f, 1))
      new == IF ni = 0 THEN {} ELSE About(nd, nn, Bad(f, 4))
  IN /\ slots' = r.dirs
     /\ nlink' = rename_links(oi, ni, od, nd, r.done)
     /\ dead' = IF ok /\ isdir /\ ni # 0 THEN dead \cup {ni} ELSE dead
     /\ lost' = lost \cup {i \in {oi} : /\ e # 0 /\ slots[od][e].ino = i
                                        /\ Outside(i)' = {}}
     /\ Dentries(IF ok THEN Moved(od, on, nd, nn, oi, ni)
                 ELSE [Kept(od, on) EXCEPT ![nd][nn] = ni])
     /\ Outcome(f, r.done >= 5 \/ slots' # slots,
                ~ok \/ Cardinality(old) > 1 \/ Cardinality(new) > 1 \/ f.step = 3,
                old \cup new \cup (IF isdir THEN {od, nd} ELSE {})
                    \cup (IF isdir /\ ni # 0 THEN Inside(ni) ELSE {}),
                Up(oi) \cup Up(ni))

Rename(od, on, nd, nn) ==
  \E oi \in {Lookup(od, on)}, ni \in {Lookup(nd, nn)} :
    /\ MayRename(od, on, nd, nn, oi, ni)
    /\ UNCHANGED <<kind, tmp>>
    /\ \E f \in Fault({5, 6, 7}, {1, 2, 3, 4, 5}) : Renamed(od, on, nd, nn, oi, ni, f)

-----------------------------------------------------------------------------
(* Dentries and inodes come and go.                                        *)

\* cominix_lookup while page p cannot be read: what it finds stays in the
\* dentry.
LookupBlind(d, n, p) ==
  LET i == inode_by_name(slots[d], n, {p})
  IN /\ faults < MaxFaults /\ faults' = faults + 1
     /\ Live(d) /\ dcache[d][n] = Fresh
     /\ i # 0 => kind[i] # "free"
     /\ Lookup(d, n) # i
     /\ slots' = slots /\ Dentries([dcache EXCEPT ![d][n] = i])
     /\ UNCHANGED <<kind, nlink, dead, tmp, torn, lost>>

\* The VFS forgets an unused dentry; the next lookup goes to the directory.
DropDentry(d, n) ==
  /\ dcache[d][n] # Fresh
  /\ dcache' = [dcache EXCEPT ![d][n] = Fresh]
  /\ UNCHANGED <<kind, nlink, slots, dead, tmp, faults, torn, blind, lost>>

\* Mutant: only files are truncated.
truncated_file(i) == slots

truncated(i) == [slots EXCEPT ![i] = <<>>]

\* cominix_evict_inode of an inode without links: it is truncated and freed.
\* (One with links leaves memory and comes back as it was; a removed directory
\* that kept links has no name to come back by, and the root stays in memory.)
\* A directory whose count was too low takes the names in it along.
Evict(i) ==
  /\ i # Root /\ kind[i] # "free" /\ nlink[i] = 0
  /\ \A d \in Ino, n \in Name : dcache[d][n] # i
  /\ kind' = [kind EXCEPT ![i] = "free"]
  /\ slots' = truncated(i)
  /\ dead' = dead \ {i} /\ tmp' = tmp \ {i}
  /\ Dentries([dcache EXCEPT ![i] = [n \in Name |-> Fresh]])
  /\ torn' = IF i \in torn \ dead THEN torn \cup Inside(i) \cup Up(i) ELSE torn
  /\ UNCHANGED <<nlink, faults, lost>>

Next ==
  \/ \E d \in Ino, n \in Name :
       \/ Mknod(d, n) \/ Mkdir(d, n) \/ Unlink(d, n) \/ Rmdir(d, n)
       \/ DropDentry(d, n)
       \/ \E i \in Ino : Link(i, d, n)
       \/ \E p \in Page : LookupBlind(d, n, p)
  \/ \E od, nd \in Ino, on, nn \in Name : Rename(od, on, nd, nn)
  \/ \E i \in Ino : Evict(i)
  \/ Tmpfile

Spec == Init /\ [][Next]_vars

-----------------------------------------------------------------------------
\* Type invariant of the state of namei.c.
TypeOK ==
  /\ kind \in [Ino -> {"free", "file", "dir"}]
  /\ nlink \in [Ino -> 0 .. (LinkWrap - 1)]
  /\ \A d \in Ino : /\ kind[d] # "dir" => slots[d] = <<>>
                     /\ Len(slots[d]) <= MaxSlots
                     /\ \A j \in DOMAIN slots[d] : slots[d][j].ino \in Ino \cup {0}
  /\ dead \subseteq Ino /\ tmp \subseteq Ino /\ torn \subseteq Ino
  /\ dcache \in [Ino -> [Name -> Ino \cup {0, Fresh}]]
  /\ blind \subseteq Ino /\ lost \subseteq Ino /\ faults \in 0 .. MaxFaults

\* i_nlink of every inode is the number of entries that name it, 0 for a free
\* one, whatever step of whatever operation failed; only for the inodes of an
\* operation that failed when an entry was already changed it may be another.
\* (An inode whose count is too low is freed while it still has a name.)
LinksExact == \A i \in Ino \ torn : nlink[i] = Cardinality(Names(i))

\* A directory holds a name twice only if a dentry once said, wrongly, that
\* the name is not there: cominix_add_link takes the first free slot and does
\* not look behind it, so the dentry is all that keeps names unique.
NamesUnique ==
  \A d \in Dirs \ blind : \A j, k \in Used(slots[d], {}) :
    slots[d][j].name = slots[d][k].name => j = k

\* The directories form a tree: each but the root has one name, and its ..
\* is the directory that holds the name.
TreeShape ==
  \A d \in (Dirs \ torn) \ {Root} :
    nlink[d] # 0 => \E dj \in Outside(d) :
                      Outside(d) = {dj} /\ slots[d][2] = Slot(DotDot, dj[1])

\* A rename never loses the file: at whatever step it fails, an entry still
\* names the inode that it found under the old name.
RenameKeeps == lost = {}

=============================================================================
