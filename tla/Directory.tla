------------------------------ MODULE Directory -----------------------------
(***************************************************************************)
(* The contents of one directory (dir.c): an array of slots kept in pages, *)
(* and the functions that search, change and list it.                      *)
(*                                                                         *)
(* A slot is an entry or free (inode number 0).  A page that cannot be     *)
(* read is passed over by the searches and stops an insertion; bad is the  *)
(* set of such pages during a call.  A change reserves the block, writes   *)
(* the slot and writes the directory out: how says whether it goes well,   *)
(* cominix_prepare_chunk fails ("prepare"), which changes nothing, or      *)
(* cominix_handle_dirsync fails ("sync") when the slot is already changed. *)
(***************************************************************************)
EXTENDS Integers, Sequences, FiniteSetsExt

CONSTANT PageSlots   \* slots of a page: PAGE_SIZE / s_dirsize

ASSUME DirectoryAssumption == PageSlots \in Nat /\ PageSlots >= 2

Dot == "."
DotDot == ".."

Slot(name, ino) == [name |-> name, ino |-> ino]

\* The name in a free slot is never looked at.
FreeSlot == Slot("", 0)

-----------------------------------------------------------------------------
(* Pages.  i_size is Len(s) slots.                                         *)

PageOf(i) == (i - 1) \div PageSlots
dir_pages(s) == (Len(s) + PageSlots - 1) \div PageSlots

last_byte(s, n) ==
  IF n = Len(s) \div PageSlots THEN Len(s) % PageSlots ELSE PageSlots

\* The slots that a search comes by: whole pages, up to the last byte of the
\* last one, which is the only one that may be cut off.
Scan(s, bad) ==
  LET n == dir_pages(s) - 1
  IN {i \in 1 .. (n * PageSlots + last_byte(s, n)) : PageOf(i) \notin bad}

Used(s, bad) == {i \in Scan(s, bad) : s[i].ino # 0}

-----------------------------------------------------------------------------
(* Searching.                                                              *)

\* Mutant: the last slot of the directory is passed over.
find_entry_last(s, name, bad) ==
  LET hits == {i \in Used(s, bad) \ {Len(s)} : s[i].name = name}
  IN IF hits = {} THEN 0 ELSE Min(hits)

\* The first slot with that name; 0 stands for NULL.
find_entry(s, name, bad) ==
  LET hits == {i \in Scan(s, bad) : s[i].ino # 0 /\ s[i].name = name}
  IN IF hits = {} THEN 0 ELSE Min(hits)

inode_by_name(s, name, bad) ==
  LET i == find_entry(s, name, bad) IN IF i = 0 THEN 0 ELSE s[i].ino

\* The slot of "..", unless its page cannot be read.
dotdot(s, bad) == IF 0 \in bad THEN 0 ELSE 2

empty_dir(s, self, bad) ==
  \A i \in Used(s, bad) :
    s[i].name = DotDot \/ (s[i].name = Dot /\ s[i].ino = self)

-----------------------------------------------------------------------------
(* Changing.  The result is the directory afterwards and whether an error  *)
(* is returned.                                                            *)

Unchanged(s) == [dir |-> s, err |-> TRUE]

Commit(s, i, slot, how) ==
  IF how = "prepare" THEN Unchanged(s)
  ELSE [dir |-> IF i > Len(s) THEN Append(s, slot) ELSE [s EXCEPT ![i] = slot],
        err |-> how = "sync"]

\* The first slot that is free, or the one behind the end, is taken; an entry
\* of that name in front of it is an error, one behind it is not seen.
add_link(s, name, ino, bad, how) ==
  LET stop == Min({i \in 1 .. (Len(s) + 1) :
                     \/ i = Len(s) + 1
                     \/ s[i].ino = 0
                     \/ s[i].name = name})
  IN IF \/ \E n \in bad : n <= PageOf(stop)
        \/ stop <= Len(s) /\ s[stop].ino # 0
     THEN Unchanged(s)
     ELSE Commit(s, stop, Slot(name, ino), how)

delete_entry(s, i, how) == Commit(s, i, FreeSlot, how)

set_link(s, i, ino, how) == Commit(s, i, Slot(s[i].name, ino), how)

make_empty(self, parent, how) ==
  IF how = "prepare" THEN Unchanged(<<>>)
  ELSE [dir |-> <<Slot(Dot, self), Slot(DotDot, parent)>>, err |-> how = "sync"]

-----------------------------------------------------------------------------
(* Listing.  One call of cominix_readdir begins at ctx->pos = pos and ends *)
(* in front of slot stop, where the buffer of the caller is full, or       *)
(* behind the last slot.  ctx->pos moves on by one for every slot passed,  *)
(* and not at all over a page that cannot be read.                         *)

Passed(s, pos, stop, bad) == {i \in Scan(s, bad) : i > pos /\ i < stop}

emitted(s, pos, stop, bad) == Passed(s, pos, stop, bad) \cap Used(s, bad)

\* Mutants: ctx->pos is moved on over the entry that did not fit, or only over
\* the slots that hold an entry.
readdir_pos_past(s, pos, stop, bad) ==
  pos + Cardinality({i \in Scan(s, bad) : i > pos /\ i <= stop})

readdir_pos_used(s, pos, stop, bad) ==
  pos + Cardinality(emitted(s, pos, stop, bad))

readdir_pos(s, pos, stop, bad) == pos + Cardinality(Passed(s, pos, stop, bad))

\* Where a call may stop: in front of an entry, but not of the first one.
Stops(s, pos, bad) ==
  {i \in Used(s, bad) : emitted(s, pos, i, bad) # {}} \cup {Len(s) + 1}

=============================================================================
