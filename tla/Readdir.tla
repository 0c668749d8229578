------------------------------- MODULE Readdir ------------------------------
(***************************************************************************)
(* One task lists a directory with several calls of getdents while others  *)
(* add and remove entries (dir.c).  The VFS holds the lock of the          *)
(* directory during a call, so the calls are steps; between two of them    *)
(* only ctx->pos is kept, and a page may fail to be read in any of them.   *)
(***************************************************************************)
EXTENDS Directory

CONSTANTS
  Name,      \* names other than . and ..
  MaxSlots,  \* bound on the size of the directory
  MaxFail    \* bound on the number of calls in which a page cannot be read

ASSUME ReaddirAssumption ==
  \* a directory has the entries . and ..
  /\ MaxSlots \in Nat /\ MaxSlots >= 2
  /\ MaxFail \in Nat /\ {Dot, DotDot} \cap Name = {}

VARIABLES
  dir,     \* the slots
  pos,     \* ctx->pos of the open directory, in slots
  ended,   \* the last call returned nothing
  fails,   \* number of calls in which a page could not be read
  \* Ghosts, since the directory was opened or rewound
  stable,  \* slots whose entry has not changed
  seen,    \* how often each of them was returned, up to 2
  failed   \* pages that could not be read in some call

vars == <<dir, pos, ended, fails, stable, seen, failed>>

Slots == 1 .. MaxSlots
Page == 0 .. PageOf(MaxSlots)

Init ==
  /\ dir = make_empty(1, 1, "ok").dir
  /\ pos = 0 /\ ended = FALSE /\ fails = 0
  /\ stable = {1, 2} /\ seen = [i \in Slots |-> 0] /\ failed = {}

\* The slots in which the directories d and e agree.
Same(d, e) == {i \in DOMAIN d \cap DOMAIN e : d[i] = e[i]}

Change(d) ==
  /\ dir' = d /\ Len(d) <= MaxSlots
  /\ stable' = stable \cap Same(dir, d)
  /\ seen' = [i \in Slots |-> IF i \in stable' THEN seen[i] ELSE 0]
  /\ UNCHANGED <<pos, ended, fails, failed>>

\* Another task adds or removes an entry.
Add(n) ==
  /\ find_entry(dir, n, {}) = 0
  /\ Change(add_link(dir, n, 2, {}, "ok").dir)

Remove(n) ==
  /\ find_entry(dir, n, {}) # 0
  /\ Change(delete_entry(dir, find_entry(dir, n, {}), "ok").dir)

\* Mutant: a page that cannot be read makes the list start again.
ReaddirAgain(bad) ==
  /\ ~ended
  /\ pos' = IF bad = {} THEN Len(dir) ELSE 0
  /\ ended' = (bad = {} /\ pos >= Len(dir))
  /\ seen' = [i \in Slots |-> IF i \in stable THEN 1 ELSE 0]
  /\ failed' = failed \cup bad
  /\ UNCHANGED <<dir, stable, fails>>

\* One call of cominix_readdir; the pages in bad cannot be read.
Readdir(bad) ==
  /\ ~ended
  /\ bad # {} => fails < MaxFail
  /\ \E stop \in Stops(dir, pos, bad) :
       LET out == emitted(dir, pos, stop, bad) \cap stable
       IN /\ pos' = readdir_pos(dir, pos, stop, bad)
          /\ ended' = (emitted(dir, pos, stop, bad) = {})
          /\ seen' = [i \in Slots |-> IF i \in out /\ seen[i] < 2 THEN seen[i] + 1
                                      ELSE seen[i]]
  /\ fails' = IF bad = {} THEN fails ELSE fails + 1
  /\ failed' = failed \cup bad
  /\ UNCHANGED <<dir, stable>>

\* rewinddir, or opening the directory anew.
Rewind ==
  /\ ended
  /\ pos' = 0 /\ ended' = FALSE /\ failed' = {}
  /\ stable' = Used(dir, {}) /\ seen' = [i \in Slots |-> 0]
  /\ UNCHANGED <<dir, fails>>

BadPages == {{}} \cup {{p} : p \in Page \cap (0 .. (dir_pages(dir) - 1))}

Next ==
  \/ \E n \in Name : Add(n) \/ Remove(n)
  \/ \E bad \in BadPages : Readdir(bad)
  \/ Rewind

\* The task calls getdents until it returns nothing.
Spec == Init /\ [][Next]_vars /\ WF_vars(\E bad \in BadPages : Readdir(bad))

-----------------------------------------------------------------------------
\* An entry that is there during the whole list is not returned twice,
\* whatever is added or removed between the calls, unless some page could not
\* be read: ctx->pos is not moved over such a page and falls behind.
ListedOnce == failed = {} => \A i \in stable : seen[i] <= 1

\* An entry that is there during the whole list has been returned when the
\* list has passed it or has ended, even if other pages could not be read.
ListedAll ==
  \A i \in stable : /\ i <= pos \/ ended
                    /\ PageOf(i) \notin failed
                    => seen[i] >= 1

\* A list comes to its end, though entries are added and removed all the time
\* and pages cannot be read: every call that returns something moves on.
ListEnds == []<>ended

=============================================================================
