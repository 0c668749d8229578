---------------------------- MODULE MCBlockTree -----------------------------
(***************************************************************************)
(* Instances of BlockTree for TLC: one direct pointer and indirect blocks  *)
(* of two pointers, so that block 1 is the first below an indirect block,  *)
(* block 3 below a double and block 7 below a triple indirect one.         *)
(***************************************************************************)
EXTENDS BlockTree, TLC

ZoneSymmetry == Permutations(Zone)

=============================================================================
