------------------------------ MODULE MCBitmap ------------------------------
(***************************************************************************)
(* Instance of Bitmap for TLC: two blocks of two bits or more in each map, *)
(* and a tail of zones that belongs to the chunk area.                     *)
(***************************************************************************)
EXTENDS Bitmap, TLC

TaskSymmetry == Permutations(Task)

=============================================================================
