------------------------------- MODULE MCNamei ------------------------------
(* Namei for TLC.  A name is an atom, so the names may be exchanged.        *)
EXTENDS Namei, TLC

Symmetry == Permutations(Name)

=============================================================================
