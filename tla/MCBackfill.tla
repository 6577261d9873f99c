----------------------------- MODULE MCBackfill -----------------------------
(***************************************************************************)
(* Small instances of Backfill: a folder of two or three messages.         *)
(***************************************************************************)
EXTENDS Backfill, TLC

CONSTANTS w1, w2

\* Two workers differ in nothing but their names.
Symmetry == Permutations(Slots)
=============================================================================
