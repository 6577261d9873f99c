----------------------------- MODULE MCCompose -----------------------------
(* Instances of Compose for TLC: tabs and requests are model values. *)
EXTENDS Compose, TLC

CONSTANTS t1, t2, k1, k2, k3

\* Requests are interchangeable, in runs without fairness.
RequestSymmetry == Permutations(Requests)
=============================================================================
