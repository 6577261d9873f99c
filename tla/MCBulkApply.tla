---------------------------- MODULE MCBulkApply ----------------------------
(* Instances of BulkApply for TLC: workers and requests are model values. *)
EXTENDS BulkApply, TLC

CONSTANTS w1, w2, h1, h2, c1, c2

\* Requests and workers are interchangeable, in runs without fairness.
Symmetry == Permutations(Reviewers) \cup Permutations(Slots) \cup Permutations(Starters)
=============================================================================
