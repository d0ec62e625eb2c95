---------------------------- MODULE MCSseFanout -----------------------------
(* Two workers; the Redis stream keeps a single entry when it trims.         *)
EXTENDS SseFanout, TLC

CONSTANTS w1, w2

Symmetry == Permutations({w1, w2})
=============================================================================
