------------------------- MODULE MCDashboardAccess --------------------------
(* A creator and two others, two codes, requests in interchangeable slots.   *)
EXTENDS DashboardAccess, TLC

CONSTANTS olga, ann, bob, code1, code2, r1, r2, r3

Symmetry == Permutations({r1, r2, r3}) \cup Permutations({ann, bob}) \cup Permutations({code1, code2})
=============================================================================
