--------------------------- MODULE MCSseReconnect ---------------------------
(* One tab over two connection slots, so that an abandoned stream can linger *)
(* while the tab reconnects.                                                 *)
EXTENDS SseReconnect, TLC

CONSTANTS u1, u2, s1, c1, c2, w1, w2

MCUserOf == [c \in Streams |-> u1]
MCSessionOf == [c \in Streams |-> s1]
Symmetry == Permutations({w1, w2}) \cup Permutations({c1, c2})
=============================================================================
