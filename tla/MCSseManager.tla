---------------------------- MODULE MCSseManager ----------------------------
(* Two streams of two users under two sessions; the queue holds two frames. *)
EXTENDS SseManager, TLC

CONSTANTS u1, u2, s1, s2, c1, c2

MCUserOf == c1 :> u1 @@ c2 :> u2
MCSessionOf == c1 :> s1 @@ c2 :> s2
=============================================================================
