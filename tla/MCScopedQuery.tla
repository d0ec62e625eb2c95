--------------------------- MODULE MCScopedQuery ----------------------------
(* A list the user already has and one this tab may create; the cache keeps  *)
(* one, so that each insertion evicts or finds the other pinned.             *)
EXTENDS ScopedQuery

CONSTANTS old, new

MCKeys == {old, new}
MCNewKeys == {new}
=============================================================================
