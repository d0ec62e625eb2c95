--------------------------- MODULE MCCalendarPage ---------------------------
(* Three events on two dashboards.  Each scenario uses some of the           *)
(* operations: the months, the tiles, the editor, the trash.                 *)
EXTENDS CalendarPage

D(a, b) == Between(a, b)
MCPlaces == {D(1, 3), D(4, 5)}
Ev(d, at, state) == [dash |-> d, at |-> at, state |-> state, stamp |-> 0, gone |-> 0]
Live == <<Ev("home", D(1, 3), "live"), Ev("home", D(4, 5), "none"), Ev("work", D(1, 3), "purged")>>
Bin == <<Ev("home", D(1, 3), "trash"), Ev("home", D(4, 5), "trash"), Ev("work", D(1, 3), "trash")>>
Two == [Bin EXCEPT ![3] = Live[3]]
One == [Bin EXCEPT ![2] = Live[2]]
Use(some) == [k \in Kinds |-> IF k \in DOMAIN some THEN some[k] ELSE 0]
S(screen, evs, some) == [screen |-> screen, events |-> evs, left |-> Use(some)]
MCScenarios == {
  S("page", Live, [month |-> 3, theirs |-> 1, fault |-> 1]),
  S("page", Live, [month |-> 1, retry |-> 1, fault |-> 1, theirs |-> 1, resync |-> 1]),
  S("page", Live, [month |-> 1, fault |-> 1, theirs |-> 2]),
  S("board", Live, [mode |-> 1, night |-> 1, theirs |-> 1]),
  S("board", Live, [night |-> 2, theirs |-> 1]),
  S("board", Live, [mode |-> 1, fault |-> 1, retry |-> 1, theirs |-> 1]),
  S("board", Live, [night |-> 2, fault |-> 1, retry |-> 1]),
  S("board", Live, [board |-> 2, month |-> 1, theirs |-> 1, fault |-> 1]),
  S("page", Live, [open |-> 3, submit |-> 2, fault |-> 1]),
  S("page", Live, [open |-> 2, submit |-> 1, theirs |-> 1]),
  S("page", Live, [open |-> 1, delete |-> 1, undo |-> 1, theirs |-> 1]),
  S("page", Bin, [trash |-> 2, switch |-> 2]),
  S("page", Bin, [trash |-> 2, switch |-> 1, row |-> 1]),
  S("page", One, [trash |-> 1, switch |-> 2, row |-> 1]),
  S("page", Two, [trash |-> 1, row |-> 1, fault |-> 1, theirs |-> 1]),
  S("page", Two, [trash |-> 1, row |-> 2, theirs |-> 1]),
  S("page", Two, [trash |-> 1, row |-> 2, fault |-> 1]),
  S("page", Live, [delete |-> 1, undo |-> 1, trash |-> 1, theirs |-> 1])
}
=============================================================================
