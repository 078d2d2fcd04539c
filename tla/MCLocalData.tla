---------------------------- MODULE MCLocalData ----------------------------
(* LocalData for TLC, with a second display beside and above the primary   *)
(* one: the ball can be left on it and it can be unplugged.  The drags end *)
(* beyond the corner of the one and between the edges of the other.        *)
EXTENDS LocalData

Display(id, x, y, width, height) ==
  [id |-> id, workArea |-> [x |-> x, y |-> y, width |-> width, height |-> height]]

Primary == Display("primary", 0, 0, 200, 130)
Second == Display("second", 200, -60, 150, 250)

MCLayouts == {<<Primary>>, <<Primary, Second>>}
MCFirstLayout == <<Primary>>
MCUsers == {[calls |-> 2, moves |-> 0], [calls |-> 0, moves |-> 3]}
MCLeftAnchor == CreateDefaultBallAnchor(Second)
MCDrags == {BoundsAt(-300, -300), BoundsAt(250, 41)}
=============================================================================
