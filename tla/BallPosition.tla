--------------------------- MODULE BallPosition ---------------------------
(***************************************************************************)
(* Where the floating ball is put (ball-position.ts): from the anchor that *)
(* is stored to the bounds of its window, and from the bounds the user     *)
(* dragged it to, to the anchor.  Lengths are those of Electron, in DIP.   *)
(* A ratio is a fraction [n |-> numerator, d |-> denominator], which stays *)
(* exact where the code's double is within a rounding error of it; both    *)
(* are rounded to whole DIP before they are used.                          *)
(***************************************************************************)
EXTENDS Integers, Sequences

CONSTANT DisplayIds     \* the names of displays

NoDisplay == ""

ASSUME DisplayAssumption == NoDisplay \notin DisplayIds

BallSize == 56
BallMargin == 12
Edges == {"left", "right"}
Ratios == [n : Nat, d : Nat \ {0}]
Anchors == [displayId : DisplayIds \cup {NoDisplay}, edge : Edges, verticalRatio : Ratios]
Areas == [x : Int, y : Int, width : Nat, height : Nat]
Screens == [id : DisplayIds, workArea : Areas]

(* What the settings accept for an anchor and take from the database: one  *)
(* that names a display and is not beyond its edges.                       *)
IsBallAnchor(anchor) ==
  /\ anchor.displayId # NoDisplay
  /\ anchor.edge \in Edges
  /\ anchor.verticalRatio \in Ratios /\ anchor.verticalRatio.n <= anchor.verticalRatio.d

(* There is none.                                                          *)
NoAnchor == [displayId |-> NoDisplay, edge |-> "right", verticalRatio |-> [n |-> 0, d |-> 1]]

AtLeast(value, minimum) == IF value < minimum THEN minimum ELSE value
AtMost(value, maximum) == IF value > maximum THEN maximum ELSE value

(* Math.min(Math.max(value, minimum), Math.max(minimum, maximum)).         *)
Clamp(value, minimum, maximum) == AtMost(AtLeast(value, minimum), AtLeast(maximum, minimum))

(* Math.round of n / d.                                                    *)
Round(n, d) == (2 * n + d) \div (2 * d)

AvailableTravel(length) == AtLeast(length - BallSize - 2 * BallMargin, 0)
LeftX(area) == area.x + BallMargin
RightX(area) == area.x + area.width - BallMargin - BallSize
TopY(area) == area.y + BallMargin
BottomY(area) == area.y + area.height - BallMargin - BallSize

FindDisplay(anchor, displays) ==
  LET Named == {i \in DOMAIN displays : displays[i].id = anchor.displayId}
  IN  displays[IF Named = {} THEN 1 ELSE CHOOSE i \in Named : TRUE]

CreateDefaultBallAnchor(display) ==
  [displayId |-> display.id, edge |-> "right", verticalRatio |-> [n |-> 3, d |-> 5]]

BoundsAt(x, y) == [x |-> x, y |-> y, width |-> BallSize, height |-> BallSize]

ResolveOn(area, anchor) ==
  LET ratio == anchor.verticalRatio
  IN  BoundsAt(IF anchor.edge = "left" THEN LeftX(area) ELSE RightX(area),
               TopY(area) + Round(AvailableTravel(area.height) * ratio.n, ratio.d))

ResolveBallBounds(anchor, displays) ==
  LET display == FindDisplay(anchor, displays)
  IN  ResolveOn(display.workArea,
                IF anchor = NoAnchor THEN CreateDefaultBallAnchor(display) ELSE anchor)

-----------------------------------------------------------------------------
IntersectionArea(a, b) ==
  LET Overlap(low1, length1, low2, length2) ==
        AtLeast(AtMost(low1 + length1, low2 + length2) - AtLeast(low1, low2), 0)
  IN  Overlap(a.x, a.width, b.x, b.width) * Overlap(a.y, a.height, b.y, b.height)

(* The square of the distance from the centre of the bounds, times four:   *)
(* the centre may lie between two DIP.                                     *)
SquaredDistanceToRectangle(bounds, area) ==
  LET Off(low, length, areaLow, areaLength) ==
        LET twice == 2 * low + length
        IN  twice - Clamp(twice, 2 * areaLow, 2 * (areaLow + areaLength))
      dx == Off(bounds.x, bounds.width, area.x, area.width)
      dy == Off(bounds.y, bounds.height, area.y, area.height)
  IN  dx * dx + dy * dy

(* The display the bounds overlap most, or else the nearest; the first of  *)
(* several.                                                                *)
FindNearestDisplay(bounds, displays) ==
  LET Area(i) == IntersectionArea(bounds, displays[i].workArea)
      Distance(i) == SquaredDistanceToRectangle(bounds, displays[i].workArea)
      Better(i, j) == IF \E k \in DOMAIN displays : Area(k) > 0
                      THEN Area(i) > Area(j) ELSE Distance(i) < Distance(j)
  IN  displays[CHOOSE i \in DOMAIN displays : \A j \in DOMAIN displays :
                 ~Better(j, i) /\ (j < i => Better(i, j))]

PlaceOn(display, requested, edgeSnap) ==
  LET area == display.workArea
      travel == AvailableTravel(area.height)
      x == Clamp(requested.x, LeftX(area), RightX(area))
      y == Clamp(requested.y, TopY(area), BottomY(area))
      Away(from) == IF x < from THEN from - x ELSE x - from
      edge == IF Away(LeftX(area)) <= Away(RightX(area)) THEN "left" ELSE "right"
  IN  [anchor |-> [displayId |-> display.id, edge |-> edge,
                   verticalRatio |-> IF travel = 0 THEN [n |-> 0, d |-> 1]
                                                   ELSE [n |-> y - TopY(area), d |-> travel]],
       bounds |-> BoundsAt(IF ~edgeSnap THEN x
                           ELSE IF edge = "left" THEN LeftX(area) ELSE RightX(area), y)]

DeriveBallPlacement(requested, displays, edgeSnap) ==
  PlaceOn(FindNearestDisplay(requested, displays), requested, edgeSnap)

=============================================================================
