-------------------------- MODULE LocalDataProofs --------------------------
(***************************************************************************)
(* What LocalData promises for any number of starts, resets and displays,  *)
(* and what the geometry of the ball and of the card promises on every     *)
(* display: the ball is where handleBallMoved would put it; the card is    *)
(* where the user can read it, and hides no line of what was selected as   *)
(* long as there is room.                                                  *)
(***************************************************************************)
EXTENDS LocalData, CardPosition, FiniteSetTheorems, WellFoundedInduction, TLAPS

(* A work area the ball fits into, with its margins.                       *)
Roomy(area) ==
  /\ area \in Areas
  /\ area.width >= BallSize + 2 * BallMargin
  /\ area.height >= BallSize + 2 * BallMargin

(* Where the ball may be dragged to.                                       *)
Requests == [x : Int, y : Int, width : Nat, height : Nat]

(* The bounds lie within the area, a margin away from its edges.           *)
Fits(bounds, area) ==
  /\ bounds.width = BallSize /\ bounds.height = BallSize
  /\ LeftX(area) <= bounds.x /\ bounds.x <= RightX(area)
  /\ TopY(area) <= bounds.y /\ bounds.y <= BottomY(area)

-----------------------------------------------------------------------------
(* Clamping: the value if it is between the limits, or the limit it is     *)
(* beyond.                                                                 *)
LEMMA ClampStays ==
  ASSUME NEW value \in Int, NEW low \in Int, NEW high \in Int, low <= high
  PROVE  /\ Clamp(value, low, high) \in Int
         /\ low <= Clamp(value, low, high) /\ Clamp(value, low, high) <= high
         /\ low <= value /\ value <= high => Clamp(value, low, high) = value
BY DEF Clamp, AtLeast, AtMost

(* A clamped value lies below the value only at the upper limit, and above *)
(* it only at the lower one.                                               *)
LEMMA ClampLimits ==
  ASSUME NEW value \in Int, NEW low \in Int, NEW high \in Int, low <= high
  PROVE  /\ value <= Clamp(value, low, high) \/ Clamp(value, low, high) = high
         /\ Clamp(value, low, high) <= value \/ Clamp(value, low, high) = low
BY DEF Clamp, AtLeast, AtMost

(* Rounding a whole number, written as a fraction, returns it.             *)
LEMMA RoundWhole ==
  ASSUME NEW k \in Int, NEW d \in Nat \ {0}
  PROVE  Round(d * k, d) = k
<1>1. 2 * (d * k) + d = (2 * d) * k + d
  OBVIOUS
<1>2. ((2 * d) * k + d) \div (2 * d) = k
  <2>1. 0 <= d /\ d < 2 * d
    OBVIOUS
  <2> QED BY <2>1, Z3
<1> QED BY <1>1, <1>2 DEF Round

-----------------------------------------------------------------------------
(* Wherever the ball is dragged to, deriveBallPlacement puts it within the *)
(* work area of its display, and at its edge if it is to snap.             *)
THEOREM PlacementFits ==
  ASSUME NEW display, Roomy(display.workArea), NEW requested \in Requests,
         NEW edgeSnap \in BOOLEAN
  PROVE  LET bounds == PlaceOn(display, requested, edgeSnap).bounds
         IN  /\ Fits(bounds, display.workArea)
             /\ edgeSnap => bounds.x \in {LeftX(display.workArea), RightX(display.workArea)}
<1> DEFINE area == display.workArea
<1> DEFINE x == Clamp(requested.x, LeftX(area), RightX(area))
<1> DEFINE y == Clamp(requested.y, TopY(area), BottomY(area))
<1>1. /\ {area.x, area.y, area.width, area.height, requested.x, requested.y} \subseteq Int
      /\ area.width >= 80 /\ area.height >= 80
  BY DEF Roomy, Areas, Requests, BallSize, BallMargin
<1>2. /\ LeftX(area) \in Int /\ RightX(area) \in Int /\ LeftX(area) <= RightX(area)
      /\ TopY(area) \in Int /\ BottomY(area) \in Int /\ TopY(area) <= BottomY(area)
  BY <1>1 DEF LeftX, RightX, TopY, BottomY, BallSize, BallMargin
<1>3. x \in Int /\ LeftX(area) <= x /\ x <= RightX(area)
  BY <1>1, <1>2, ClampStays
<1>4. y \in Int /\ TopY(area) <= y /\ y <= BottomY(area)
  BY <1>1, <1>2, ClampStays
<1> DEFINE bounds == PlaceOn(display, requested, edgeSnap).bounds
<1>5. /\ bounds.y = y /\ bounds.width = BallSize /\ bounds.height = BallSize
      /\ IF edgeSnap THEN bounds.x \in {LeftX(area), RightX(area)} ELSE bounds.x = x
  BY DEF PlaceOn, BoundsAt
<1> HIDE DEF bounds, x, y
<1>6. Fits(bounds, area)
  BY <1>2, <1>3, <1>4, <1>5 DEF Fits
<1> QED BY <1>5, <1>6 DEF bounds

(* How far down a display the ball is, as a part of how far it can go.     *)
LEMMA RatioIsValid ==
  ASSUME NEW travel \in Nat, NEW top \in Int, NEW y \in Int,
         travel # 0 => (top <= y /\ y <= top + travel)
  PROVE  LET ratio == IF travel = 0 THEN [n |-> 0, d |-> 1] ELSE [n |-> y - top, d |-> travel]
         IN  ratio \in Ratios /\ ratio.n <= ratio.d
<1>1. CASE travel = 0
  BY <1>1 DEF Ratios
<1>2. CASE travel # 0
  <2>1. y - top \in Nat /\ y - top <= travel /\ travel \in Nat \ {0}
    BY <1>2
  <2> QED BY <1>2, <2>1 DEF Ratios
<1> QED BY <1>1, <1>2

(* The anchor of a place the ball is dragged to is one the settings accept *)
(* and take back, so that neither setBallAnchor nor the next start refuses *)
(* it, whatever the size of the display.                                   *)
THEOREM PlacementCanBeStored ==
  ASSUME NEW display, display.workArea \in Areas, display.id # NoDisplay,
         NEW requested \in Requests, NEW edgeSnap \in BOOLEAN
  PROVE  IsBallAnchor(PlaceOn(display, requested, edgeSnap).anchor)
<1> DEFINE area == display.workArea
<1> DEFINE travel == AvailableTravel(area.height)
<1> DEFINE top == TopY(area)
<1> DEFINE y == Clamp(requested.y, top, BottomY(area))
<1> DEFINE ratio == IF travel = 0 THEN [n |-> 0, d |-> 1] ELSE [n |-> y - top, d |-> travel]
<1> DEFINE anchor == PlaceOn(display, requested, edgeSnap).anchor
<1>1. {area.y, area.height, requested.y} \subseteq Int
  BY DEF Areas, Requests
<1>2. top = area.y + 12 /\ BottomY(area) = area.y + area.height - 68
  BY <1>1 DEF TopY, BottomY, BallSize, BallMargin
<1>3. travel = IF area.height - 80 < 0 THEN 0 ELSE area.height - 80
  BY <1>1 DEF AvailableTravel, AtLeast, BallSize, BallMargin
<1>4. /\ anchor.verticalRatio = ratio
      /\ anchor.displayId = display.id
      /\ anchor.edge \in Edges
  BY DEF PlaceOn, Edges
<1>5. y = Clamp(requested.y, top, BottomY(area))
  OBVIOUS
<1> HIDE DEF area, travel, top, y, anchor
<1>6. top \in Int /\ BottomY(area) \in Int /\ travel \in Nat
  BY <1>1, <1>2, <1>3
<1>7. y \in Int
  BY <1>1, <1>5, <1>6 DEF Clamp, AtLeast, AtMost
<1>8. ASSUME travel # 0 PROVE top <= y /\ y <= top + travel
  <2>1. top <= BottomY(area) /\ BottomY(area) = top + travel
    BY <1>1, <1>2, <1>3, <1>8
  <2>2. requested.y \in Int
    BY DEF Requests
  <2>3. top <= Clamp(requested.y, top, BottomY(area))
        /\ Clamp(requested.y, top, BottomY(area)) <= BottomY(area)
    BY <1>6, <2>1, <2>2, ClampStays
  <2> QED BY <1>5, <2>1, <2>3
<1>9. ratio \in Ratios /\ ratio.n <= ratio.d
  BY <1>6, <1>7, <1>8, RatioIsValid
<1> HIDE DEF ratio
<1> QED BY <1>4, <1>9 DEF IsBallAnchor, anchor

(* Bounds that fit, at the edge if the ball is to snap, are where they     *)
(* would be put again.                                                     *)
LEMMA WhatFitsStays ==
  ASSUME NEW display, Roomy(display.workArea), NEW bounds \in Areas, NEW edgeSnap \in BOOLEAN,
         Fits(bounds, display.workArea),
         edgeSnap => bounds.x \in {LeftX(display.workArea), RightX(display.workArea)}
  PROVE  PlaceOn(display, bounds, edgeSnap).bounds = bounds
<1> DEFINE area == display.workArea
<1>1. /\ {area.x, area.y, area.width, area.height} \subseteq Int
      /\ area.width >= 80 /\ area.height >= 80
  BY DEF Roomy, Areas, BallSize, BallMargin
<1>2. /\ LeftX(area) \in Int /\ RightX(area) \in Int /\ LeftX(area) <= RightX(area)
      /\ TopY(area) \in Int /\ BottomY(area) \in Int /\ TopY(area) <= BottomY(area)
  BY <1>1 DEF LeftX, RightX, TopY, BottomY, BallSize, BallMargin
<1>3. bounds = BoundsAt(bounds.x, bounds.y) /\ bounds.x \in Int /\ bounds.y \in Int
  BY DEF Fits, BoundsAt, Areas
<1>4. /\ LeftX(area) <= bounds.x /\ bounds.x <= RightX(area)
      /\ TopY(area) <= bounds.y /\ bounds.y <= BottomY(area)
  BY DEF Fits
<1>5. /\ Clamp(bounds.x, LeftX(area), RightX(area)) = bounds.x
      /\ Clamp(bounds.y, TopY(area), BottomY(area)) = bounds.y
  BY <1>2, <1>3, <1>4, ClampStays
<1>6. PlaceOn(display, bounds, edgeSnap).bounds = BoundsAt(bounds.x, bounds.y)
  <2>1. CASE ~edgeSnap
    BY <1>5, <2>1 DEF PlaceOn
  <2>2. CASE edgeSnap /\ bounds.x = LeftX(area)
    BY <1>2, <1>3, <1>5, <2>2 DEF PlaceOn
  <2>3. CASE edgeSnap /\ bounds.x = RightX(area)
    BY <1>2, <1>3, <1>5, <2>3 DEF PlaceOn
  <2> QED BY <2>1, <2>2, <2>3
<1> QED BY <1>3, <1>6

(* Putting the ball where it was put moves it no further: the `moved'      *)
(* event that setBounds may cause ends there.                              *)
THEOREM PlacementIsStable ==
  ASSUME NEW display, Roomy(display.workArea), NEW requested \in Requests,
         NEW edgeSnap \in BOOLEAN
  PROVE  LET placed == PlaceOn(display, requested, edgeSnap).bounds
         IN  PlaceOn(display, placed, edgeSnap).bounds = placed
<1> DEFINE area == display.workArea
<1> DEFINE placed == PlaceOn(display, requested, edgeSnap).bounds
<1>1. /\ {area.x, area.y, area.width, area.height, requested.x, requested.y} \subseteq Int
      /\ area.width >= 80 /\ area.height >= 80
  BY DEF Roomy, Areas, Requests, BallSize, BallMargin
<1>2. /\ LeftX(area) \in Int /\ RightX(area) \in Int /\ LeftX(area) <= RightX(area)
      /\ TopY(area) \in Int /\ BottomY(area) \in Int /\ TopY(area) <= BottomY(area)
  BY <1>1 DEF LeftX, RightX, TopY, BottomY, BallSize, BallMargin
<1>3. /\ Fits(placed, area)
      /\ edgeSnap => placed.x \in {LeftX(area), RightX(area)}
  BY PlacementFits
<1>4. placed \in Areas
  <2> DEFINE x == Clamp(requested.x, LeftX(area), RightX(area))
  <2> DEFINE y == Clamp(requested.y, TopY(area), BottomY(area))
  <2>1. x \in Int /\ y \in Int
    BY <1>1, <1>2, ClampStays
  <2> QED BY <1>2, <2>1 DEF PlaceOn, BoundsAt, Areas, BallSize
<1> HIDE DEF placed
<1>5. PlaceOn(display, placed, edgeSnap).bounds = placed
  BY <1>3, <1>4, WhatFitsStays
<1> QED BY <1>5 DEF placed

(* A ball that snaps comes back to the very place it was left, on the same *)
(* display, after a restart (setBallAnchor, resolveBallBounds).            *)
THEOREM SnappedBallComesBack ==
  ASSUME NEW display, Roomy(display.workArea), NEW requested \in Requests
  PROVE  LET placement == PlaceOn(display, requested, TRUE)
         IN  ResolveOn(display.workArea, placement.anchor) = placement.bounds
<1> DEFINE area == display.workArea
<1> DEFINE travel == AvailableTravel(area.height)
<1> DEFINE y == Clamp(requested.y, TopY(area), BottomY(area))
<1>1. /\ {area.x, area.y, area.width, area.height, requested.x, requested.y} \subseteq Int
      /\ area.width >= 80 /\ area.height >= 80
  BY DEF Roomy, Areas, Requests, BallSize, BallMargin
<1>2. /\ TopY(area) \in Int /\ BottomY(area) \in Int /\ BottomY(area) = TopY(area) + travel
      /\ travel \in Nat
  BY <1>1 DEF TopY, BottomY, AvailableTravel, AtLeast, BallSize, BallMargin
<1>3. y \in Int /\ TopY(area) <= y /\ y <= BottomY(area)
  <2>1. TopY(area) <= BottomY(area) /\ requested.y \in Int
    BY <1>1, <1>2
  <2> QED BY <1>2, <2>1, ClampStays
<1>4. CASE travel = 0
  <2>1. y = TopY(area)
    BY <1>2, <1>3, <1>4
  <2>2. Round(0, 1) = 0
    BY RoundWhole
  <2> QED BY <1>2, <1>4, <2>1, <2>2 DEF PlaceOn, ResolveOn
<1>5. CASE travel # 0
  <2>1. Round(travel * (y - TopY(area)), travel) = y - TopY(area)
    BY <1>2, <1>3, <1>5, RoundWhole
  <2>2. TopY(area) + (y - TopY(area)) = y
    BY <1>2, <1>3
  <2> HIDE DEF travel
  <2> QED BY <1>5, <2>1, <2>2 DEF PlaceOn, ResolveOn, travel
<1> QED BY <1>4, <1>5

-----------------------------------------------------------------------------
(* The card.                                                              *)

(* The lines of a selection.                                               *)
Rectangles == [x : Int, y : Int, width : Nat, height : Nat]

(* A work area that the card fits into, with its margins.                  *)
RoomyFor(size, area) ==
  /\ area \in Areas
  /\ area.width >= size.width + 2 * CardMargin
  /\ area.height >= size.height + 2 * CardMargin

(* The bounds lie within the area, a margin away from its edges.           *)
CardFits(bounds, area) ==
  /\ area.x + CardMargin <= bounds.x
  /\ bounds.x + bounds.width <= area.x + area.width - CardMargin
  /\ area.y + CardMargin <= bounds.y
  /\ bounds.y + bounds.height <= MaximumBottom(area)

(* There is room for the card below the selection, or above it.            *)
RoomBeside(anchor, area, size) ==
  \/ BelowIt(anchor) + size.height <= MaximumBottom(area)
  \/ AboveIt(anchor, size) >= area.y + CardMargin

(* The bounds lie below the rectangle, or above it, a gap apart.           *)
Clear(bounds, rectangle) ==
  \/ bounds.y >= rectangle.y + rectangle.height + CardGap
  \/ bounds.y + bounds.height + CardGap <= rectangle.y

-----------------------------------------------------------------------------
(* Half of what lies between two even numbers, rounded, lies between their *)
(* halves.                                                                 *)
LEMMA RoundHalf ==
  ASSUME NEW n \in Int, NEW low \in Int, NEW high \in Int, 2 * low <= n, n <= 2 * high
  PROVE  Round(n, 2) \in Int /\ low <= Round(n, 2) /\ Round(n, 2) <= high
BY DEF Round

(* A finite set of integers that is not empty has a least and a greatest   *)
(* element: a smallest set without both would keep them when one of its    *)
(* elements is removed.                                                    *)
LEMMA Extremes ==
  ASSUME NEW S \in SUBSET Int, IsFiniteSet(S), S # {}
  PROVE  /\ Min(S) \in S /\ \A y \in S : Min(S) <= y
         /\ Max(S) \in S /\ \A y \in S : y <= Max(S)
<1> DEFINE Bounded(U) == \E low \in U, high \in U : \A y \in U : low <= y /\ y <= high
<1> DEFINE Bad == {U \in SUBSET S : U # {} /\ ~Bounded(U)}
<1> DEFINE Numbers == {n \in Nat : \E U \in Bad : Cardinality(U) = n}
<1>1. \A U \in SUBSET S : IsFiniteSet(U) /\ Cardinality(U) \in Nat
  BY FS_Subset, FS_CardinalityType
<1>2. Bad = {}
  <2> SUFFICES ASSUME Bad # {} PROVE FALSE
    OBVIOUS
  <2>1. Numbers \subseteq Nat /\ Numbers # {}
    BY <1>1
  <2>2. PICK n \in Numbers : \A k \in Numbers : ~(<<k, n>> \in OpToRel(<, Nat))
    BY <2>1, WFMin, NatLessThanWellFounded
  <2>3. \A k \in Numbers : ~(k < n)
    BY <2>1, <2>2 DEF OpToRel
  <2>4. PICK U \in Bad : Cardinality(U) = n
    OBVIOUS
  <2>5. PICK x \in U : TRUE
    OBVIOUS
  <2> DEFINE V == U \ {x}
  <2>6. V \in SUBSET S /\ Cardinality(V) = n - 1 /\ Cardinality(V) \in Nat /\ n \in Nat
    BY <1>1, <2>4, <2>5, FS_RemoveElement
  <2>7. V \notin Bad
    <3> SUFFICES ASSUME V \in Bad PROVE FALSE
      OBVIOUS
    <3> HIDE DEF Bad, V
    <3>1. Cardinality(V) \in Numbers
      BY <2>6
    <3> HIDE DEF Numbers
    <3>2. ~(Cardinality(V) < n)
      BY <2>3, <3>1
    <3> QED BY <2>6, <3>2
  <2>8. CASE V = {}
    <3>1. U = {x} /\ x \in Int
      BY <2>5, <2>8
    <3> QED BY <3>1, <2>4
  <2>9. CASE V # {}
    <3>1. Bounded(V)
      BY <2>6, <2>7, <2>9
    <3>2. PICK low \in V, high \in V : \A y \in V : low <= y /\ y <= high
      BY <3>1
    <3>3. low \in Int /\ high \in Int /\ x \in Int /\ U \subseteq Int
      BY <2>5
    <3>4. \A y \in U : /\ AtMost(low, x) <= y /\ y <= AtLeast(high, x)
      <4> TAKE y \in U
      <4>1. y = x \/ (low <= y /\ y <= high)
        BY <3>2
      <4>2. y \in Int
        BY <3>3
      <4> HIDE DEF V, Bad, Bounded
      <4>3. low \in Int /\ high \in Int /\ x \in Int
        BY <3>3
      <4>4. AtMost(low, x) <= y
        BY <4>1, <4>2, <4>3 DEF AtMost
      <4>5. y <= AtLeast(high, x)
        BY <4>1, <4>2, <4>3 DEF AtLeast
      <4> QED BY <4>4, <4>5
    <3>5. AtMost(low, x) \in U /\ AtLeast(high, x) \in U
      BY <2>5, <3>2 DEF AtMost, AtLeast
    <3>6. Bounded(U)
      BY <3>4, <3>5
    <3> QED BY <2>4, <3>6
  <2> QED BY <2>8, <2>9
<1>3. PICK low \in S, high \in S : \A y \in S : low <= y /\ y <= high
  BY <1>2
<1>4. /\ \E x \in S : \A y \in S : x =< y
      /\ \E x \in S : \A y \in S : x >= y
  BY <1>3
<1> QED BY <1>4 DEF Min, Max

(* The joined rectangle covers the rectangles of all selected lines.       *)
LEMMA UnionCovers ==
  ASSUME NEW rectangles \in SUBSET Rectangles, IsFiniteSet(rectangles),
         UnionRectangles(rectangles) # NoRectangle
  PROVE  LET union == UnionRectangles(rectangles)
         IN  /\ union.x \in Int /\ union.y \in Int
             /\ union.width \in Nat \ {0} /\ union.height \in Nat \ {0}
             /\ \A r \in rectangles :
                  /\ union.x <= r.x /\ r.x + r.width <= union.x + union.width
                  /\ union.y <= r.y /\ r.y + r.height <= union.y + union.height
<1> DEFINE lefts == {r.x : r \in rectangles}
<1> DEFINE tops == {r.y : r \in rectangles}
<1> DEFINE rights == {r.x + r.width : r \in rectangles}
<1> DEFINE bottoms == {r.y + r.height : r \in rectangles}
<1>0. rectangles # {} /\ \A r \in rectangles : {r.x, r.y, r.width, r.height} \subseteq Int
  BY DEF UnionRectangles, Rectangles
<1>1. /\ lefts \in SUBSET Int /\ tops \in SUBSET Int
      /\ rights \in SUBSET Int /\ bottoms \in SUBSET Int
      /\ lefts # {} /\ tops # {} /\ rights # {} /\ bottoms # {}
  BY <1>0
<1>2. IsFiniteSet(lefts) /\ IsFiniteSet(tops)
  <2>1. [r \in rectangles |-> r.x] \in Surjection(rectangles, lefts)
    BY DEF Surjection
  <2>2. [r \in rectangles |-> r.y] \in Surjection(rectangles, tops)
    BY DEF Surjection
  <2> QED BY <2>1, <2>2, FS_Surjection
<1>3. IsFiniteSet(rights) /\ IsFiniteSet(bottoms)
  <2>1. [r \in rectangles |-> r.x + r.width] \in Surjection(rectangles, rights)
    BY DEF Surjection
  <2>2. [r \in rectangles |-> r.y + r.height] \in Surjection(rectangles, bottoms)
    BY DEF Surjection
  <2> QED BY <2>1, <2>2, FS_Surjection
<1>4. /\ Min(lefts) \in Int /\ \A y \in lefts : Min(lefts) <= y
      /\ Min(tops) \in Int /\ \A y \in tops : Min(tops) <= y
      /\ Max(rights) \in Int /\ \A y \in rights : y <= Max(rights)
      /\ Max(bottoms) \in Int /\ \A y \in bottoms : y <= Max(bottoms)
  BY <1>1, <1>2, <1>3, Extremes
<1>5. /\ UnionRectangles(rectangles) =
           [x |-> Min(lefts), y |-> Min(tops),
            width |-> Max(rights) - Min(lefts), height |-> Max(bottoms) - Min(tops)]
      /\ ~(Max(rights) <= Min(lefts)) /\ ~(Max(bottoms) <= Min(tops))
  BY DEF UnionRectangles
<1> HIDE DEF lefts, tops, rights, bottoms
<1>6. /\ Max(rights) - Min(lefts) \in Nat \ {0} /\ Max(bottoms) - Min(tops) \in Nat \ {0}
      /\ Min(lefts) + (Max(rights) - Min(lefts)) = Max(rights)
      /\ Min(tops) + (Max(bottoms) - Min(tops)) = Max(bottoms)
  BY <1>4, <1>5
<1>7. \A r \in rectangles : /\ Min(lefts) <= r.x /\ r.x + r.width <= Max(rights)
                            /\ Min(tops) <= r.y /\ r.y + r.height <= Max(bottoms)
  BY <1>4 DEF lefts, tops, rights, bottoms
<1> QED BY <1>4, <1>5, <1>6, <1>7

-----------------------------------------------------------------------------
(* Wherever the selection is, on the display or beyond its edges, the card *)
(* is within the work area, margins included, as soon as it fits at all.   *)
THEOREM CardIsOnDisplay ==
  ASSUME NEW anchor \in Rectangles, NEW size \in Sizes, NEW area, RoomyFor(size, area)
  PROVE  CardFits(ResolveSelectionCardBounds(anchor, area, size), area)
<1> DEFINE bounds == ResolveSelectionCardBounds(anchor, area, size)
<1>1. /\ {anchor.x, anchor.y, anchor.width, anchor.height} \subseteq Int
      /\ {area.x, area.y, area.width, area.height, size.width, size.height} \subseteq Int
      /\ area.width >= size.width + 16 /\ area.height >= size.height + 16
  BY DEF RoomyFor, Areas, Rectangles, Sizes, CardMargin
<1>2. area.x + 8 <= CardX(anchor, area, size) /\ CardX(anchor, area, size) \in Int
      /\ CardX(anchor, area, size) <= area.x + area.width - size.width - 8
  <2> DEFINE low == area.x + 8
  <2> DEFINE high == area.x + area.width - size.width - 8
  <2> DEFINE value == 2 * anchor.x + anchor.width - size.width
  <2>1. low \in Int /\ high \in Int /\ value \in Int /\ 2 * low <= 2 * high
        /\ 2 * low \in Int /\ 2 * high \in Int
    BY <1>1
  <2>2. CardX(anchor, area, size) = Round(Clamp(value, 2 * low, 2 * high), 2)
    BY DEF CardX, CardMargin
  <2> HIDE DEF low, high, value
  <2>3. /\ Clamp(value, 2 * low, 2 * high) \in Int
        /\ 2 * low <= Clamp(value, 2 * low, 2 * high)
        /\ Clamp(value, 2 * low, 2 * high) <= 2 * high
    BY <2>1, ClampStays
  <2>4. low <= CardX(anchor, area, size) /\ CardX(anchor, area, size) \in Int
        /\ CardX(anchor, area, size) <= high
    BY <2>1, <2>2, <2>3, RoundHalf
  <2> QED BY <2>4 DEF low, high
<1>3. area.y + 8 <= CardY(anchor, area, size) /\ CardY(anchor, area, size) \in Int
      /\ CardY(anchor, area, size) <= area.y + area.height - 8 - size.height
  <2> DEFINE value == IF BelowIt(anchor) + size.height <= MaximumBottom(area)
                      THEN BelowIt(anchor) ELSE AboveIt(anchor, size)
  <2> DEFINE low == area.y + CardMargin
  <2> DEFINE high == MaximumBottom(area) - size.height
  <2>1. value \in Int /\ low \in Int /\ high \in Int /\ low <= high
    BY <1>1 DEF BelowIt, AboveIt, CardGap, CardMargin, MaximumBottom
  <2>2. CardY(anchor, area, size) = Clamp(value, low, high)
    BY DEF CardY
  <2> HIDE DEF low, high, value
  <2>3. low <= CardY(anchor, area, size) /\ CardY(anchor, area, size) \in Int
        /\ CardY(anchor, area, size) <= high
    BY <2>1, <2>2, ClampStays
  <2> QED BY <1>1, <2>3 DEF low, high, CardMargin, MaximumBottom
<1>4. /\ bounds.x = CardX(anchor, area, size) /\ bounds.y = CardY(anchor, area, size)
      /\ bounds.width = size.width /\ bounds.height = size.height
  BY DEF ResolveSelectionCardBounds
<1> HIDE DEF bounds
<1>5. CardFits(bounds, area)
  BY <1>1, <1>2, <1>3, <1>4 DEF CardFits, CardMargin, MaximumBottom
<1> QED BY <1>5 DEF bounds

(* The card hides no line of the selection whenever there is room for it   *)
(* below the selected lines or above them, even if these reach beyond the  *)
(* display.                                                                *)
THEOREM CardLeavesSelection ==
  ASSUME NEW rectangles \in SUBSET Rectangles, IsFiniteSet(rectangles),
         UnionRectangles(rectangles) # NoRectangle,
         NEW size \in Sizes, NEW area, RoomyFor(size, area),
         RoomBeside(UnionRectangles(rectangles), area, size)
  PROVE  \A r \in rectangles :
           Clear(ResolveSelectionCardBounds(UnionRectangles(rectangles), area, size), r)
<1> DEFINE anchor == UnionRectangles(rectangles)
<1> DEFINE bounds == ResolveSelectionCardBounds(anchor, area, size)
<1> DEFINE low == area.y + CardMargin
<1> DEFINE high == MaximumBottom(area) - size.height
<1> DEFINE value == IF BelowIt(anchor) + size.height <= MaximumBottom(area)
                    THEN BelowIt(anchor) ELSE AboveIt(anchor, size)
<1>1. /\ anchor.y \in Int /\ anchor.height \in Int
      /\ \A r \in rectangles : /\ anchor.y <= r.y
                               /\ r.y + r.height <= anchor.y + anchor.height
  BY UnionCovers
<1>2. {area.y, area.height, size.height} \subseteq Int /\ area.height >= size.height + 16
  BY DEF RoomyFor, Areas, Sizes, CardMargin
<1>3. bounds.y = Clamp(value, low, high) /\ bounds.height = size.height
  BY DEF ResolveSelectionCardBounds, CardY
<1> HIDE DEF anchor, bounds
<1>4. value \in Int /\ low \in Int /\ high \in Int /\ low <= high
  BY <1>1, <1>2 DEF BelowIt, AboveIt, CardGap, CardMargin, MaximumBottom
<1>5. Clear(bounds, anchor)
  <2>1. CASE BelowIt(anchor) + size.height <= MaximumBottom(area)
    <3>1. value = anchor.y + anchor.height + 10 /\ value <= high
      BY <1>1, <1>2, <2>1 DEF BelowIt, MaximumBottom, CardGap, CardMargin
    <3> HIDE DEF value, low, high
    <3>2. value <= Clamp(value, low, high) \/ Clamp(value, low, high) = high
      BY <1>4, ClampLimits
    <3>3. value <= bounds.y
      BY <1>3, <3>1, <3>2
    <3> QED BY <3>1, <3>3 DEF Clear, CardGap
  <2>2. CASE ~(BelowIt(anchor) + size.height <= MaximumBottom(area))
    <3>1. value = anchor.y - 10 - size.height /\ value >= low
      BY <2>2 DEF RoomBeside, AboveIt, CardGap, CardMargin, anchor
    <3> HIDE DEF value, low, high
    <3>2. bounds.y \in Int
      BY <1>3, <1>4, ClampStays
    <3>3. bounds.y <= value
      BY <1>3, <1>4, <3>1, ClampLimits
    <3> QED BY <1>1, <1>2, <1>3, <3>1, <3>2, <3>3 DEF Clear, CardGap
  <2> QED BY <2>1, <2>2
<1>6. bounds.y \in Int /\ bounds.height \in Int
  <2> HIDE DEF value, low, high
  <2> QED BY <1>2, <1>3, <1>4, ClampStays
<1>7. \A r \in rectangles : r.y \in Int /\ r.height \in Int
  BY DEF Rectangles
<1>8. \A r \in rectangles : Clear(bounds, r)
  BY <1>1, <1>5, <1>6, <1>7 DEF Clear, CardGap
<1> QED BY <1>8 DEF bounds, anchor

-----------------------------------------------------------------------------
(* Multiplying by a natural number keeps the order.                        *)
LEMMA ProductOrder ==
  ASSUME NEW a \in Int, NEW b \in Int, NEW c \in Nat, a <= b
  PROVE  c * a <= c * b
OBVIOUS

(* What the quotient of a division is.                                     *)
LEMMA Quotient ==
  ASSUME NEW m \in Int, NEW d \in Nat \ {0}
  PROVE  /\ m \div d \in Int
         /\ d * (m \div d) <= m /\ m < d * (m \div d) + d
OBVIOUS

(* A part of a length, rounded, is no more than that length.               *)
LEMMA RoundStays ==
  ASSUME NEW m \in Nat, NEW d \in Nat \ {0}, NEW t \in Nat, m <= d * t
  PROVE  Round(m, d) \in Int /\ 0 <= Round(m, d) /\ Round(m, d) <= t
<1> DEFINE q == (2 * m + d) \div (2 * d)
<1>1. /\ q \in Int
      /\ (2 * d) * q <= 2 * m + d /\ 2 * m + d < (2 * d) * q + 2 * d
  <2>1. 2 * m + d \in Int /\ 2 * d \in Nat \ {0}
    OBVIOUS
  <2> QED BY <2>1, Quotient
<1>2. 0 <= q
  <2> SUFFICES ASSUME q <= -1 PROVE FALSE
    BY <1>1
  <2> HIDE DEF q
  <2>1. (2 * d) * q <= (2 * d) * (-1)
    BY <1>1, ProductOrder
  <2> QED BY <1>1, <2>1
<1>3. q <= t
  <2> SUFFICES ASSUME t + 1 <= q PROVE FALSE
    BY <1>1
  <2> HIDE DEF q
  <2>1. (2 * d) * (t + 1) <= (2 * d) * q
    BY <1>1, ProductOrder
  <2>2. (2 * d) * (t + 1) = 2 * (d * t) + 2 * d
    OBVIOUS
  <2>3. d * t \in Int /\ (2 * d) * q \in Int
    BY <1>1
  <2> QED BY <1>1, <2>1, <2>2, <2>3
<1> QED BY <1>1, <1>2, <1>3 DEF Round

-----------------------------------------------------------------------------
(* The display of an anchor is one of those there are.                     *)
LEMMA FindDisplayIsThere ==
  ASSUME NEW layout \in Layouts, NEW anchor
  PROVE  FindDisplay(anchor, layout) \in Range(layout)
<1>1. layout \in Seq(Screens) /\ layout # <<>>
  BY ConstantsAssumption
<1>2. 1 \in DOMAIN layout
  BY <1>1
<1> DEFINE Named == {i \in DOMAIN layout : layout[i].id = anchor.displayId}
<1> DEFINE place == IF Named = {} THEN 1 ELSE CHOOSE i \in Named : TRUE
<1>3. place \in DOMAIN layout
  <2>1. Named # {} => (CHOOSE i \in Named : TRUE) \in Named
    OBVIOUS
  <2> QED BY <1>2, <2>1
<1>4. FindDisplay(anchor, layout) = layout[place]
  BY DEF FindDisplay
<1> HIDE DEF place
<1> QED BY <1>3, <1>4 DEF Range

(* The displays of a layout have their types.                              *)
LEMMA DisplaysAreTyped ==
  ASSUME NEW layout \in Layouts, NEW display, display \in Range(layout)
  PROVE  display \in Screens
<1>1. layout \in Seq(Screens)
  BY ConstantsAssumption
<1>2. PICK i \in DOMAIN layout : display = layout[i]
  BY DEF Range
<1>3. layout[i] \in Screens
  BY <1>1
<1> QED BY <1>2, <1>3

(* How much two areas overlap is a number,                                 *)
LEMMA IntersectionIsInt ==
  ASSUME NEW a \in Areas, NEW b \in Areas
  PROVE  IntersectionArea(a, b) \in Int
BY DEF IntersectionArea, Areas, AtLeast, AtMost

(* and so is how far apart they are.                                       *)
LEMMA DistanceIsInt ==
  ASSUME NEW a \in Areas, NEW b \in Areas
  PROVE  SquaredDistanceToRectangle(a, b) \in Int
BY DEF SquaredDistanceToRectangle, Areas, Clamp, AtLeast, AtMost

(* Of finitely many values one is the greatest, and the first of those     *)
(* that have it comes before all others.                                   *)
LEMMA FirstOfTheGreatest ==
  ASSUME NEW n \in Nat \ {0}, NEW Value \in [1..n -> Int]
  PROVE  \E i \in 1..n : \A j \in 1..n :
           ~(Value[j] > Value[i]) /\ (j < i => Value[i] > Value[j])
<1> DEFINE values == {Value[i] : i \in 1..n}
<1>1. values \in SUBSET Int /\ IsFiniteSet(values) /\ values # {}
  <2>1. IsFiniteSet(1..n)
    BY FS_Interval
  <2>2. Value \in Surjection(1..n, values)
    BY DEF Surjection
  <2>3. IsFiniteSet(values)
    BY <2>1, <2>2, FS_Surjection
  <2>4. Value[1] \in values
    OBVIOUS
  <2> QED BY <2>3, <2>4
<1> DEFINE most == Max(values)
<1>2. most \in values /\ \A value \in values : value <= most
  BY <1>1, Extremes
<1> HIDE DEF most
<1> DEFINE best == {i \in 1..n : Value[i] = most}
<1>3. best \in SUBSET Int /\ IsFiniteSet(best) /\ best # {}
  <2>1. IsFiniteSet(1..n)
    BY FS_Interval
  <2> QED BY <1>2, <2>1, FS_Subset
<1> DEFINE first == Min(best)
<1>4. first \in best /\ \A i \in best : first <= i
  BY <1>3, Extremes
<1> HIDE DEF first
<1>5. ASSUME NEW j \in 1..n
      PROVE  ~(Value[j] > Value[first]) /\ (j < first => Value[first] > Value[j])
  <2>1. Value[j] <= most /\ Value[first] = most /\ Value[j] \in Int /\ most \in Int
    BY <1>2, <1>4
  <2>2. j < first => Value[j] # most
    BY <1>4
  <2> QED BY <2>1, <2>2
<1> QED BY <1>4, <1>5

(* So the display that the bounds are on, or are nearest to, is there.     *)
LEMMA NearestDisplayIsThere ==
  ASSUME NEW layout \in Layouts, NEW bounds \in Areas
  PROVE  FindNearestDisplay(bounds, layout) \in Range(layout)
<1> DEFINE Area(i) == IntersectionArea(bounds, layout[i].workArea)
<1> DEFINE Distance(i) == SquaredDistanceToRectangle(bounds, layout[i].workArea)
<1> DEFINE Better(i, j) == IF \E k \in DOMAIN layout : Area(k) > 0
                           THEN Area(i) > Area(j) ELSE Distance(i) < Distance(j)
<1> DEFINE First(i) == \A j \in DOMAIN layout : ~Better(j, i) /\ (j < i => Better(i, j))
<1>1. layout \in Seq(Screens) /\ layout # <<>>
  BY ConstantsAssumption
<1>2. DOMAIN layout = 1..Len(layout) /\ Len(layout) \in Nat \ {0}
  BY <1>1
<1>3. \A i \in DOMAIN layout : Area(i) \in Int /\ Distance(i) \in Int
  <2>1. \A i \in DOMAIN layout : layout[i].workArea \in Areas
    <3>1. \A i \in DOMAIN layout : layout[i] \in Screens
      BY <1>1
    <3> QED BY <3>1 DEF Screens
  <2> QED BY <2>1, IntersectionIsInt, DistanceIsInt
<1> HIDE DEF Area, Distance
<1>4. \E i \in DOMAIN layout : First(i)
  <2>1. CASE \E k \in DOMAIN layout : Area(k) > 0
    <3> DEFINE Value == [i \in 1..Len(layout) |-> Area(i)]
    <3>1. Value \in [1..Len(layout) -> Int]
      BY <1>2, <1>3
    <3>2. PICK i \in 1..Len(layout) : \A j \in 1..Len(layout) :
            ~(Value[j] > Value[i]) /\ (j < i => Value[i] > Value[j])
      BY <1>2, <3>1, FirstOfTheGreatest
    <3> QED BY <1>2, <2>1, <3>2
  <2>2. CASE ~(\E k \in DOMAIN layout : Area(k) > 0)
    <3> DEFINE Value == [i \in 1..Len(layout) |-> 0 - Distance(i)]
    <3>1. Value \in [1..Len(layout) -> Int]
      BY <1>2, <1>3
    <3>2. PICK i \in 1..Len(layout) : \A j \in 1..Len(layout) :
            ~(Value[j] > Value[i]) /\ (j < i => Value[i] > Value[j])
      BY <1>2, <3>1, FirstOfTheGreatest
    <3>3. \A j \in 1..Len(layout) :
            ~(Distance(j) < Distance(i)) /\ (j < i => Distance(i) < Distance(j))
      BY <1>2, <1>3, <3>2
    <3> QED BY <1>2, <2>2, <3>2, <3>3
  <2> QED BY <2>1, <2>2
<1>5. FindNearestDisplay(bounds, layout) = layout[CHOOSE i \in DOMAIN layout : First(i)]
  BY DEF FindNearestDisplay, Area, Distance
<1> DEFINE place == CHOOSE i \in DOMAIN layout : First(i)
<1>6. place \in DOMAIN layout
  BY <1>4
<1> HIDE DEF First
<1> QED BY <1>5, <1>6 DEF Range

-----------------------------------------------------------------------------
(* Where a ball is put is a place there is, and so is its anchor.          *)
LEMMA PlacementIsTyped ==
  ASSUME NEW display \in Screens, NEW requested \in Areas, NEW edgeSnap \in BOOLEAN
  PROVE  LET placement == PlaceOn(display, requested, edgeSnap)
         IN  placement.anchor \in Anchors /\ placement.bounds \in Areas
<1> DEFINE area == display.workArea
<1> DEFINE placement == PlaceOn(display, requested, edgeSnap)
<1>1. area \in Areas /\ display.id \in DisplayIds /\ display.id # NoDisplay
  BY DisplayAssumption DEF Screens
<1>2. requested \in Requests
  BY DEF Areas, Requests
<1>3. IsBallAnchor(placement.anchor)
  BY <1>1, <1>2, PlacementCanBeStored
<1>4. placement.anchor = [displayId |-> display.id, edge |-> placement.anchor.edge,
                          verticalRatio |-> placement.anchor.verticalRatio]
  BY DEF PlaceOn
<1>5. placement.anchor \in Anchors
  <2> HIDE DEF placement
  <2> QED BY <1>1, <1>3, <1>4 DEF IsBallAnchor, Anchors
<1>6. placement.bounds \in Areas
  <2> DEFINE x == Clamp(requested.x, LeftX(area), RightX(area))
  <2> DEFINE y == Clamp(requested.y, TopY(area), BottomY(area))
  <2>1. {area.x, area.y, area.width, area.height, requested.x, requested.y} \subseteq Int
    BY <1>1 DEF Areas
  <2>2. {LeftX(area), RightX(area), TopY(area), BottomY(area)} \subseteq Int
    BY <2>1 DEF LeftX, RightX, TopY, BottomY, BallSize, BallMargin
  <2>3. x \in Int /\ y \in Int
    BY <2>1, <2>2 DEF Clamp, AtLeast, AtMost
  <2>4. PICK where \in {x, LeftX(area), RightX(area)} : placement.bounds = BoundsAt(where, y)
    BY DEF PlaceOn
  <2> HIDE DEF placement, x, y
  <2> QED BY <2>2, <2>3, <2>4 DEF BoundsAt, Areas, BallSize
<1> QED BY <1>5, <1>6

(* The default anchor is one the settings accept.                          *)
LEMMA DefaultAnchorIsValid ==
  ASSUME NEW display \in Screens
  PROVE  LET anchor == CreateDefaultBallAnchor(display)
         IN  anchor \in Anchors /\ IsBallAnchor(anchor) /\ anchor # NoAnchor
<1>1. display.id \in DisplayIds /\ display.id # NoDisplay
  BY DisplayAssumption DEF Screens
<1> QED BY <1>1 DEF CreateDefaultBallAnchor, Anchors, IsBallAnchor, Edges, Ratios, NoAnchor

(* A stored anchor is resolved to bounds, on a display of any size.        *)
LEMMA RestorationIsTyped ==
  ASSUME NEW area \in Areas, NEW anchor \in Anchors
  PROVE  ResolveOn(area, anchor) \in Areas
<1> DEFINE ratio == anchor.verticalRatio
<1> DEFINE travel == AvailableTravel(area.height)
<1>1. {area.x, area.y, area.width, area.height} \subseteq Int
  BY DEF Areas
<1>2. {LeftX(area), RightX(area), TopY(area), travel} \subseteq Int
  BY <1>1 DEF LeftX, RightX, TopY, AvailableTravel, AtLeast, BallSize, BallMargin
<1>3. ratio.n \in Nat /\ ratio.d \in Nat \ {0}
  BY DEF Anchors, Ratios
<1> HIDE DEF travel, ratio
<1>4. Round(travel * ratio.n, ratio.d) \in Int
  <2>1. travel * ratio.n \in Int
    BY <1>2, <1>3
  <2>2. 2 * (travel * ratio.n) + ratio.d \in Int /\ 2 * ratio.d \in Nat \ {0}
    BY <1>3, <2>1
  <2> QED BY <2>2, Quotient DEF Round
<1>5. ResolveOn(area, anchor) =
        BoundsAt(IF anchor.edge = "left" THEN LeftX(area) ELSE RightX(area),
                 TopY(area) + Round(travel * ratio.n, ratio.d))
  BY DEF ResolveOn, travel, ratio
<1> QED BY <1>2, <1>4, <1>5 DEF BoundsAt, Areas, BallSize

(* Those bounds fit, at the edge, as long as the ratio is a part of the    *)
(* travel.                                                                 *)
LEMMA RestorationFits ==
  ASSUME NEW area, Roomy(area), NEW anchor \in Anchors,
         anchor.verticalRatio.n <= anchor.verticalRatio.d
  PROVE  /\ Fits(ResolveOn(area, anchor), area)
         /\ ResolveOn(area, anchor).x \in {LeftX(area), RightX(area)}
<1> DEFINE ratio == anchor.verticalRatio
<1> DEFINE travel == AvailableTravel(area.height)
<1> DEFINE down == Round(travel * ratio.n, ratio.d)
<1>1. /\ {area.x, area.y, area.width, area.height} \subseteq Int
      /\ area.width >= 80 /\ area.height >= 80
  BY DEF Roomy, Areas, BallSize, BallMargin
<1>2. /\ {LeftX(area), RightX(area), TopY(area), BottomY(area)} \subseteq Int
      /\ LeftX(area) <= RightX(area) /\ BottomY(area) = TopY(area) + travel
      /\ travel \in Nat
  BY <1>1 DEF LeftX, RightX, TopY, BottomY, AvailableTravel, AtLeast, BallSize, BallMargin
<1>3. ratio.n \in Nat /\ ratio.d \in Nat \ {0} /\ ratio.n <= ratio.d
  BY DEF Anchors, Ratios
<1> HIDE DEF travel, ratio
<1>4. down \in Int /\ 0 <= down /\ down <= travel
  <2>1. travel * ratio.n \in Nat
    BY <1>2, <1>3
  <2>2. travel * ratio.n <= travel * ratio.d
    BY <1>2, <1>3, ProductOrder
  <2>3. travel * ratio.d = ratio.d * travel
    BY <1>2, <1>3
  <2> QED BY <1>2, <1>3, <2>1, <2>2, <2>3, RoundStays
<1> HIDE DEF down
<1>5. ResolveOn(area, anchor) =
        BoundsAt(IF anchor.edge = "left" THEN LeftX(area) ELSE RightX(area), TopY(area) + down)
  BY DEF ResolveOn, travel, ratio, down
<1> QED BY <1>2, <1>4, <1>5 DEF BoundsAt, Fits

-----------------------------------------------------------------------------
(* Two areas that have no point in common.                                 *)
Apart(a, b) ==
  \/ a.x + a.width <= b.x \/ b.x + b.width <= a.x
  \/ a.y + a.height <= b.y \/ b.y + b.height <= a.y

(* The length that two intervals have in common.                           *)
Overlap(low1, length1, low2, length2) ==
  AtLeast(AtMost(low1 + length1, low2 + length2) - AtLeast(low1, low2), 0)

(* How much of the length of the ball lies in an interval that holds it,   *)
(* and in one beside it.                                                   *)
LEMMA OverlapsOfBall ==
  ASSUME NEW low1 \in Int, NEW low2 \in Int, NEW length \in Nat
  PROVE  /\ Overlap(low1, BallSize, low2, length) \in Nat
         /\ low2 <= low1 /\ low1 + BallSize <= low2 + length
              => Overlap(low1, BallSize, low2, length) = BallSize
         /\ low1 + BallSize <= low2 \/ low2 + length <= low1
              => Overlap(low1, BallSize, low2, length) = 0
BY DEF Overlap, AtLeast, AtMost, BallSize

(* A ball that fits into an area overlaps it, and overlaps no area apart   *)
(* from that one.                                                          *)
LEMMA AreaOfBall ==
  ASSUME NEW bounds \in Areas, bounds.width = BallSize, bounds.height = BallSize,
         NEW area \in Areas, NEW other \in Areas, Fits(bounds, area), Apart(area, other)
  PROVE  IntersectionArea(bounds, area) > 0 /\ IntersectionArea(bounds, other) = 0
<1>1. /\ {bounds.x, bounds.y, area.x, area.y, other.x, other.y} \subseteq Int
      /\ {area.width, area.height, other.width, other.height} \subseteq Nat
  BY DEF Areas
<1>2. \A a \in Areas : IntersectionArea(bounds, a) =
        Overlap(bounds.x, BallSize, a.x, a.width) * Overlap(bounds.y, BallSize, a.y, a.height)
  BY DEF IntersectionArea, Overlap
<1>3. /\ area.x + 12 <= bounds.x /\ bounds.x <= area.x + area.width - 68
      /\ area.y + 12 <= bounds.y /\ bounds.y <= area.y + area.height - 68
  BY <1>1 DEF Fits, LeftX, RightX, TopY, BottomY, BallSize, BallMargin
<1>4. /\ Overlap(bounds.x, BallSize, area.x, area.width) = BallSize
      /\ Overlap(bounds.y, BallSize, area.y, area.height) = BallSize
  <2>1. /\ area.x <= bounds.x /\ bounds.x + BallSize <= area.x + area.width
        /\ area.y <= bounds.y /\ bounds.y + BallSize <= area.y + area.height
    BY <1>1, <1>3 DEF BallSize
  <2> QED BY <1>1, <2>1, OverlapsOfBall
<1>5. IntersectionArea(bounds, area) > 0
  <2>1. IntersectionArea(bounds, area) = BallSize * BallSize
    BY <1>2, <1>4
  <2> QED BY <2>1 DEF BallSize
<1> DEFINE across == Overlap(bounds.x, BallSize, other.x, other.width)
<1> DEFINE down == Overlap(bounds.y, BallSize, other.y, other.height)
<1>6. across \in Nat /\ down \in Nat
  BY <1>1, OverlapsOfBall
<1>7. across = 0 \/ down = 0
  <2>1. \/ bounds.x + BallSize <= other.x \/ other.x + other.width <= bounds.x
        \/ bounds.y + BallSize <= other.y \/ other.y + other.height <= bounds.y
    BY <1>1, <1>3 DEF Apart, BallSize
  <2> QED BY ZenonT(60), <1>1, <2>1, OverlapsOfBall
<1>8. IntersectionArea(bounds, other) = across * down
  BY <1>2
<1> HIDE DEF across, down
<1> QED BY <1>5, <1>6, <1>7, <1>8

(* So the display of a ball that fits on it is the one that                *)
(* findNearestDisplay returns, wherever it is in the list.                 *)
LEMMA BallIsNearestToItsDisplay ==
  ASSUME NEW layout \in Layouts, NEW bounds \in Areas, NEW k \in DOMAIN layout,
         Fits(bounds, layout[k].workArea),
         \A j \in DOMAIN layout : j # k => Apart(layout[k].workArea, layout[j].workArea)
  PROVE  FindNearestDisplay(bounds, layout) = layout[k]
<1> DEFINE Area(i) == IntersectionArea(bounds, layout[i].workArea)
<1> DEFINE Distance(i) == SquaredDistanceToRectangle(bounds, layout[i].workArea)
<1> DEFINE Better(i, j) == IF \E n \in DOMAIN layout : Area(n) > 0
                           THEN Area(i) > Area(j) ELSE Distance(i) < Distance(j)
<1> DEFINE First(i) == \A j \in DOMAIN layout : ~Better(j, i) /\ (j < i => Better(i, j))
<1>1. layout \in Seq(Screens)
  BY ConstantsAssumption
<1>2. \A i \in DOMAIN layout : layout[i].workArea \in Areas
  <2>1. \A i \in DOMAIN layout : layout[i] \in Screens
    BY <1>1
  <2> QED BY <2>1 DEF Screens
<1>3. \A j \in DOMAIN layout : j # k => Area(j) = 0 /\ Area(k) > 0
  <2>1. bounds.width = BallSize /\ bounds.height = BallSize
    BY DEF Fits
  <2> QED BY <1>2, <2>1, AreaOfBall
<1>4. \A i \in DOMAIN layout : Area(i) \in Int
  BY <1>2, IntersectionIsInt
<1> HIDE DEF Area, Distance
<1>5. CASE \A j \in DOMAIN layout : j = k
  <2>1. FindNearestDisplay(bounds, layout) \in Range(layout)
    BY NearestDisplayIsThere
  <2> QED BY <1>5, <2>1 DEF Range
<1>6. CASE \E j \in DOMAIN layout : j # k
  <2>1. Area(k) > 0
    BY <1>3, <1>6
  <2>2. First(k)
    <3> SUFFICES ASSUME NEW j \in DOMAIN layout
                 PROVE  ~Better(j, k) /\ (j < k => Better(k, j))
      OBVIOUS
    <3>1. k \in Int /\ j \in Int /\ Area(j) \in Int /\ Area(k) \in Int
      BY <1>1, <1>4
    <3>2. CASE j = k
      BY <2>1, <3>1, <3>2
    <3>3. CASE j # k
      BY <1>3, <2>1, <3>1, <3>3
    <3> QED BY <3>2, <3>3
  <2>3. FindNearestDisplay(bounds, layout) = layout[CHOOSE i \in DOMAIN layout : First(i)]
    BY DEF FindNearestDisplay, Area, Distance
  <2> DEFINE place == CHOOSE i \in DOMAIN layout : First(i)
  <2>4. place \in DOMAIN layout /\ First(place)
    BY <2>2
  <2> HIDE DEF place
  <2>5. place = k
    <3>1. ~Better(k, place)
      BY <2>4
    <3>2. ~(Area(k) > Area(place))
      BY <2>1, <3>1
    <3> QED BY <1>3, <2>4, <3>2
  <2> QED BY <2>3, <2>5 DEF place
<1> QED BY <1>5, <1>6

-----------------------------------------------------------------------------
(* The profiles and anchors that are not read from anywhere.               *)
LEMMA ProfilesAreTyped ==
  EmptyProfile \in Profiles /\ NoProfile \in Profiles /\ NoAnchor \in Anchors
<1>1. NoAnchor \in Anchors
  BY DEF NoAnchor, Anchors, Edges, Ratios
<1>2. [key \in Keys |-> "absent"] \in [Keys -> Values]
  BY DEF Values
<1>3. 0 \in -1..(KnownVersion + 1) /\ -1 \in -1..(KnownVersion + 1)
  BY DEF KnownVersion
<1> DEFINE settings == [key \in Keys |-> "absent"]
<1> HIDE DEF settings
<1>4. EmptyProfile = [settings |-> settings, anchor |-> NoAnchor, credential |-> FALSE,
                      version |-> 0]
  BY DEF EmptyProfile, settings
<1>5. settings \in [Keys -> Values]
  BY <1>2 DEF settings
<1>6. EmptyProfile \in Profiles
  BY <1>1, <1>3, <1>4, <1>5 DEF Profiles
<1>7. NoProfile \in Profiles
  BY <1>3, <1>6 DEF NoProfile, Profiles
<1> QED BY <1>1, <1>6, <1>7

(* The state of the shell that a profile is loaded into.                   *)
LEMMA LoadedIsTyped ==
  ASSUME NEW profile \in Profiles, NEW status \in Statuses
  PROVE  Initialized(LoadPhase4(profile), status) \in States
<1>1. \A key \in Keys : ReadValidated(profile, key) \in BOOLEAN
  <2> TAKE key \in Keys
  <2>1. Defaults[key] \in BOOLEAN
    BY DEF Defaults
  <2>2. CASE ReadSetting(profile, key) = "value"
    BY <2>2 DEF ReadValidated
  <2>3. CASE ReadSetting(profile, key) # "value"
    BY <2>1, <2>3 DEF ReadValidated
  <2> QED BY <2>2, <2>3
<1>2. {"edgeSnap", "selection", "enabled", "consent"} \subseteq Keys
  BY DEF Keys, Phase2Keys, Phase3Keys, Phase4Keys
<1>3. ReadAnchor(profile) \in Anchors
  BY ProfilesAreTyped DEF ReadAnchor, Profiles
<1>4. /\ ReadValidated(profile, "edgeSnap") \in BOOLEAN
      /\ ReadValidated(profile, "selection") \in BOOLEAN
      /\ ReadValidated(profile, "enabled") \in BOOLEAN
      /\ ReadValidated(profile, "consent") \in BOOLEAN
  BY <1>1, <1>2
<1> DEFINE enabled == ReadValidated(profile, "enabled")
<1> DEFINE consent == ReadValidated(profile, "consent")
<1> DEFINE allowed == enabled /\ status = "configured" /\ consent
<1>5. allowed \in BOOLEAN
  OBVIOUS
<1>6. Initialized(LoadPhase4(profile), status) =
        [edgeSnap |-> ReadValidated(profile, "edgeSnap"), anchor |-> ReadAnchor(profile),
         selection |-> ReadValidated(profile, "selection"), consent |-> consent,
         enabled |-> allowed, status |-> status]
  BY DEF Initialized, State, LoadPhase4, LoadPhase3
<1> HIDE DEF allowed, enabled, consent
<1>7. consent \in BOOLEAN
  BY <1>4 DEF consent
<1> QED BY <1>3, <1>4, <1>5, <1>6, <1>7 DEF States

(* A profile that settings are written to.                                 *)
LEMMA WrittenIsTyped ==
  ASSUME NEW profile \in Profiles, NEW values, \A key \in DOMAIN values : values[key] \in Values
  PROVE  Written(profile, values) \in Profiles
<1> DEFINE settings == [key \in Keys |-> IF key \in DOMAIN values THEN values[key]
                                          ELSE profile.settings[key]]
<1>1. settings \in [Keys -> Values]
  BY DEF Profiles
<1>2. Written(profile, values) = [profile EXCEPT !.settings = settings]
  BY DEF Written
<1> HIDE DEF settings
<1> QED BY <1>1, <1>2 DEF Profiles

(* The same for a single setting.                                          *)
LEMMA SetIsTyped ==
  ASSUME stored \in Profiles, NEW key, NEW value \in Values
  PROVE  Set(key, value) \in Profiles
BY WrittenIsTyped DEF Set

(* The type invariant holds initially.                                     *)
LEMMA Typed == Init => TypeOK
<1> SUFFICES ASSUME Init PROVE TypeOK
  OBVIOUS
<1>1. stored \in Profiles
  <2>1. CASE stored = NoProfile
    BY <2>1, ProfilesAreTyped
  <2>2. ASSUME NEW value \in {"on", "garbage"}, NEW version \in {KnownVersion, KnownVersion + 1},
               stored = [settings |-> [key \in Keys |-> IF key = "consent" THEN "on" ELSE value],
                    anchor |-> IF value = "on" THEN LeftAnchor
                               ELSE [LeftAnchor EXCEPT !.verticalRatio = [n |-> 3, d |-> 2]],
                    credential |-> TRUE, version |-> version]
        PROVE  stored \in Profiles
    <3>1. [key \in Keys |-> IF key = "consent" THEN "on" ELSE value] \in [Keys -> Values]
      BY DEF Values
    <3>2. LeftAnchor \in Anchors /\ [LeftAnchor EXCEPT !.verticalRatio = [n |-> 3, d |-> 2]] \in Anchors
      <4>1. [n |-> 3, d |-> 2] \in Ratios
        BY DEF Ratios
      <4> QED BY <4>1, ConstantsAssumption DEF Anchors
    <3> QED BY <2>2, <3>1, <3>2 DEF Profiles, KnownVersion
  <2> QED BY <2>1, <2>2 DEF Init
<1>2. helpers \in [1..MaxResets -> Helpers] /\ main \in Processes
      /\ router \in [pid : 0..MaxProcesses, reset : 0..MaxResets]
      /\ marker \in 0..MaxResets /\ pids \in 0..MaxProcesses /\ resets \in 0..MaxResets
  BY ConstantsAssumption DEF Init, NoHelper, Off, NoRouter, Helpers, Processes
<1>3. shown \in States
  BY ProfilesAreTyped, LoadedIsTyped DEF Init, DefaultState, Statuses
<1>4. displays \in Layouts /\ window \in Areas
  BY ConstantsAssumption DEF Init, NoWindow, BoundsAt, Areas, BallSize
<1>5. user \in [calls : Nat, moves : Nat]
  BY ConstantsAssumption DEF Init
<1> QED BY <1>1, <1>2, <1>3, <1>4, <1>5 DEF TypeOK, Init

(* Where the ball is put has its type, whatever the displays are.          *)
LEMMA DraggingIsTyped ==
  ASSUME NEW layout \in Layouts, NEW requested \in Areas, NEW edgeSnap \in BOOLEAN
  PROVE  LET placement == DeriveBallPlacement(requested, layout, edgeSnap)
         IN  placement.anchor \in Anchors /\ placement.bounds \in Areas
<1>1. FindNearestDisplay(requested, layout) \in Screens
  BY NearestDisplayIsThere, DisplaysAreTyped
<1> QED BY <1>1, PlacementIsTyped DEF DeriveBallPlacement

(* So has the place it is restored to.                                     *)
LEMMA RestoringIsTyped ==
  ASSUME NEW layout \in Layouts, NEW anchor \in Anchors
  PROVE  ResolveBallBounds(anchor, layout) \in Areas
<1> DEFINE display == FindDisplay(anchor, layout)
<1>1. display \in Screens
  BY FindDisplayIsThere, DisplaysAreTyped
<1>2. display.workArea \in Areas /\ CreateDefaultBallAnchor(display) \in Anchors
  BY <1>1, DefaultAnchorIsValid DEF Screens
<1> HIDE DEF display
<1>3. ResolveBallBounds(anchor, layout) =
        ResolveOn(display.workArea,
                  IF anchor = NoAnchor THEN CreateDefaultBallAnchor(display) ELSE anchor)
  BY DEF ResolveBallBounds, display
<1> QED BY <1>2, <1>3, RestorationIsTyped

(* The anchor of a start is one the settings accept.                       *)
LEMMA StartAnchorsAreValid ==
  ASSUME stored \in Profiles, displays \in Layouts, NEW anchor \in StartAnchors
  PROVE  anchor \in Anchors /\ IsBallAnchor(anchor) /\ anchor # NoAnchor
<1>1. CASE ReadAnchor(stored) # NoAnchor
  <2>1. anchor = ReadAnchor(stored)
    BY <1>1 DEF StartAnchors
  <2>2. ReadAnchor(stored) = stored.anchor /\ IsBallAnchor(stored.anchor)
    BY <1>1 DEF ReadAnchor
  <2> QED BY <1>1, <2>1, <2>2 DEF Profiles
<1>2. CASE ReadAnchor(stored) = NoAnchor
  <2>1. PICK display \in Range(displays) : anchor = CreateDefaultBallAnchor(display)
    BY <1>2 DEF StartAnchors
  <2>2. display \in Screens
    BY DisplaysAreTyped
  <2> QED BY <2>1, <2>2, DefaultAnchorIsValid
<1> QED BY <1>1, <1>2

(* What the user may do is counted.                                        *)
LEMMA UsesAreTyped ==
  ASSUME NEW kind \in {"calls", "moves"}, Uses(kind), user \in [calls : Nat, moves : Nat]
  PROVE  user' \in [calls : Nat, moves : Nat]
BY DEF Uses

(* A count below its bound can be increased.                               *)
LEMMA NumbersAreTyped ==
  ASSUME NEW n, NEW bound \in Nat, n \in 0..bound, n < bound
  PROVE  n + 1 \in 0..bound
OBVIOUS

-----------------------------------------------------------------------------
(* Every step keeps the types.  A start of the application and its end as  *)
(* a router:                                                               *)
LEMMA StartsAreTyped == TypeOK /\ (RouteApplicationStart \/ RouterEnds) => TypeOK'
<1> SUFFICES ASSUME TypeOK, RouteApplicationStart \/ RouterEnds PROVE TypeOK'
  OBVIOUS
<1>0. MaxResets \in Nat /\ MaxProcesses \in Nat
  BY ConstantsAssumption
<1>1. CASE RouteApplicationStart
  <2>1. pids' \in 0..MaxProcesses
    <3>1. pids \in 0..MaxProcesses /\ pids < MaxProcesses /\ pids' = pids + 1
      BY <1>1 DEF RouteApplicationStart, TypeOK
    <3> QED BY <1>0, <3>1, NumbersAreTyped
  <2>2. CASE marker # 0
    <3>1. resets \in 0..MaxResets /\ resets < MaxResets /\ resets' = resets + 1
      BY <1>1, <2>2 DEF RouteApplicationStart, TypeOK, NextReset
    <3>2. resets' \in 0..MaxResets
      BY <1>0, <3>1, NumbersAreTyped
    <3>3. /\ marker' = resets' /\ doomed' \in {"no", "yes", "cut"}
          /\ router' = [pid |-> pids', reset |-> resets']
          /\ UNCHANGED <<stored, helpers, main, shown, call, user, withdrawn, ball>>
      BY <1>1, <2>2 DEF RouteApplicationStart, NextReset, WriteLocalDataResetMarker
    <3> QED BY <2>1, <3>2, <3>3 DEF TypeOK, ball
  <2>3. CASE marker = 0
    <3>1. main' \in Processes
      <4>1. Off \in Processes
        BY <1>0 DEF Off, Processes
      <4>2. main \in Processes
        BY DEF TypeOK
      <4>3. main' = IF main = Off THEN [Off EXCEPT !.pid = pids', !.start = "ready"]
                                  ELSE HandleSecondInstance
        BY <1>1, <2>3 DEF RouteApplicationStart
      <4> QED BY ZenonT(60), <2>1, <4>1, <4>2, <4>3 DEF HandleSecondInstance, Processes
    <3>2. UNCHANGED <<marker, router, resets, doomed, stored, helpers, shown, call, user,
                      withdrawn, ball>>
      BY <1>1, <2>3 DEF RouteApplicationStart
    <3> QED BY <2>1, <3>1, <3>2 DEF TypeOK, ball
  <2> QED BY <2>2, <2>3
<1>2. CASE RouterEnds
  <2>1. helpers' \in [1..MaxResets -> Helpers]
    <3>1. helpers \in [1..MaxResets -> Helpers] /\ router.pid \in 0..MaxProcesses
      BY DEF TypeOK
    <3> QED BY <1>2, <3>1 DEF RouterEnds, Spawned, Helpers
  <2>2. router' \in [pid : 0..MaxProcesses, reset : 0..MaxResets]
    BY <1>0, <1>2 DEF RouterEnds, NoRouter
  <2>3. UNCHANGED <<stored, marker, main, shown, call, counters, history, ball>>
    BY <1>2 DEF RouterEnds
  <2> QED BY <2>1, <2>2, <2>3 DEF TypeOK, counters, history, ball
<1> QED BY <1>1, <1>2

(* The helper of a reset:                                                  *)
LEMMA HelpersAreTyped ==
  ASSUME TypeOK, NEW reset \in 1..MaxResets, HelperSteps(reset)
  PROVE  TypeOK'
<1>0. MaxResets \in Nat /\ MaxProcesses \in Nat
  BY ConstantsAssumption
<1>1. PICK from, to : /\ to \in {"none", "checking", "waiting", "removing"}
                      /\ Helper(reset, from, to)
  <2>1. \/ Helper(reset, "checking", IF marker = reset THEN "waiting" ELSE "none")
        \/ Helper(reset, "waiting", "removing") \/ Helper(reset, "removing", "removing")
        \/ Helper(reset, "removing", "none") \/ Helper(reset, helpers[reset].phase, "none")
    BY DEF HelperSteps, ValidateMarker, WaitForParentExit, RemoveMarker, RemoveProfile,
           RemovalEnds, RemovalFails, HelperKilled
  <2>2. (IF marker = reset THEN "waiting" ELSE "none") \in {"none", "checking", "waiting", "removing"}
    OBVIOUS
  <2> QED BY <2>1, <2>2, Zenon
<1>2. helpers' \in [1..MaxResets -> Helpers]
  <2>1. helpers \in [1..MaxResets -> Helpers]
    BY DEF TypeOK
  <2>2. NoHelper \in Helpers /\ [helpers[reset] EXCEPT !.phase = to] \in Helpers
    BY <1>0, <1>1, <2>1 DEF NoHelper, Helpers
  <2>3. helpers' = [helpers EXCEPT ![reset] = IF to = "none" THEN NoHelper
                                              ELSE [helpers[reset] EXCEPT !.phase = to]]
    BY <1>1 DEF Helper
  <2> QED BY <2>1, <2>2, <2>3
<1>3. stored' \in Profiles /\ marker' \in 0..MaxResets /\ doomed' \in {"no", "yes", "cut"}
  <2>1. stored' \in {stored, NoProfile} /\ marker' \in {marker, 0, reset}
        /\ doomed' \in {doomed, "no", "yes", "cut"}
    BY DEF HelperSteps, ValidateMarker, WaitForParentExit, RemoveMarker, RemoveProfile,
           RemovalEnds, RemovalFails, HelperKilled, WriteLocalDataResetMarker
  <2>2. stored \in Profiles /\ marker \in 0..MaxResets /\ doomed \in {"no", "yes", "cut"}
    BY DEF TypeOK
  <2>3. stored' \in Profiles /\ marker' \in 0..MaxResets
    BY <1>0, <2>1, <2>2, ProfilesAreTyped
  <2> QED BY <2>1, <2>2, <2>3
<1>4. UNCHANGED <<main, router, shown, call, counters, withdrawn, ball>>
  BY <1>1 DEF Helper
<1> QED BY <1>2, <1>3, <1>4 DEF TypeOK, counters, ball

(* The main process, from its start to its end, wherever it crashes:       *)
LEMMA MainIsTyped ==
  ASSUME TypeOK, MainSteps \/ Quit \/ Crash PROVE TypeOK'
<1>0. MaxResets \in Nat /\ MaxProcesses \in Nat
  BY ConstantsAssumption
<1>a. /\ stored \in Profiles /\ main \in Processes /\ shown \in States
      /\ displays \in Layouts /\ window \in Areas /\ missed \in BOOLEAN
  BY DEF TypeOK
<1>b. DefaultState \in States
  BY ProfilesAreTyped, LoadedIsTyped DEF DefaultState, Statuses
<1>c. ASSUME NEW record \in Processes, Main(record), stored' \in Profiles, shown' \in States,
             window' \in Areas, missed' \in BOOLEAN
      PROVE  TypeOK'
  BY <1>c DEF Main, TypeOK, counters
<1>d. Failed \in Processes
  BY <1>a DEF Failed, RequestShutdown, Processes
<1>1. CASE OpenDatabase
  <2>1. [main EXCEPT !.start = "over"] \in Processes
        /\ [main EXCEPT !.start = "migrating", !.open = TRUE] \in Processes
    BY <1>a DEF Processes
  <2>2. stored' \in Profiles /\ shown' \in States
    BY <1>a, <1>b, <1>1, ProfilesAreTyped DEF OpenDatabase
  <2>3. \E record \in Processes : Main(record)
    BY <1>1, <2>1, Zenon DEF OpenDatabase
  <2> QED BY <1>a, <1>1, <1>c, <2>2, <2>3 DEF OpenDatabase
<1>2. CASE RunStorageMigrations
  <2>1. [main EXCEPT !.start = "status"] \in Processes
    BY <1>a DEF Processes
  <2>2. stored' \in Profiles
    <3>1. [stored EXCEPT !.version = KnownVersion] \in Profiles
      BY <1>a DEF Profiles, KnownVersion
    <3> QED BY <1>a, <1>2, <3>1 DEF RunStorageMigrations
  <2>3. \E record \in Processes : Main(record)
    BY <1>2, <1>d, <2>1, Zenon DEF RunStorageMigrations
  <2> QED BY <1>a, <1>2, <1>c, <2>2, <2>3 DEF RunStorageMigrations
<1>3. CASE LoadSettings
  <2>1. [main EXCEPT !.start = "windows"] \in Processes /\ [main EXCEPT !.start = "over"] \in Processes
    BY <1>a DEF Processes
  <2>2. \E record \in Processes : Main(record)
    BY <1>3, <1>d, <2>1, Zenon DEF LoadSettings
  <2>3. CASE ~main.open
    BY <1>a, <1>3, <1>c, <2>2, <2>3 DEF LoadSettings
  <2>4. CASE main.open
    <3>1. PICK status \in Statuses, anchor \in StartAnchors :
            shown' = [Initialized(LoadPhase4(stored), status) EXCEPT !.anchor = anchor]
      BY <1>3, <2>4 DEF LoadSettings, Statuses
    <3>2. anchor \in Anchors
      BY <1>a, <3>1, StartAnchorsAreValid
    <3>3. Initialized(LoadPhase4(stored), status) \in States
      BY <1>a, <3>1, LoadedIsTyped
    <3>4. shown' \in States /\ shown'.anchor \in Anchors
      BY <3>1, <3>2, <3>3 DEF States
    <3>5. stored' \in Profiles
      <4>1. [stored EXCEPT !.anchor = shown'.anchor] \in Profiles
        BY <1>a, <3>4 DEF Profiles
      <4> QED BY <1>a, <1>3, <2>4, <4>1 DEF LoadSettings
    <3>6. window' \in Areas /\ missed' \in BOOLEAN
      BY <1>a, <1>3, <2>4, <3>4, RestoringIsTyped DEF LoadSettings
    <3> QED BY <1>c, <2>2, <3>4, <3>5, <3>6
  <2> QED BY <1>a, <2>3, <2>4 DEF Processes
<1>4. CASE WindowsStart
  <2>1. /\ [main EXCEPT !.start = "over", !.ready = TRUE,
                       !.settings = @ \/ main.second, !.second = FALSE] \in Processes
        /\ [main EXCEPT !.start = "over"] \in Processes
    BY <1>a DEF Processes
  <2>2. \E record \in Processes : Main(record)
    BY <1>4, <1>d, <2>1, Zenon DEF WindowsStart
  <2> QED BY <1>a, <1>4, <1>c, <2>2 DEF WindowsStart
<1>5. CASE Dispose
  <2>1. [main EXCEPT !.open = FALSE, !.shutdown = "complete"] \in Processes
    BY <1>a DEF Processes
  <2> QED BY <1>a, <1>5, <1>c, <2>1 DEF Dispose
<1>6. CASE Quit
  <2>1. RequestShutdown(main) \in Processes
    BY <1>a DEF RequestShutdown, Processes
  <2> QED BY <1>a, <1>6, <1>c, <2>1 DEF Quit
<1>7. CASE ProcessEnds
  <2>1. Off \in Processes /\ NoWindow \in Areas
    BY <1>0 DEF Off, Processes, NoWindow, BoundsAt, Areas, BallSize
  <2> QED BY <1>b, <1>7, <2>1 DEF ProcessEnds, TypeOK, counters
<1> QED BY <1>1, <1>2, <1>3, <1>4, <1>5, <1>6, <1>7 DEF MainSteps, Exit, Crash

(* Where a command of the settings page can be.                            *)
Calls == {"none", "save", "delete consent", "delete credential", "stop host", "schedule", "spawn"}

(* What the commands write and show.                                       *)
LEMMA SettingIsTyped ==
  ASSUME stored \in Profiles, shown \in States
  PROVE  /\ \A key : Set(key, "on") \in Profiles /\ Set(key, "off") \in Profiles
                     /\ Set(key, "absent") \in Profiles
         /\ [stored EXCEPT !.credential = TRUE] \in Profiles
         /\ [stored EXCEPT !.credential = FALSE] \in Profiles
         /\ Closed(shown) \in States
         /\ [Closed(shown) EXCEPT !.selection = FALSE] \in States
<1>1. \A key : Set(key, "on") \in Profiles /\ Set(key, "off") \in Profiles
               /\ Set(key, "absent") \in Profiles
  BY SetIsTyped DEF Values
<1>2. /\ [stored EXCEPT !.credential = TRUE] \in Profiles
      /\ [stored EXCEPT !.credential = FALSE] \in Profiles
  BY DEF Profiles
<1>3. /\ Closed(shown) \in States
      /\ [Closed(shown) EXCEPT !.selection = FALSE] \in States
  BY DEF Closed, States, Statuses
<1> QED BY <1>1, <1>2, <1>3

(* The settings page calls:                                                *)
LEMMA CommandsAreTyped ==
  ASSUME TypeOK, UserSteps, ~Quit PROVE TypeOK'
<1>a. stored \in Profiles /\ shown \in States /\ user \in [calls : Nat, moves : Nat]
      /\ withdrawn \in BOOLEAN
  BY DEF TypeOK
<1>b. /\ UNCHANGED <<marker, helpers, main, router, pids, resets, doomed>>
      /\ UNCHANGED ball
  BY DEF UserSteps, SetSelectionEnabled, EnableTranslation, SaveBaiduCredentials,
         DeleteBaiduCredentials, ClearAllLocalData, Commanded, Uses
<1>c. user' \in [calls : Nat, moves : Nat]
  <2>1. Uses("calls")
    BY DEF UserSteps, SetSelectionEnabled, EnableTranslation, SaveBaiduCredentials,
           DeleteBaiduCredentials, ClearAllLocalData, Commanded
  <2> QED BY <1>a, <2>1, UsesAreTyped
<1>d. stored' \in Profiles
  <2>1. stored' = stored \/ stored' = [stored EXCEPT !.credential = TRUE]
        \/ \E key : stored' = Set(key, "on") \/ stored' = Set(key, "off")
    BY DEF UserSteps, SetSelectionEnabled, EnableTranslation, SaveBaiduCredentials,
           DeleteBaiduCredentials, ClearAllLocalData
  <2> QED BY <1>a, <2>1, SettingIsTyped
<1>e. shown' \in States
  <2>1. [shown EXCEPT !.selection = ~@] \in States /\ [shown EXCEPT !.enabled = TRUE] \in States
    BY <1>a DEF States
  <2> QED BY <1>a, <2>1, SettingIsTyped
      DEF UserSteps, SetSelectionEnabled, EnableTranslation, SaveBaiduCredentials,
          DeleteBaiduCredentials, ClearAllLocalData
<1>f. call' \in Calls /\ withdrawn' \in BOOLEAN
  BY <1>a DEF UserSteps, SetSelectionEnabled, EnableTranslation, SaveBaiduCredentials,
         DeleteBaiduCredentials, ClearAllLocalData, Calls, TypeOK
<1> QED BY <1>b, <1>c, <1>d, <1>e, <1>f DEF TypeOK, ball, Calls

(* A call goes on after an await:                                          *)
LEMMA CallsAreTyped ==
  ASSUME TypeOK, CallSteps PROVE TypeOK'
<1>0. MaxResets \in Nat /\ MaxProcesses \in Nat
  BY ConstantsAssumption
<1>a. /\ stored \in Profiles /\ shown \in States /\ withdrawn \in BOOLEAN
      /\ doomed \in {"no", "yes", "cut"}
      /\ main \in Processes /\ helpers \in [1..MaxResets -> Helpers]
      /\ marker \in 0..MaxResets /\ resets \in 0..MaxResets
  BY DEF TypeOK
<1>b. UNCHANGED <<pids, user, router, ball>>
  BY DEF CallSteps, SaveConsent, DeleteConsent, DeleteCredential, PersistReset, MarkReset,
         SpawnHelper, Continues, Throws
<1>c. ASSUME UNCHANGED <<marker, helpers, main, resets, doomed>>, stored' \in Profiles,
             shown' \in States, call' \in Calls, withdrawn' \in BOOLEAN
      PROVE  TypeOK'
  BY <1>b, <1>c DEF TypeOK, ball, Calls
<1>d. ASSUME Throws PROVE TypeOK'
  BY <1>a, <1>c, <1>d DEF Throws, Calls, history
<1>1. CASE SaveConsent
  <2>1. [shown EXCEPT !.consent = TRUE, !.status = "configured"] \in States
    BY <1>a DEF States, Statuses
  <2>2. CASE ~main.open
    BY <1>d, <1>1, <2>2 DEF SaveConsent
  <2>3. CASE main.open
    <3>1. /\ stored' = Set("consent", "on")
          /\ shown' = [shown EXCEPT !.consent = TRUE, !.status = "configured"]
          /\ call' = "none"
          /\ UNCHANGED <<marker, helpers, main, router, resets, history>>
      BY <1>1, <2>3 DEF SaveConsent
    <3> QED BY <1>a, <1>c, <2>1, <3>1, SettingIsTyped DEF Calls, history
  <2> QED BY <2>2, <2>3
<1>2. CASE DeleteConsent
  <2>1. stored' \in Profiles /\ withdrawn' \in BOOLEAN /\ shown' = shown
    BY <1>a, <1>2, SettingIsTyped DEF DeleteConsent
  <2> QED BY <1>a, <1>c, <1>2, <2>1 DEF DeleteConsent, Calls
<1>3. CASE DeleteCredential
  <2>1. [shown EXCEPT !.status = "missing"] \in States
    BY <1>a DEF States, Statuses
  <2>2. stored' \in Profiles /\ withdrawn' \in BOOLEAN /\ shown' \in States
    BY <1>a, <1>3, <2>1, SettingIsTyped DEF DeleteCredential
  <2> QED BY <1>a, <1>c, <1>3, <2>2 DEF DeleteCredential, Calls
<1>4. CASE PersistReset
  <2>1. CASE Throws
    BY <1>d, <2>1
  <2>2. CASE ~Throws
    <3> DEFINE values(done) == [key \in done \cap Keys |-> IF key = "consent" THEN "absent" ELSE "off"]
    <3>1. PICK done \in SUBSET (Phase3Keys \cup Phase4Keys \cup {"credential"}) :
            /\ stored' = [Written(stored, values(done)) EXCEPT !.credential = @ /\ "credential" \notin done]
            /\ shown' = [shown EXCEPT !.status =
                           IF "credential" \in done THEN "missing" ELSE "unavailable"]
            /\ withdrawn' = (withdrawn \/ done \ Phase3Keys # {})
            /\ call' = "schedule"
            /\ UNCHANGED <<marker, helpers, main, router, resets, doomed>>
      BY <1>4, <2>2 DEF PersistReset
    <3>2. Written(stored, values(done)) \in Profiles
      BY <1>a, WrittenIsTyped DEF Values
    <3>3. stored' \in Profiles
      <4> DEFINE written == Written(stored, values(done))
      <4> DEFINE kept == written.credential /\ "credential" \notin done
      <4>1. kept \in BOOLEAN
        OBVIOUS
      <4>2. stored' = [written EXCEPT !.credential = kept]
        BY <3>1
      <4> HIDE DEF written, kept
      <4>3. written \in Profiles
        BY <3>2 DEF written
      <4> QED BY <4>1, <4>2, <4>3 DEF Profiles
    <3>4. shown' \in States
      BY <1>a, <3>1 DEF States, Statuses
    <3> QED BY <1>c, <3>1, <3>3, <3>4 DEF Calls
  <2> QED BY <2>1, <2>2
<1>5. CASE MarkReset
  <2>1. resets < MaxResets /\ resets' = resets + 1
    BY <1>5 DEF MarkReset, NextReset
  <2>2. resets' \in 0..MaxResets
    BY <1>0, <1>a, <2>1, NumbersAreTyped
  <2>3. main' \in Processes
    BY <1>5, <1>a, <2>2 DEF MarkReset, Processes
  <2>4. marker' = resets' /\ doomed' \in {"no", "yes", "cut"} /\ call' \in Calls
        /\ UNCHANGED <<stored, helpers, router, shown, withdrawn>>
    BY <1>5 DEF MarkReset, NextReset, WriteLocalDataResetMarker, Calls
  <2> QED BY <1>b, <2>2, <2>3, <2>4 DEF TypeOK, ball, Calls
<1>6. CASE SpawnHelper
  <2>1. main' \in Processes
    BY <1>a, <1>6 DEF SpawnHelper, RequestShutdown, Processes
  <2>2. helpers' \in [1..MaxResets -> Helpers]
    <3>1. main.pid \in 0..MaxProcesses
      BY <1>a DEF Processes
    <3> QED BY <1>a, <1>6, <3>1 DEF SpawnHelper, Spawned, Helpers
  <2>3. call' \in Calls /\ UNCHANGED <<stored, marker, router, shown, resets, history>>
    BY <1>6 DEF SpawnHelper, Calls
  <2> QED BY <1>b, <2>1, <2>2, <2>3 DEF TypeOK, ball, history, Calls
<1> QED BY <1>1, <1>2, <1>3, <1>4, <1>5, <1>6 DEF CallSteps

(* The ball is dragged, and the displays change:                           *)
LEMMA BallIsTyped ==
  ASSUME TypeOK, BallSteps PROVE TypeOK'
<1>a. /\ stored \in Profiles /\ shown \in States /\ user \in [calls : Nat, moves : Nat]
      /\ displays \in Layouts /\ window \in Areas /\ missed \in BOOLEAN
      /\ shown.anchor \in Anchors /\ shown.edgeSnap \in BOOLEAN
  BY DEF TypeOK, States
<1>b. UNCHANGED <<marker, helpers, main, router, pids, resets, doomed, call, withdrawn>>
  BY DEF BallSteps, HandleBallMoved, SetEdgeSnap, ResetBallPosition, DisplayChanged,
         RecoverBallPosition, Moves, Place, Uses
<1>c. user' \in [calls : Nat, moves : Nat]
  <2>1. Uses("moves")
    BY DEF BallSteps, HandleBallMoved, SetEdgeSnap, ResetBallPosition, DisplayChanged, Moves
  <2> QED BY <1>a, <2>1, UsesAreTyped
<1>d. ASSUME NEW anchor \in Anchors, NEW bounds \in Areas, NEW layout \in Layouts,
             Place(anchor, bounds, stored)
      PROVE  stored' \in Profiles /\ shown' \in States /\ window' \in Areas
  <2>1. [stored EXCEPT !.anchor = anchor] \in Profiles
    BY <1>a DEF Profiles
  <2>2. [shown EXCEPT !.anchor = anchor] \in States
    BY <1>a DEF States
  <2> QED BY <1>a, <1>d, <2>1, <2>2 DEF Place
<1>1. CASE \E requested \in Drags : HandleBallMoved(requested)
  <2>1. PICK requested \in Drags : HandleBallMoved(requested)
    BY <1>1
  <2>2. requested \in Areas
    BY <2>1, ConstantsAssumption
  <2> DEFINE placement == DeriveBallPlacement(requested, displays, shown.edgeSnap)
  <2>3. placement.anchor \in Anchors /\ placement.bounds \in Areas
    BY <1>a, <2>2, DraggingIsTyped
  <2>4. Place(placement.anchor, placement.bounds, stored)
        /\ displays' = displays /\ missed' = FALSE
    BY <2>1 DEF HandleBallMoved
  <2> HIDE DEF placement
  <2>5. stored' \in Profiles /\ shown' \in States /\ window' \in Areas
    BY <1>a, <1>d, <2>3, <2>4
  <2> QED BY <1>b, <1>c, <2>4, <2>5 DEF TypeOK
<1>2. CASE SetEdgeSnap
  <2> DEFINE value == ~shown.edgeSnap
  <2> DEFINE placement == DeriveBallPlacement(window, displays, value)
  <2> DEFINE profile == Set("edgeSnap", IF value THEN "on" ELSE "off")
  <2>1. placement.anchor \in Anchors /\ placement.bounds \in Areas
    BY <1>a, DraggingIsTyped
  <2>2. profile \in Profiles
    BY <1>a, SettingIsTyped
  <2>3. /\ window' = placement.bounds
        /\ shown' = [shown EXCEPT !.edgeSnap = value, !.anchor = placement.anchor]
        /\ stored' \in {profile, [profile EXCEPT !.anchor = placement.anchor]}
        /\ missed' = FALSE /\ displays' = displays
    BY <1>2 DEF SetEdgeSnap, Moves
  <2> HIDE DEF placement, profile
  <2>4. shown' \in States
    BY <1>a, <2>1, <2>3 DEF States
  <2>5. stored' \in Profiles
    BY <2>1, <2>2, <2>3 DEF Profiles
  <2> QED BY <1>a, <1>b, <1>c, <2>1, <2>3, <2>4, <2>5 DEF TypeOK
<1>3. CASE ResetBallPosition
  <2>1. PICK i \in DOMAIN displays :
          LET anchor == CreateDefaultBallAnchor(displays[i])
          IN  /\ Moves
              /\ window' = ResolveBallBounds(anchor, displays)
              /\ shown' = [shown EXCEPT !.anchor = anchor]
              /\ stored' = [stored EXCEPT !.anchor = anchor]
    BY <1>3 DEF ResetBallPosition
  <2> DEFINE anchor == CreateDefaultBallAnchor(displays[i])
  <2>2. displays[i] \in Range(displays)
    BY DEF Range
  <2>3. anchor \in Anchors
    BY <1>a, <2>2, DisplaysAreTyped, DefaultAnchorIsValid
  <2>4. /\ window' = ResolveBallBounds(anchor, displays)
        /\ shown' = [shown EXCEPT !.anchor = anchor]
        /\ stored' = [stored EXCEPT !.anchor = anchor]
        /\ missed' = FALSE /\ displays' = displays
    BY <2>1 DEF Moves
  <2> HIDE DEF anchor
  <2>5. window' \in Areas
    BY <1>a, <2>3, <2>4, RestoringIsTyped
  <2>6. shown' \in States /\ stored' \in Profiles
    BY <1>a, <2>3, <2>4 DEF States, Profiles
  <2> QED BY <1>a, <1>b, <1>c, <2>4, <2>5, <2>6 DEF TypeOK
<1>4. CASE \E layout \in Layouts : DisplayChanged(layout)
  <2>1. PICK layout \in Layouts : DisplayChanged(layout)
    BY <1>4
  <2>2. CASE main.ready
    <3> DEFINE placement == DeriveBallPlacement(ResolveBallBounds(shown.anchor, layout), layout,
                                                shown.edgeSnap)
    <3>1. placement.anchor \in Anchors /\ placement.bounds \in Areas
      BY <1>a, RestoringIsTyped, DraggingIsTyped
    <3>2. Place(placement.anchor, placement.bounds, stored) /\ displays' = layout /\ missed' = FALSE
      BY <2>1, <2>2 DEF DisplayChanged, RecoverBallPosition
    <3> HIDE DEF placement
    <3>3. stored' \in Profiles /\ shown' \in States /\ window' \in Areas
      BY <1>a, <1>d, <3>1, <3>2
    <3> QED BY <1>b, <1>c, <3>2, <3>3 DEF TypeOK
  <2>3. CASE ~main.ready
    <3>1. /\ displays' = layout /\ missed' = (missed \/ main.start = "windows")
          /\ UNCHANGED <<stored, shown, window>>
      BY <2>1, <2>3 DEF DisplayChanged
    <3> QED BY <1>a, <1>b, <1>c, <3>1 DEF TypeOK
  <2> QED BY <2>2, <2>3
<1> QED BY <1>1, <1>2, <1>3, <1>4 DEF BallSteps

(* So the type invariant is inductive by itself.                           *)
LEMMA TypeStep == TypeOK /\ [Next]_vars => TypeOK'
<1> SUFFICES ASSUME TypeOK, [Next]_vars PROVE TypeOK'
  OBVIOUS
<1>1. CASE UNCHANGED vars
  BY <1>1 DEF TypeOK, vars, counters, history, ball
<1>2. CASE UserSteps
  BY <1>2, CommandsAreTyped, MainIsTyped
<1> QED BY <1>1, <1>2, StartsAreTyped, MainIsTyped, CallsAreTyped, BallIsTyped, HelpersAreTyped
        DEF Next

-----------------------------------------------------------------------------
(* How far a process has come: the shell is ready only after its start and *)
(* before its shutdown, a start that goes on has the database open, and    *)
(* nobody calls before the start is over (ShellLifecycle.start,            *)
(* ShellController.start).                                                 *)
Phases ==
  /\ main.ready => main.start = "over" /\ main.shutdown = "no"
  /\ main.shutdown = "no" /\ (main.start \in {"migrating", "status", "windows"} \/ main.ready)
       => main.open
  /\ call # "none" => main.start = "over"

(* Every step keeps the phases in order.                                   *)
LEMMA PhasesStep == TypeOK /\ Phases /\ [Next]_vars => Phases'
<1> SUFFICES ASSUME TypeOK, Phases, [Next]_vars PROVE Phases'
  OBVIOUS
<1>a. main \in Processes
  BY DEF TypeOK
<1>b. UNCHANGED <<main, call>> => Phases'
  BY DEF Phases
<1>1. CASE RouteApplicationStart
  <2>1. /\ call' = call
        /\ \/ main' = main
           \/ main = Off /\ main' = [Off EXCEPT !.pid = pids', !.start = "ready"]
           \/ main' = HandleSecondInstance
    BY <1>1 DEF RouteApplicationStart
  <2>2. CASE main' = main
    BY <1>b, <2>1, <2>2
  <2>3. CASE main = Off /\ main' = [Off EXCEPT !.pid = pids', !.start = "ready"]
    BY <2>1, <2>3 DEF Phases, Off
  <2>4. CASE main' = HandleSecondInstance
    BY <1>a, <2>1, <2>4 DEF HandleSecondInstance, Phases, Processes
  <2> QED BY <2>1, <2>2, <2>3, <2>4
<1>2. CASE OpenDatabase
  BY <1>a, <1>2 DEF OpenDatabase, Main, Phases, Processes
<1>3. CASE RunStorageMigrations
  BY <1>a, <1>3 DEF RunStorageMigrations, Main, Failed, RequestShutdown, Phases, Processes
<1>4. CASE LoadSettings
  <2>1. CASE ~main.open
    <3>1. call' = call /\ main.start = "status" /\ main' = Failed
      BY <1>4, <2>1 DEF LoadSettings, Main
    <3> QED BY <1>a, <3>1 DEF Failed, RequestShutdown, Phases, Processes
  <2>2. CASE main.open
    <3>1. /\ call' = call /\ main.start = "status"
          /\ IF main.shutdown = "no" THEN main' = [main EXCEPT !.start = "windows"]
                                     ELSE main' = [main EXCEPT !.start = "over"]
      BY <1>4, <2>2 DEF LoadSettings, Main
    <3> QED BY <1>a, <2>2, <3>1 DEF Phases, Processes
  <2> QED BY <2>1, <2>2
<1>5. CASE WindowsStart
  BY <1>a, <1>5 DEF WindowsStart, Main, Failed, RequestShutdown, Phases, Processes
<1>6. CASE Dispose
  BY <1>a, <1>6 DEF Dispose, Main, Phases, Processes
<1>7. CASE Quit
  BY <1>a, <1>7 DEF Quit, Main, RequestShutdown, Phases, Processes
<1>8. CASE ProcessEnds
  BY <1>8 DEF ProcessEnds, Phases, Off
<1>9. CASE CallSteps
  <2>1. /\ call # "none"
        /\ \/ main' = main \/ main' = RequestShutdown(main)
           \/ \E reset : main' = [main EXCEPT !.reset = reset]
    BY <1>9 DEF CallSteps, SaveConsent, DeleteConsent, DeleteCredential, PersistReset, MarkReset,
         SpawnHelper, Continues, Throws
  <2> QED BY <1>a, <2>1 DEF Phases, Processes, RequestShutdown
<1>10. CASE UserSteps /\ ~Quit
  <2>1. main.ready /\ main' = main
    BY <1>10 DEF UserSteps, SetSelectionEnabled, EnableTranslation, SaveBaiduCredentials,
         DeleteBaiduCredentials, ClearAllLocalData, Commanded, Uses
  <2> QED BY <1>a, <2>1 DEF Phases
<1>11. CASE BallSteps \/ RouterEnds
  <2>1. UNCHANGED <<main, call>>
    BY <1>11 DEF BallSteps, HandleBallMoved, SetEdgeSnap, ResetBallPosition, DisplayChanged,
         RecoverBallPosition, Moves, Place, Uses, RouterEnds
  <2> QED BY <1>b, <2>1
<1>12. CASE \E reset \in 1..MaxResets : HelperSteps(reset)
  <2>1. UNCHANGED <<main, call>>
    BY <1>12 DEF HelperSteps, ValidateMarker, WaitForParentExit, RemoveMarker, RemoveProfile,
         RemovalEnds, RemovalFails, HelperKilled, Helper
  <2> QED BY <1>b, <2>1
<1>13. CASE UNCHANGED vars
  BY <1>b, <1>13 DEF vars
<1> QED BY <1>1, <1>2, <1>3, <1>4, <1>5, <1>6, <1>7, <1>8, <1>9, <1>10, <1>11, <1>12, <1>13
        DEF Next, MainSteps, Exit, Crash

(* Who has the database open finds it there, and so does a reset that is   *)
(* scheduled; its version is one that migrations know or one too new.      *)
DatabaseIsThere ==
  /\ main.open \/ doomed # "no" => stored # NoProfile
  /\ stored = NoProfile \/ stored.version \in 0..(KnownVersion + 1)

(* A step that leaves the data alone, or writes to the open database and   *)
(* leaves its version alone.                                               *)
Kept == stored' = stored \/ (main.open /\ stored'.version = stored.version)

(* A write of a setting changes no more than that.                         *)
LEMMA WrittenKeepsRest ==
  ASSUME NEW profile \in Profiles, NEW values
  PROVE  /\ Written(profile, values).version = profile.version
         /\ Written(profile, values).anchor = profile.anchor
         /\ Written(profile, values).credential = profile.credential
BY DEF Written, Profiles

(* The ball writes to the open database only.                              *)
LEMMA BallKeepsProfile ==
  ASSUME TypeOK, Phases, BallSteps PROVE Kept
<1>a. stored \in Profiles /\ main \in Processes
  BY DEF TypeOK
<1>b. main.ready \/ (main.start = "windows" /\ main.shutdown = "no") => main.open
  BY DEF Phases
<1>c. ASSUME NEW profile \in Profiles, profile.version = stored.version, NEW anchor,
             stored' \in {profile, [profile EXCEPT !.anchor = anchor]}
      PROVE  stored'.version = stored.version
  BY <1>c DEF Profiles
<1>1. CASE \E requested \in Drags : HandleBallMoved(requested)
  <2>1. main.open /\ \E anchor : stored' \in {stored, [stored EXCEPT !.anchor = anchor]}
    BY <1>b, <1>1 DEF HandleBallMoved, Place
  <2> QED BY <1>a, <1>c, <2>1 DEF Kept
<1>2. CASE SetEdgeSnap
  <2> DEFINE value == IF ~shown.edgeSnap THEN "on" ELSE "off"
  <2> DEFINE anchor == DeriveBallPlacement(window, displays, ~shown.edgeSnap).anchor
  <2>1. main.open /\ stored' \in {Set("edgeSnap", value),
                                  [Set("edgeSnap", value) EXCEPT !.anchor = anchor]}
    BY <1>b, <1>2 DEF SetEdgeSnap, Moves
  <2>2. value \in Values
    BY DEF Values
  <2> HIDE DEF value, anchor
  <2>3. Set("edgeSnap", value) \in Profiles /\ Set("edgeSnap", value).version = stored.version
    BY <1>a, <2>2, SetIsTyped, WrittenKeepsRest DEF Set
  <2> QED BY <1>c, <2>1, <2>3 DEF Kept
<1>3. CASE ResetBallPosition
  <2>1. main.open /\ \E anchor : stored' \in {stored, [stored EXCEPT !.anchor = anchor]}
    BY <1>b, <1>3 DEF ResetBallPosition, Moves
  <2> QED BY <1>a, <1>c, <2>1 DEF Kept
<1>4. CASE \E layout \in Layouts : DisplayChanged(layout)
  <2>1. stored' = stored \/ (main.open /\ \E anchor : stored' \in {stored, [stored EXCEPT !.anchor = anchor]})
    BY <1>b, <1>4 DEF DisplayChanged, RecoverBallPosition, Place
  <2> QED BY <1>a, <1>c, <2>1 DEF Kept
<1> QED BY <1>1, <1>2, <1>3, <1>4 DEF BallSteps

(* So do the calls of the settings page.                                   *)
LEMMA CommandsKeepProfile ==
  ASSUME TypeOK, Phases, UserSteps \/ CallSteps PROVE Kept
<1>a. stored \in Profiles /\ main \in Processes
  BY DEF TypeOK
<1>b. main.ready => main.open
  BY DEF Phases
<1>c. \A key, value : Set(key, value).version = stored.version
  BY <1>a, WrittenKeepsRest DEF Set
<1>d. /\ [stored EXCEPT !.credential = TRUE].version = stored.version
      /\ [stored EXCEPT !.credential = FALSE].version = stored.version
  BY <1>a DEF Profiles
<1>1. CASE UserSteps
  <2>1. stored' = stored \/ (main.open /\ (stored' = [stored EXCEPT !.credential = TRUE]
                                           \/ \E key, value : stored' = Set(key, value)))
    BY <1>b, <1>1 DEF UserSteps, SetSelectionEnabled, EnableTranslation, SaveBaiduCredentials,
           DeleteBaiduCredentials, ClearAllLocalData, Commanded, Quit
  <2> QED BY <1>c, <1>d, <2>1 DEF Kept
<1>2. CASE PersistReset
  <2>1. stored' = stored \/ (main.open /\ \E values, left :
          stored' = [Written(stored, values) EXCEPT !.credential = left])
    BY <1>2, Zenon DEF PersistReset, Throws
  <2>2. \A values : Written(stored, values).version = stored.version
    BY <1>a, WrittenKeepsRest
  <2>3. \A values, left :
          [Written(stored, values) EXCEPT !.credential = left].version = stored.version
    BY <2>2
  <2> QED BY <2>1, <2>3 DEF Kept
<1>3. CASE CallSteps /\ ~PersistReset
  <2>1. stored' = stored \/ (main.open /\ (stored' = [stored EXCEPT !.credential = FALSE]
                                           \/ \E key, value : stored' = Set(key, value)))
    BY <1>3 DEF CallSteps, SaveConsent, DeleteConsent, DeleteCredential, MarkReset,
         SpawnHelper, Throws
  <2> QED BY <1>c, <1>d, <2>1 DEF Kept
<1> QED BY <1>1, <1>2, <1>3

(* DatabaseIsThere is inductive with the phases.                           *)
LEMMA DatabaseStep == TypeOK /\ Phases /\ DatabaseIsThere /\ [Next]_vars => DatabaseIsThere'
<1> SUFFICES ASSUME TypeOK, Phases, DatabaseIsThere, [Next]_vars PROVE DatabaseIsThere'
  OBVIOUS
<1>a. stored \in Profiles /\ main \in Processes
  BY DEF TypeOK
<1>b. NoProfile.version = -1 /\ EmptyProfile.version = 0
  BY DEF NoProfile, EmptyProfile
<1>c. ASSUME Kept, main'.open => main.open,
             doomed' # "no" => doomed # "no" \/ stored # NoProfile
      PROVE  DatabaseIsThere'
  <2>1. CASE stored' = stored
    BY <1>c, <2>1 DEF DatabaseIsThere
  <2>2. CASE main.open /\ stored'.version = stored.version
    <3>1. stored # NoProfile /\ stored.version \in 0..(KnownVersion + 1)
      BY <2>2 DEF DatabaseIsThere
    <3>2. stored'.version \in 0..(KnownVersion + 1) /\ stored' # NoProfile
      BY <1>b, <2>2, <3>1 DEF KnownVersion
    <3> QED BY <3>2 DEF DatabaseIsThere
  <2> QED BY <1>c, <2>1, <2>2 DEF Kept
<1>1. CASE OpenDatabase
  <2>1. doomed' = doomed
    BY <1>1 DEF OpenDatabase, Main
  <2>2. CASE main.shutdown = "complete"
    BY <1>a, <1>c, <1>1, <2>1, <2>2 DEF OpenDatabase, Main, Kept, Processes
  <2>3. CASE main.shutdown # "complete"
    <3>1. stored' = IF stored = NoProfile THEN EmptyProfile ELSE stored
      BY <1>1, <2>3 DEF OpenDatabase
    <3>2. stored' # NoProfile /\ stored'.version \in 0..(KnownVersion + 1)
      BY <1>b, <3>1 DEF DatabaseIsThere, KnownVersion
    <3> QED BY <3>2 DEF DatabaseIsThere
  <2> QED BY <2>2, <2>3
<1>2. CASE RunStorageMigrations
  <2>1. doomed' = doomed /\ (main'.open => main.open)
    BY <1>a, <1>2 DEF RunStorageMigrations, Main, Failed, RequestShutdown, Processes
  <2>2. CASE stored' = stored
    BY <1>c, <2>1, <2>2 DEF Kept
  <2>3. CASE stored' = [stored EXCEPT !.version = KnownVersion]
    <3>1. stored'.version = KnownVersion
      BY <1>a, <2>3 DEF Profiles
    <3>2. stored' # NoProfile /\ stored'.version \in 0..(KnownVersion + 1)
      BY <1>b, <3>1 DEF KnownVersion
    <3> QED BY <3>2 DEF DatabaseIsThere
  <2> QED BY <1>2, <2>2, <2>3 DEF RunStorageMigrations
<1>3. CASE LoadSettings
  <2>1. doomed' = doomed /\ (main'.open => main.open)
    BY <1>a, <1>3 DEF LoadSettings, Main, Failed, RequestShutdown, Processes
  <2>2. stored' = stored \/ (main.open /\ stored' = [stored EXCEPT !.anchor = shown'.anchor])
    BY <1>3 DEF LoadSettings
  <2>3. [stored EXCEPT !.anchor = shown'.anchor].version = stored.version
    BY <1>a DEF Profiles
  <2> QED BY <1>c, <2>1, <2>2, <2>3 DEF Kept
<1>4. CASE RouteApplicationStart
  <2>1. stored' = stored /\ (doomed' # "no" => doomed # "no" \/ stored # NoProfile)
    BY <1>4 DEF RouteApplicationStart, NextReset, WriteLocalDataResetMarker
  <2>2. main'.open => main.open
    BY <1>a, <1>4 DEF RouteApplicationStart, HandleSecondInstance, Off, Processes
  <2> QED BY <1>c, <2>1, <2>2 DEF Kept
<1>5. CASE WindowsStart \/ Dispose \/ Quit \/ ProcessEnds
  <2>1. UNCHANGED <<stored, doomed>>
    BY <1>5 DEF WindowsStart, Dispose, Quit, ProcessEnds, Main
  <2>2. main'.open => main.open
    <3>1. CASE WindowsStart
      BY <1>a, <3>1 DEF WindowsStart, Main, Failed, RequestShutdown, Processes
    <3>2. CASE Dispose
      BY <1>a, <3>2 DEF Dispose, Main, Processes
    <3>3. CASE Quit
      BY <1>a, <3>3 DEF Quit, Main, RequestShutdown, Processes
    <3>4. CASE ProcessEnds
      BY <3>4 DEF ProcessEnds, Off
    <3> QED BY <1>5, <3>1, <3>2, <3>3, <3>4
  <2> QED BY <1>c, <2>1, <2>2 DEF Kept
<1>6. CASE (UserSteps /\ ~Quit) \/ BallSteps \/ RouterEnds \/ UNCHANGED vars
  <2>1. UNCHANGED <<main, doomed>>
    BY <1>6 DEF UserSteps, SetSelectionEnabled, EnableTranslation, SaveBaiduCredentials,
         DeleteBaiduCredentials, ClearAllLocalData, Commanded, Uses, BallSteps, HandleBallMoved,
         SetEdgeSnap, ResetBallPosition, DisplayChanged, Moves, RouterEnds, vars, history
  <2>2. Kept
    BY <1>6, BallKeepsProfile, CommandsKeepProfile DEF Kept, RouterEnds, vars
  <2> QED BY <1>c, <2>1, <2>2
<1>7. CASE CallSteps
  <2>1. doomed' # "no" => doomed # "no" \/ stored # NoProfile
    BY <1>7 DEF CallSteps, SaveConsent, DeleteConsent, DeleteCredential, PersistReset, MarkReset,
         SpawnHelper, Throws, NextReset, WriteLocalDataResetMarker, history
  <2>2. main'.open => main.open
    BY <1>a, <1>7 DEF CallSteps, SaveConsent, DeleteConsent, DeleteCredential, PersistReset,
         MarkReset, SpawnHelper, Throws, RequestShutdown, Processes
  <2> QED BY <1>c, <1>7, <2>1, <2>2, CommandsKeepProfile
<1>8. CASE \E reset \in 1..MaxResets : HelperSteps(reset)
  <2>1. PICK reset \in 1..MaxResets : HelperSteps(reset)
    BY <1>8
  <2>2. main' = main
    BY <2>1 DEF HelperSteps, ValidateMarker, WaitForParentExit, RemoveMarker, RemoveProfile,
         RemovalEnds, RemovalFails, HelperKilled, Helper
  <2>3. CASE RemoveProfile(reset)
    BY <2>2, <2>3 DEF RemoveProfile, DatabaseIsThere
  <2>4. CASE ~RemoveProfile(reset)
    <3>1. stored' = stored /\ (\/ doomed' = doomed \/ WriteLocalDataResetMarker(reset)
                               \/ doomed = "yes")
      BY <2>1, <2>4 DEF HelperSteps, ValidateMarker, WaitForParentExit, RemoveMarker,
         RemovalEnds, RemovalFails, HelperKilled
    <3>2. doomed' # "no" => doomed # "no" \/ stored # NoProfile
      BY <3>1 DEF WriteLocalDataResetMarker
    <3> QED BY <1>c, <2>2, <3>1, <3>2 DEF Kept
  <2> QED BY <2>3, <2>4
<1> QED BY <1>1, <1>2, <1>3, <1>4, <1>5, <1>6, <1>7, <1>8
        DEF Next, MainSteps, Exit, Crash

-----------------------------------------------------------------------------
(* A reset whose helper is about to be spawned has none yet: its number is *)
(* one given out and not spawned, the number of the router is not that of  *)
(* the main process, and numbers to come are unused.                       *)
SpawnsAreNew ==
  /\ router # NoRouter => router.reset \in 1..resets /\ helpers[router.reset].phase = "none"
  /\ call = "spawn" => main.reset \in 1..resets /\ helpers[main.reset].phase = "none"
  /\ router # NoRouter /\ call = "spawn" => router.reset # main.reset
  /\ \A reset \in 1..MaxResets : reset > resets => helpers[reset].phase = "none"

(* SpawnsAreNew is inductive with the phases.                              *)
LEMMA SpawnsStep ==
  ASSUME TypeOK, Phases, SpawnsAreNew, [Next]_vars PROVE SpawnsAreNew'
<1>a. /\ resets \in 0..MaxResets /\ MaxResets \in Nat /\ helpers \in [1..MaxResets -> Helpers]
      /\ main \in Processes
  BY ConstantsAssumption DEF TypeOK
<1>b. CASE UNCHANGED <<router, helpers, call, resets>> /\ main'.reset = main.reset
  BY <1>b DEF SpawnsAreNew
<1>1. CASE RouteApplicationStart /\ marker # 0
  <2>1. /\ router' = [pid |-> pids', reset |-> resets'] /\ resets' = resets + 1
        /\ resets < MaxResets /\ UNCHANGED <<helpers, call, main>>
    BY <1>1 DEF RouteApplicationStart, NextReset
  <2>2. /\ resets' \in 1..MaxResets /\ resets' > resets /\ resets \in Nat
        /\ router'.reset = resets'
    BY <1>a, <2>1
  <2>3. helpers[resets'].phase = "none"
    BY <2>2 DEF SpawnsAreNew
  <2>4. call = "spawn" => /\ main.reset \in 1..resets' /\ helpers[main.reset].phase = "none"
                          /\ main.reset # resets'
    BY <1>a, <2>1 DEF SpawnsAreNew
  <2>5. \A reset \in 1..MaxResets : reset > resets' => helpers[reset].phase = "none"
    BY <1>a, <2>1 DEF SpawnsAreNew
  <2>6. router'.reset \in 1..resets'
    BY <2>2
  <2> QED BY <2>1, <2>2, <2>3, <2>4, <2>5, <2>6 DEF SpawnsAreNew
<1>2. CASE RouteApplicationStart /\ ~(marker # 0)
  <2>1. /\ UNCHANGED <<router, helpers, call, resets>>
        /\ \/ main = Off
           \/ main' = HandleSecondInstance
    BY <1>2 DEF RouteApplicationStart
  <2>2. CASE main = Off
    <3>1. call # "spawn"
      BY <2>2 DEF Phases, Off
    <3> QED BY <2>1, <3>1 DEF SpawnsAreNew
  <2>3. CASE main' = HandleSecondInstance
    <3>1. main'.reset = main.reset
      BY <1>a, <2>3 DEF HandleSecondInstance, Processes
    <3> QED BY <1>b, <2>1, <3>1
  <2> QED BY <2>1, <2>2, <2>3
<1>3. CASE RouterEnds
  <2>1. router # NoRouter /\ router' = NoRouter /\ UNCHANGED <<main, call, resets>>
        /\ (Spawned(router.reset, router.pid) \/ helpers' = helpers)
    BY <1>3 DEF RouterEnds, counters
  <2>2. \A reset \in 1..MaxResets : reset # router.reset => helpers'[reset] = helpers[reset]
    BY <1>a, <2>1 DEF Spawned
  <2>3. router.reset \in 1..resets
    BY <2>1 DEF SpawnsAreNew
  <2>4. call = "spawn" => helpers'[main.reset].phase = "none"
    <3> SUFFICES ASSUME call = "spawn" PROVE helpers'[main.reset].phase = "none"
      OBVIOUS
    <3>1. /\ main.reset \in 1..resets /\ main.reset # router.reset
          /\ helpers[main.reset].phase = "none"
      BY <2>1 DEF SpawnsAreNew
    <3>2. main.reset \in 1..MaxResets
      BY <1>a, <3>1
    <3> QED BY <2>2, <3>1, <3>2
  <2>5. \A reset \in 1..MaxResets : reset > resets => helpers'[reset].phase = "none"
    <3> TAKE reset \in 1..MaxResets
    <3> HAVE reset > resets
    <3>1. reset # router.reset
      BY <1>a, <2>3
    <3>2. helpers[reset].phase = "none"
      BY DEF SpawnsAreNew
    <3> QED BY <2>2, <3>1, <3>2
  <2> QED BY <2>1, <2>4, <2>5 DEF SpawnsAreNew
<1>4. CASE MainSteps \/ Quit \/ ProcessEnds
  <2>1. UNCHANGED <<router, helpers, resets>> /\ (call' = call \/ call' = "none")
    BY <1>4 DEF MainSteps, OpenDatabase, RunStorageMigrations, LoadSettings, WindowsStart, Dispose,
                Exit, Quit, ProcessEnds, Main, counters
  <2>2. CASE ProcessEnds
    BY <2>1, <2>2 DEF ProcessEnds, SpawnsAreNew
  <2>3. CASE ~ProcessEnds
    <3>1. \E record \in {main, RequestShutdown(main), Failed} : \E start, shutdown, open :
             \/ main' = record
             \/ main' = [main EXCEPT !.start = start]
             \/ main' = [main EXCEPT !.start = start, !.open = open]
             \/ main' = [main EXCEPT !.open = open, !.shutdown = shutdown]
             \/ main' = [main EXCEPT !.start = "over", !.ready = TRUE,
                                     !.settings = @ \/ main.second, !.second = FALSE]
      <4>1. CASE WindowsStart \/ Quit \/ Dispose
        BY <4>1 DEF WindowsStart, Dispose, Quit, Main
      <4>2. CASE OpenDatabase \/ RunStorageMigrations \/ LoadSettings
        BY <4>2 DEF OpenDatabase, RunStorageMigrations, LoadSettings, Main
      <4> QED BY <1>4, <2>3, <4>1, <4>2 DEF MainSteps, Exit
    <3>2. Failed.reset = main.reset /\ RequestShutdown(main).reset = main.reset
      BY <1>a DEF Failed, RequestShutdown, Processes
    <3>3. main'.reset = main.reset
      BY <1>a, <3>1, <3>2 DEF Processes
    <3> QED BY <2>1, <3>3 DEF SpawnsAreNew
  <2> QED BY <2>2, <2>3
<1>5. CASE MarkReset
  <2>1. /\ main' = [main EXCEPT !.reset = resets'] /\ resets' = resets + 1
        /\ resets < MaxResets /\ UNCHANGED <<helpers, router>>
    BY <1>5 DEF MarkReset, NextReset
  <2>2. resets' \in 1..MaxResets /\ resets' > resets /\ resets \in Nat /\ main'.reset = resets'
    BY <1>a, <2>1 DEF Processes
  <2>3. helpers[resets'].phase = "none"
    BY <2>2 DEF SpawnsAreNew
  <2>4. router # NoRouter => /\ router.reset \in 1..resets' /\ helpers[router.reset].phase = "none"
                             /\ router.reset # resets'
    BY <1>a, <2>1 DEF SpawnsAreNew
  <2>5. \A reset \in 1..MaxResets : reset > resets' => helpers[reset].phase = "none"
    BY <1>a, <2>1 DEF SpawnsAreNew
  <2>6. main'.reset \in 1..resets'
    BY <2>2
  <2> QED BY <2>1, <2>2, <2>3, <2>4, <2>5, <2>6 DEF SpawnsAreNew
<1>6. CASE SpawnHelper
  <2>1. /\ call = "spawn" /\ call' = "none" /\ UNCHANGED <<router, resets>>
        /\ (Spawned(main.reset, main.pid) \/ helpers' = helpers)
    BY <1>6 DEF SpawnHelper, Continues
  <2>2. \A reset \in 1..MaxResets : reset # main.reset => helpers'[reset] = helpers[reset]
    BY <1>a, <2>1 DEF Spawned
  <2>3. main.reset \in 1..resets
    BY <2>1 DEF SpawnsAreNew
  <2>4. router # NoRouter => helpers'[router.reset].phase = "none"
    <3> SUFFICES ASSUME router # NoRouter PROVE helpers'[router.reset].phase = "none"
      OBVIOUS
    <3>1. /\ router.reset \in 1..resets /\ main.reset # router.reset
          /\ helpers[router.reset].phase = "none"
      BY <2>1 DEF SpawnsAreNew
    <3>2. router.reset \in 1..MaxResets
      BY <1>a, <3>1
    <3> QED BY <2>2, <3>1, <3>2
  <2>5. \A reset \in 1..MaxResets : reset > resets => helpers'[reset].phase = "none"
    <3> TAKE reset \in 1..MaxResets
    <3> HAVE reset > resets
    <3>1. reset # main.reset
      BY <1>a, <2>3
    <3>2. helpers[reset].phase = "none"
      BY DEF SpawnsAreNew
    <3> QED BY <2>2, <3>1, <3>2
  <2> QED BY <2>1, <2>4, <2>5 DEF SpawnsAreNew
<1>7. CASE CallSteps /\ ~MarkReset /\ ~SpawnHelper
  <2>1. UNCHANGED <<router, helpers, resets, main>> /\ call' # "spawn"
    BY <1>7 DEF CallSteps, SaveConsent, DeleteConsent, DeleteCredential, PersistReset, Throws
  <2> QED BY <2>1 DEF SpawnsAreNew
<1>8. CASE (UserSteps /\ ~Quit) \/ BallSteps \/ UNCHANGED vars
  <2>1. UNCHANGED <<router, helpers, resets, main>> /\ (call' = call \/ call' # "spawn")
    BY <1>8 DEF UserSteps, SetSelectionEnabled, EnableTranslation, SaveBaiduCredentials,
         DeleteBaiduCredentials, ClearAllLocalData, Commanded, Uses, BallSteps, HandleBallMoved,
         SetEdgeSnap, ResetBallPosition, DisplayChanged, RecoverBallPosition, Moves, Place, vars,
         counters
  <2> QED BY <2>1 DEF SpawnsAreNew
<1>9. CASE \E reset \in 1..MaxResets : HelperSteps(reset)
  <2>1. PICK reset \in 1..MaxResets : HelperSteps(reset)
    BY <1>9
  <2>2. /\ UNCHANGED <<router, main, call, resets>>
        /\ helpers[reset].phase # "none"
        /\ \A other \in 1..MaxResets : other # reset => helpers'[other] = helpers[other]
    <3>1. \E from, to : from # "none" /\ Helper(reset, from, to)
      BY <2>1, ConstantsAssumption DEF HelperSteps, ValidateMarker, WaitForParentExit,
         RemoveMarker, RemoveProfile, RemovalEnds, RemovalFails, HelperKilled
    <3> QED BY <1>a, <3>1 DEF Helper, counters
  <2>3. \A other \in 1..MaxResets : helpers[other].phase = "none" => helpers'[other].phase = "none"
    BY <2>2
  <2>4. 1..resets \subseteq 1..MaxResets
    BY <1>a
  <2> QED BY <2>2, <2>3, <2>4 DEF SpawnsAreNew
<1> QED BY <1>1, <1>2, <1>3, <1>4, <1>5, <1>6, <1>7, <1>8, <1>9 DEF Next, Crash, MainSteps

(* No step forgets a pending reset: a helper that is killed leaves the     *)
(* marker, unless it has taken it.                                         *)
LEMMA PendingStep ==
  ASSUME TypeOK, DatabaseIsThere, SpawnsAreNew, PendingIsRemembered, [Next]_vars
  PROVE  PendingIsRemembered'
<1>a. /\ marker \in 0..MaxResets /\ resets \in 0..MaxResets /\ MaxResets \in Nat
      /\ helpers \in [1..MaxResets -> Helpers]
  BY ConstantsAssumption DEF TypeOK
<1>b. CASE marker' # 0
  BY <1>b DEF PendingIsRemembered, Remembered
<1>c. CASE UNCHANGED <<marker, helpers, doomed>>
  BY <1>c DEF PendingIsRemembered, Remembered
<1>1. CASE NextReset
  <2>1. resets' = resets + 1 /\ marker' = resets'
    BY <1>1 DEF NextReset, WriteLocalDataResetMarker
  <2>2. marker' # 0
    BY <1>a, <2>1
  <2> QED BY <1>b, <2>2
<1>2. ASSUME NEW reset, NEW pid, Spawned(reset, pid), UNCHANGED <<marker, doomed>>,
             helpers[reset].phase # "removing"
      PROVE  PendingIsRemembered'
  BY <1>a, <1>2 DEF Spawned, PendingIsRemembered, Remembered
<1>3. CASE \E reset \in 1..MaxResets : HelperSteps(reset)
  <2>1. PICK reset \in 1..MaxResets : HelperSteps(reset)
    BY <1>3
  <2>2. ASSUME NEW from, NEW to, Helper(reset, from, to), from # "removing",
               UNCHANGED <<marker, doomed>>
        PROVE  PendingIsRemembered'
    <3>1. \A other \in 1..MaxResets : helpers[other].phase = "removing" =>
            helpers'[other] = helpers[other]
      BY <1>a, <2>2 DEF Helper
    <3> QED BY <2>2, <3>1 DEF PendingIsRemembered, Remembered
  <2>3. CASE ValidateMarker(reset) \/ WaitForParentExit(reset)
    BY <2>2, <2>3 DEF ValidateMarker, WaitForParentExit
  <2>4. CASE RemoveMarker(reset)
    <3>1. helpers'[reset].phase = "removing"
      BY <1>a, <2>4 DEF RemoveMarker, Helper, Helpers
    <3> QED BY <3>1 DEF PendingIsRemembered, Remembered
  <2>5. CASE RemoveProfile(reset)
    BY <2>5 DEF RemoveProfile, PendingIsRemembered
  <2>6. CASE RemovalEnds(reset)
    BY <2>6 DEF RemovalEnds, DatabaseIsThere, PendingIsRemembered
  <2>7. CASE RemovalFails(reset)
    <3>1. marker' # 0
      BY <2>7 DEF RemovalFails, WriteLocalDataResetMarker
    <3> QED BY <1>b, <3>1
  <2>8. CASE HelperKilled(reset)
    <3>1. Helper(reset, helpers[reset].phase, "none") /\ marker' = marker
      BY <2>8 DEF HelperKilled
    <3>2. CASE marker # 0
      BY <1>b, <3>1, <3>2
    <3>3. CASE marker = 0 /\ helpers[reset].phase = "removing"
      <4>1. doomed' = IF doomed = "yes" THEN "cut" ELSE doomed
        BY <2>8, <3>3 DEF HelperKilled
      <4> QED BY <4>1 DEF PendingIsRemembered
    <3>4. CASE marker = 0 /\ helpers[reset].phase # "removing"
      <4>1. doomed' = doomed
        BY <2>8, <3>4 DEF HelperKilled
      <4> QED BY <2>2, <3>1, <3>4, <4>1
    <3> QED BY <3>2, <3>3, <3>4
  <2> QED BY <2>1, <2>3, <2>4, <2>5, <2>6, <2>7, <2>8 DEF HelperSteps
<1>4. CASE RouteApplicationStart
  BY <1>1, <1>4, <1>c DEF RouteApplicationStart
<1>5. CASE RouterEnds
  <2>1. UNCHANGED <<marker, doomed>> /\ (Spawned(router.reset, router.pid) \/ helpers' = helpers)
    BY <1>5 DEF RouterEnds, history
  <2>2. helpers[router.reset].phase # "removing"
    BY <1>5 DEF RouterEnds, SpawnsAreNew
  <2> QED BY <1>2, <1>c, <2>1, <2>2
<1>6. CASE MarkReset
  BY <1>1, <1>6 DEF MarkReset
<1>7. CASE SpawnHelper
  <2>1. UNCHANGED <<marker, doomed>> /\ (Spawned(main.reset, main.pid) \/ helpers' = helpers)
    BY <1>7 DEF SpawnHelper, history
  <2>2. helpers[main.reset].phase # "removing"
    BY <1>7 DEF SpawnHelper, Continues, SpawnsAreNew
  <2> QED BY <1>2, <1>c, <2>1, <2>2
<1>8. CASE CallSteps /\ ~MarkReset /\ ~SpawnHelper
  <2>1. UNCHANGED <<marker, helpers, doomed>>
    BY <1>8 DEF CallSteps, SaveConsent, DeleteConsent, DeleteCredential, PersistReset, Throws, history
  <2> QED BY <1>c, <2>1
<1>9. CASE MainSteps \/ Quit \/ ProcessEnds \/ (UserSteps /\ ~Quit) \/ BallSteps \/ UNCHANGED vars
  <2>1. UNCHANGED <<marker, helpers, doomed>>
    <3>1. CASE MainSteps \/ Quit \/ ProcessEnds
      BY <3>1 DEF MainSteps, OpenDatabase, RunStorageMigrations, LoadSettings, WindowsStart, Dispose,
                  Exit, Quit, ProcessEnds, Main
    <3>2. CASE (UserSteps /\ ~Quit) \/ BallSteps \/ UNCHANGED vars
      BY <3>2 DEF UserSteps, SetSelectionEnabled, EnableTranslation, SaveBaiduCredentials,
         DeleteBaiduCredentials, ClearAllLocalData, Commanded, Uses, BallSteps, HandleBallMoved,
         SetEdgeSnap, ResetBallPosition, DisplayChanged, Moves, vars, history
    <3> QED BY <1>9, <3>1, <3>2
  <2> QED BY <1>c, <2>1
<1> QED BY <1>3, <1>4, <1>5, <1>6, <1>7, <1>8, <1>9 DEF Next, Crash

-----------------------------------------------------------------------------
(* A profile that a start cannot go online with (UiShellState.initialize): *)
(* switched off, without consent or without credentials.                   *)
IsOff(profile) ==
  \/ profile.settings["enabled"] # "on" \/ profile.settings["consent"] # "on"
  \/ ~profile.credential

(* What keeps translation off after the user has withdrawn: the profile    *)
(* has it off, a shell that has loaded it shows it off, a save would clear *)
(* the withdrawal, and a deletion under way has switched it off.           *)
StaysOff ==
  /\ withdrawn => IsOff(stored)
  /\ withdrawn /\ (main.start = "windows" \/ main.ready) => ~shown.enabled
  /\ call = "save" => ~withdrawn
  /\ call \notin {"none", "save"} => ~shown.enabled

(* Translation is off after a start from a profile that has it off.        *)
LEMMA OffIsRead ==
  ASSUME NEW profile \in Profiles, IsOff(profile), NEW status \in Statuses,
         status = "configured" => profile.credential
  PROVE  ~Initialized(LoadPhase4(profile), status).enabled
<1>1. \A key \in Phase4Keys : profile.settings[key] # "on" => ~ReadValidated(profile, key)
  <2> TAKE key \in Phase4Keys
  <2> HAVE profile.settings[key] # "on"
  <2>1. ~Defaults[key]
    <3>1. key \in Keys /\ key \notin Phase2Keys \cup Phase3Keys
      BY DEF Keys, Phase2Keys, Phase3Keys, Phase4Keys
    <3>2. Defaults[key] = (key \in Phase2Keys \cup Phase3Keys)
      BY <3>1, Zenon DEF Defaults
    <3> QED BY <3>1, <3>2
  <2> QED BY <2>1 DEF ReadValidated
<1>2. \A key \in Phase4Keys : ReadValidated(profile, key) \in BOOLEAN
  <2> TAKE key \in Phase4Keys
  <2>1. Defaults[key] \in BOOLEAN
    BY DEF Defaults, Keys
  <2> QED BY <2>1 DEF ReadValidated
<1>3. Initialized(LoadPhase4(profile), status).enabled =
        (ReadValidated(profile, "enabled") /\ status = "configured"
         /\ ReadValidated(profile, "consent"))
  BY DEF Initialized, State, LoadPhase4, LoadPhase3
<1>4. "enabled" \in Phase4Keys /\ "consent" \in Phase4Keys
  BY DEF Phase4Keys
<1>5. \/ ~ReadValidated(profile, "enabled") \/ ~ReadValidated(profile, "consent")
      \/ status # "configured"
  BY <1>1, <1>4 DEF IsOff
<1> QED BY <1>2, <1>3, <1>4, <1>5

(* What was written is read.                                               *)
LEMMA WrittenIsRead ==
  ASSUME NEW profile \in Profiles, NEW values, NEW key \in Keys
  PROVE  Written(profile, values).settings[key] =
           IF key \in DOMAIN values THEN values[key] ELSE profile.settings[key]
BY DEF Written, Profiles

(* A write that switches translation off, or has nothing to do with it,    *)
(* keeps it off.                                                           *)
LEMMA WritesStayOff ==
  ASSUME stored \in Profiles
  PROVE  /\ \A key, value : key \notin {"enabled", "consent"} /\ IsOff(stored) => IsOff(Set(key, value))
         /\ IsOff(Set("enabled", "off")) /\ IsOff(Set("consent", "absent"))
         /\ IsOff([stored EXCEPT !.credential = FALSE])
         /\ \A profile \in Profiles : \A anchor : IsOff(profile) => IsOff([profile EXCEPT !.anchor = anchor])
<1>1. "enabled" \in Keys /\ "consent" \in Keys
  BY DEF Keys, Phase4Keys
<1>2. ASSUME NEW key, NEW value
      PROVE  /\ Set(key, value).settings["enabled"] = IF key = "enabled" THEN value ELSE stored.settings["enabled"]
             /\ Set(key, value).settings["consent"] = IF key = "consent" THEN value ELSE stored.settings["consent"]
             /\ Set(key, value).credential = stored.credential
  BY <1>1, WrittenIsRead, WrittenKeepsRest DEF Set
<1>3. \A key, value : key \notin {"enabled", "consent"} /\ IsOff(stored) => IsOff(Set(key, value))
  BY <1>2 DEF IsOff
<1>4. IsOff(Set("enabled", "off")) /\ IsOff(Set("consent", "absent"))
  BY <1>2 DEF IsOff
<1>5. IsOff([stored EXCEPT !.credential = FALSE])
  BY DEF IsOff, Profiles
<1>6. \A profile \in Profiles : \A anchor : IsOff(profile) => IsOff([profile EXCEPT !.anchor = anchor])
  BY DEF IsOff, Profiles
<1> QED BY <1>3, <1>4, <1>5, <1>6

(* A new profile has it off.                                               *)
LEMMA NewProfilesAreOff == IsOff(EmptyProfile) /\ IsOff(NoProfile)
<1>1. "enabled" \in Keys
  BY DEF Keys, Phase4Keys
<1>2. EmptyProfile.settings["enabled"] = "absent" /\ NoProfile.settings["enabled"] = "absent"
  BY <1>1 DEF EmptyProfile, NoProfile
<1> QED BY <1>2 DEF IsOff

(* Translation stays off over a start and an end of the application,       *)
LEMMA StartStaysOff ==
  ASSUME TypeOK, Phases, StaysOff, MainSteps \/ Quit \/ ProcessEnds
  PROVE  StaysOff'
<1>a. stored \in Profiles /\ main \in Processes /\ shown \in States
  BY DEF TypeOK
<1>b. DefaultState.enabled = FALSE
  BY ProfilesAreTyped, NewProfilesAreOff, OffIsRead DEF DefaultState, Statuses
<1>c. ASSUME UNCHANGED <<shown, call, withdrawn>>, IsOff(stored) => IsOff(stored'),
             main'.start = "windows" \/ main'.ready => main.start = "windows" \/ main.ready
      PROVE  StaysOff'
  BY <1>c DEF StaysOff
<1>1. CASE OpenDatabase
  <2>1. IsOff(stored) => IsOff(stored')
    BY <1>1, NewProfilesAreOff DEF OpenDatabase
  <2>2. /\ main'.start # "windows" /\ ~main'.ready /\ UNCHANGED <<call, withdrawn>>
        /\ (call = "none")
    BY <1>a, <1>1 DEF OpenDatabase, Main, Phases, Processes
  <2> QED BY <2>1, <2>2 DEF StaysOff
<1>2. CASE RunStorageMigrations
  <2>1. IsOff(stored) => IsOff([stored EXCEPT !.version = KnownVersion])
    BY <1>a DEF IsOff, Profiles
  <2>2. /\ main'.start # "windows" /\ ~main'.ready /\ UNCHANGED <<shown, call, withdrawn>>
    BY <1>a, <1>2 DEF RunStorageMigrations, Main, Failed, RequestShutdown, Phases, Processes
  <2> QED BY <1>2, <1>c, <2>1, <2>2 DEF RunStorageMigrations
<1>3. CASE LoadSettings
  <2>1. UNCHANGED <<call, withdrawn>> /\ call = "none" /\ ~main.ready /\ main.start = "status"
    BY <1>3 DEF LoadSettings, Main, Phases
  <2>2. CASE ~main.open
    <3>1. UNCHANGED <<stored, shown>> /\ main' = Failed
      BY <1>3, <2>2 DEF LoadSettings, Main
    <3>2. main'.start # "windows" /\ ~main'.ready
      BY <1>a, <2>1, <3>1 DEF Failed, RequestShutdown, Processes
    <3> QED BY <1>c, <2>1, <3>1, <3>2
  <2>3. CASE main.open
    <3>1. /\ stored' \in {stored, [stored EXCEPT !.anchor = shown'.anchor]}
          /\ \E status \in (IF stored.credential THEN {"configured", "unavailable"} ELSE {"missing"}),
                anchor \in StartAnchors :
               shown' = [Initialized(LoadPhase4(stored), status) EXCEPT !.anchor = anchor]
      BY <1>3, <2>3 DEF LoadSettings
    <3>2. PICK status \in Statuses, anchor \in StartAnchors :
            /\ status = "configured" => stored.credential
            /\ shown' = [Initialized(LoadPhase4(stored), status) EXCEPT !.anchor = anchor]
      BY <3>1 DEF Statuses
    <3>3. Initialized(LoadPhase4(stored), status) \in States
      BY <1>a, <3>2, LoadedIsTyped
    <3>4. shown'.enabled = Initialized(LoadPhase4(stored), status).enabled
      BY <3>2, <3>3 DEF States
    <3>5. IsOff(stored) => ~shown'.enabled
      BY <1>a, <3>2, <3>4, OffIsRead
    <3>6. IsOff(stored) => IsOff(stored')
      BY <1>a, <3>1, WritesStayOff
    <3> QED BY <2>1, <3>5, <3>6 DEF StaysOff
  <2> QED BY <2>2, <2>3
<1>4. CASE WindowsStart
  <2>1. UNCHANGED <<stored, shown, call, withdrawn>> /\ main.start = "windows"
    BY <1>4 DEF WindowsStart, Main
  <2> QED BY <1>c, <2>1
<1>5. CASE Dispose \/ Quit
  <2>1. UNCHANGED <<stored, shown, call, withdrawn>>
    BY <1>5 DEF Dispose, Quit, Main
  <2>2. main'.start = "windows" \/ main'.ready => main.start = "windows" \/ main.ready
    <3>1. CASE Dispose
      BY <1>a, <3>1 DEF Dispose, Main, Processes
    <3>2. CASE Quit
      BY <1>a, <3>2 DEF Quit, Main, RequestShutdown, Processes
    <3> QED BY <1>5, <3>1, <3>2
  <2> QED BY <1>c, <2>1, <2>2
<1>6. CASE ProcessEnds
  BY <1>b, <1>6 DEF ProcessEnds, StaysOff
<1> QED BY <1>1, <1>2, <1>3, <1>4, <1>5, <1>6 DEF MainSteps, Exit

(* over the calls of the settings page,                                    *)
LEMMA CommandsStayOff ==
  ASSUME TypeOK, Phases, StaysOff, (UserSteps /\ ~Quit) \/ CallSteps
  PROVE  StaysOff'
<1>a. stored \in Profiles /\ main \in Processes /\ shown \in States
  BY DEF TypeOK
<1>1. CASE SetSelectionEnabled
  <2>1. IsOff(stored) => IsOff(stored')
    BY <1>a, <1>1, WritesStayOff DEF SetSelectionEnabled
  <2>2. shown'.enabled = shown.enabled
    BY <1>a, <1>1 DEF SetSelectionEnabled, States
  <2>3. UNCHANGED <<main, call, withdrawn>>
    BY <1>1 DEF SetSelectionEnabled, Commanded, Uses
  <2> QED BY <2>1, <2>2, <2>3 DEF StaysOff
<1>2. CASE EnableTranslation
  <2>1. call' = "none" /\ withdrawn' = FALSE
    BY <1>2 DEF EnableTranslation, Commanded
  <2> QED BY <2>1 DEF StaysOff
<1>3. CASE SaveBaiduCredentials
  <2>1. call' = "save" /\ withdrawn' = FALSE
    BY <1>3 DEF SaveBaiduCredentials
  <2> QED BY <2>1 DEF StaysOff
<1>4. CASE DeleteBaiduCredentials
  <2>1. shown' = Closed(shown) /\ call' = "delete consent"
    BY <1>4 DEF DeleteBaiduCredentials
  <2>2. shown'.enabled = FALSE
    BY <1>a, <2>1 DEF Closed, States
  <2>3. withdrawn' => IsOff(stored')
    BY <1>a, <1>4, WritesStayOff DEF DeleteBaiduCredentials, StaysOff
  <2> QED BY <2>1, <2>2, <2>3 DEF StaysOff
<1>5. CASE ClearAllLocalData
  <2>1. shown' = [Closed(shown) EXCEPT !.selection = FALSE] /\ call' = "stop host"
        /\ UNCHANGED <<stored, withdrawn>>
    BY <1>5 DEF ClearAllLocalData
  <2>2. shown'.enabled = FALSE
    BY <1>a, <2>1 DEF Closed, States
  <2> QED BY <2>1, <2>2 DEF StaysOff
<1>6. CASE SaveConsent
  <2>1. call = "save" /\ call' = "none" /\ withdrawn' = withdrawn
    BY <1>6 DEF SaveConsent, Continues, Throws, history
  <2> QED BY <2>1 DEF StaysOff
<1>7. CASE DeleteConsent
  <2>1. call = "delete consent" /\ call' = "delete credential" /\ UNCHANGED <<main, shown>>
    BY <1>7 DEF DeleteConsent, Continues
  <2>2. withdrawn' => IsOff(stored')
    BY <1>a, <1>7, WritesStayOff DEF DeleteConsent, StaysOff
  <2> QED BY <2>1, <2>2 DEF StaysOff
<1>8. CASE DeleteCredential
  <2>1. call = "delete credential" /\ call' = "none" /\ main' = main
    BY <1>8 DEF DeleteCredential, Continues
  <2>2. withdrawn' => IsOff(stored')
    BY <1>a, <1>8, WritesStayOff DEF DeleteCredential, StaysOff
  <2>3. shown'.enabled = shown.enabled
    BY <1>a, <1>8 DEF DeleteCredential, States
  <2> QED BY <2>1, <2>2, <2>3 DEF StaysOff
<1>9. CASE PersistReset
  <2>1. call = "stop host"
    BY <1>9 DEF PersistReset, Continues
  <2>2. CASE Throws
    BY <2>1, <2>2 DEF Throws, history, StaysOff
  <2>3. CASE ~Throws
    <3> DEFINE values(done) == [key \in done \cap Keys |-> IF key = "consent" THEN "absent" ELSE "off"]
    <3>1. PICK done \in SUBSET (Phase3Keys \cup Phase4Keys \cup {"credential"}) :
            /\ stored' = [Written(stored, values(done)) EXCEPT !.credential = @ /\ "credential" \notin done]
            /\ shown' = [shown EXCEPT !.status =
                           IF "credential" \in done THEN "missing" ELSE "unavailable"]
            /\ withdrawn' = (withdrawn \/ done \ Phase3Keys # {})
            /\ call' = "schedule"
            /\ UNCHANGED <<marker, helpers, main, router, resets, doomed>>
      BY <1>9, <2>3 DEF PersistReset
    <3> DEFINE written == Written(stored, values(done))
    <3>2. written \in Profiles
      BY <1>a, WrittenIsTyped DEF Values
    <3>3. /\ "enabled" \in Keys /\ "consent" \in Keys /\ "credential" \notin Keys
      BY DEF Keys, Phase2Keys, Phase3Keys, Phase4Keys
    <3>4. /\ written.settings["enabled"] = IF "enabled" \in done THEN "off" ELSE stored.settings["enabled"]
          /\ written.settings["consent"] = IF "consent" \in done THEN "absent" ELSE stored.settings["consent"]
          /\ written.credential = stored.credential
      <4>1. DOMAIN values(done) = done \cap Keys
        OBVIOUS
      <4>2. \A key \in done \cap Keys : values(done)[key] = IF key = "consent" THEN "absent" ELSE "off"
        OBVIOUS
      <4> HIDE DEF values
      <4> QED BY <1>a, <3>3, <4>1, <4>2, WrittenIsRead, WrittenKeepsRest
    <3> HIDE DEF written
    <3>5. stored' = [written EXCEPT !.credential = @ /\ "credential" \notin done]
      BY <3>1 DEF written
    <3>6. /\ stored'.settings = written.settings
          /\ stored'.credential = (written.credential /\ "credential" \notin done)
      BY <3>2, <3>5 DEF Profiles
    <3>7. IsOff(stored) => IsOff(stored')
      BY <3>4, <3>6 DEF IsOff
    <3>8. "enabled" \in done \/ "consent" \in done \/ "credential" \in done => IsOff(stored')
      BY <3>4, <3>6 DEF IsOff
    <3>9. done \ Phase3Keys # {} => "enabled" \in done \/ "consent" \in done \/ "credential" \in done
      BY <3>1 DEF Phase4Keys
    <3>10. withdrawn' => IsOff(stored')
      BY <3>1, <3>7, <3>8, <3>9 DEF StaysOff
    <3>11. shown'.enabled = shown.enabled
      BY <1>a, <3>1 DEF States
    <3> QED BY <2>1, <3>1, <3>10, <3>11 DEF StaysOff
  <2> QED BY <2>2, <2>3
<1>10. CASE MarkReset
  <2>1. call = "schedule" /\ call' = "spawn" /\ UNCHANGED <<stored, shown, withdrawn>>
    BY <1>10 DEF MarkReset, Continues
  <2> QED BY <2>1 DEF StaysOff
<1>11. CASE SpawnHelper
  <2>1. call = "spawn" /\ call' = "none" /\ UNCHANGED <<stored, shown, withdrawn>>
    BY <1>11 DEF SpawnHelper, Continues, history
  <2> QED BY <2>1 DEF StaysOff
<1> QED BY <1>1, <1>2, <1>3, <1>4, <1>5, <1>6, <1>7, <1>8, <1>9, <1>10, <1>11 DEF UserSteps, CallSteps

(* and over every other step.                                              *)
LEMMA StaysOffStep ==
  ASSUME TypeOK, Phases, StaysOff, [Next]_vars PROVE StaysOff'
<1>a. stored \in Profiles /\ main \in Processes /\ shown \in States
  BY DEF TypeOK
<1>b. ASSUME UNCHANGED <<call, withdrawn>>, shown'.enabled = shown.enabled, IsOff(stored) => IsOff(stored'),
             main'.start = "windows" \/ main'.ready => main.start = "windows" \/ main.ready
      PROVE  StaysOff'
  BY <1>b DEF StaysOff
<1>1. CASE RouteApplicationStart
  <2>1. UNCHANGED <<call, withdrawn, shown, stored>>
    BY <1>1 DEF RouteApplicationStart
  <2>2. main'.start = "windows" \/ main'.ready => main.start = "windows" \/ main.ready
    BY <1>a, <1>1 DEF RouteApplicationStart, HandleSecondInstance, Off, Processes
  <2> QED BY <1>b, <2>1, <2>2
<1>2. CASE RouterEnds \/ UNCHANGED vars
  <2>1. UNCHANGED <<call, withdrawn, shown, stored, main>>
    BY <1>2 DEF RouterEnds, vars, history
  <2> QED BY <1>b, <2>1
<1>3. CASE \E reset \in 1..MaxResets : HelperSteps(reset)
  <2>1. UNCHANGED <<call, withdrawn, shown, main>> /\ stored' \in {stored, NoProfile}
    BY <1>3 DEF HelperSteps, ValidateMarker, WaitForParentExit, RemoveMarker, RemoveProfile,
         RemovalEnds, RemovalFails, HelperKilled, Helper
  <2> QED BY <1>b, <2>1, NewProfilesAreOff
<1>4. CASE BallSteps
  <2>1. UNCHANGED <<call, withdrawn, main>>
    BY <1>4 DEF BallSteps, HandleBallMoved, SetEdgeSnap, ResetBallPosition, DisplayChanged,
         RecoverBallPosition, Moves, Place, Uses
  <2>2. shown'.enabled = shown.enabled
    BY <1>a, <1>4 DEF BallSteps, HandleBallMoved, SetEdgeSnap, ResetBallPosition, DisplayChanged,
         RecoverBallPosition, Place, States
  <2>3. IsOff(stored) => IsOff(stored')
    <3>1. CASE SetEdgeSnap
      <4> DEFINE value == IF ~shown.edgeSnap THEN "on" ELSE "off"
      <4> DEFINE anchor == DeriveBallPlacement(window, displays, ~shown.edgeSnap).anchor
      <4>1. stored' \in {Set("edgeSnap", value), [Set("edgeSnap", value) EXCEPT !.anchor = anchor]}
        BY <3>1 DEF SetEdgeSnap
      <4>2. value \in Values
        BY DEF Values
      <4> HIDE DEF value, anchor
      <4>3. Set("edgeSnap", value) \in Profiles
        BY <1>a, <4>2, SetIsTyped
      <4>4. IsOff(stored) => IsOff(Set("edgeSnap", value))
        BY <1>a, WritesStayOff
      <4> QED BY <1>a, <4>1, <4>3, <4>4, WritesStayOff
    <3>2. CASE ~SetEdgeSnap
      <4>1. stored' = stored \/ \E anchor : stored' = [stored EXCEPT !.anchor = anchor]
        BY <1>4, <3>2 DEF BallSteps, HandleBallMoved, ResetBallPosition, DisplayChanged,
             RecoverBallPosition, Place
      <4> QED BY <1>a, <4>1, WritesStayOff
    <3> QED BY <3>1, <3>2
  <2> QED BY <1>b, <2>1, <2>2, <2>3
<1> QED BY <1>1, <1>2, <1>3, <1>4, StartStaysOff, CommandsStayOff DEF Next, Crash

-----------------------------------------------------------------------------
(* Every display has room for the ball and its margins.                    *)
BallFits == \A layout \in Layouts : \A display \in Range(layout) : Roomy(display.workArea)

(* No two work areas of a layout share a point: the displays of a desktop  *)
(* are side by side.                                                       *)
SideBySide == \A layout \in Layouts : \A i, j \in DOMAIN layout :
                i # j => Apart(layout[i].workArea, layout[j].workArea)

(* The bounds fit on one of the displays, at its edge if the ball is to    *)
(* snap.                                                                   *)
InPlace(bounds, edgeSnap, layout) ==
  \E display \in Range(layout) :
    /\ Fits(bounds, display.workArea)
    /\ edgeSnap => bounds.x \in {LeftX(display.workArea), RightX(display.workArea)}

(* The ball is in place once the windows load, unless a change of the      *)
(* displays was missed: the inductive half of BallIsInPlace, which looks   *)
(* at the display nearest to the ball.                                     *)
BallIsPut ==
  (main.start = "windows" \/ main.ready) /\ ~missed => InPlace(window, shown.edgeSnap, displays)

(* The ball is in place where it is dragged to,                            *)
LEMMA DraggedIsInPlace ==
  ASSUME BallFits, NEW layout \in Layouts, NEW requested \in Areas, NEW edgeSnap \in BOOLEAN
  PROVE  InPlace(DeriveBallPlacement(requested, layout, edgeSnap).bounds, edgeSnap, layout)
<1> DEFINE display == FindNearestDisplay(requested, layout)
<1>1. display \in Range(layout)
  BY NearestDisplayIsThere
<1>2. Roomy(display.workArea) /\ requested \in Requests
  BY <1>1 DEF BallFits, Areas, Requests
<1> HIDE DEF display
<1>3. /\ Fits(PlaceOn(display, requested, edgeSnap).bounds, display.workArea)
      /\ edgeSnap => PlaceOn(display, requested, edgeSnap).bounds.x
                       \in {LeftX(display.workArea), RightX(display.workArea)}
  BY <1>2, PlacementFits
<1> QED BY <1>1, <1>3 DEF InPlace, DeriveBallPlacement, display

(* and where an anchor that the settings accept puts it back.              *)
LEMMA RestoredIsInPlace ==
  ASSUME BallFits, NEW layout \in Layouts, NEW anchor \in Anchors, IsBallAnchor(anchor),
         NEW edgeSnap \in BOOLEAN
  PROVE  InPlace(ResolveBallBounds(anchor, layout), edgeSnap, layout)
<1> DEFINE display == FindDisplay(anchor, layout)
<1>1. display \in Range(layout)
  BY FindDisplayIsThere
<1>2. Roomy(display.workArea) /\ anchor.verticalRatio.n <= anchor.verticalRatio.d
  BY <1>1 DEF BallFits, IsBallAnchor
<1>3. anchor # NoAnchor
  BY DEF IsBallAnchor, NoAnchor
<1>4. ResolveBallBounds(anchor, layout) = ResolveOn(display.workArea, anchor)
  BY <1>3 DEF ResolveBallBounds
<1> HIDE DEF display
<1> QED BY <1>1, <1>2, <1>4, RestorationFits DEF InPlace

(* It stays in place over every step.                                      *)
LEMMA BallStep ==
  ASSUME BallFits, TypeOK, Phases, BallIsPut, [Next]_vars PROVE BallIsPut'
<1>a. /\ stored \in Profiles /\ main \in Processes /\ shown \in States /\ window \in Areas
      /\ displays \in Layouts /\ missed \in BOOLEAN
      /\ shown.anchor \in Anchors /\ shown.edgeSnap \in BOOLEAN
  BY DEF TypeOK, States
<1>b. CASE InPlace(window', shown'.edgeSnap, displays')
  BY <1>b DEF BallIsPut
<1>c. CASE main'.start # "windows" /\ ~main'.ready
  BY <1>c DEF BallIsPut
<1>d. CASE /\ UNCHANGED ball /\ shown'.edgeSnap = shown.edgeSnap
           /\ main'.start = "windows" \/ main'.ready => main.start = "windows" \/ main.ready
  BY <1>d DEF BallIsPut, ball
<1>1. CASE OpenDatabase
  <2>1. main'.start # "windows" /\ ~main'.ready
    BY <1>a, <1>1 DEF OpenDatabase, Main, Phases, Processes
  <2> QED BY <1>c, <2>1
<1>2. CASE RunStorageMigrations
  <2>1. main'.start # "windows" /\ ~main'.ready
    BY <1>a, <1>2 DEF RunStorageMigrations, Main, Failed, RequestShutdown, Phases, Processes
  <2> QED BY <1>c, <2>1
<1>3. CASE LoadSettings
  <2>1. main.start = "status" /\ ~main.ready /\ displays' = displays
    BY <1>3 DEF LoadSettings, Main, Phases
  <2>2. CASE ~main.open
    <3>1. main' = Failed
      BY <1>3, <2>2 DEF LoadSettings, Main
    <3>2. main'.start # "windows" /\ ~main'.ready
      BY <1>a, <2>1, <3>1 DEF Failed, RequestShutdown, Processes
    <3> QED BY <1>c, <3>2
  <2>3. CASE main.open /\ main.shutdown # "no"
    <3>1. main' = [main EXCEPT !.start = "over"]
      BY <1>3, <2>3 DEF LoadSettings, Main
    <3>2. main'.start # "windows" /\ ~main'.ready
      BY <1>a, <2>1, <3>1 DEF Processes
    <3> QED BY <1>c, <3>2
  <2>4. CASE main.open /\ main.shutdown = "no"
    <3>1. /\ \E status \in (IF stored.credential THEN {"configured", "unavailable"} ELSE {"missing"}),
                anchor \in StartAnchors :
               shown' = [Initialized(LoadPhase4(stored), status) EXCEPT !.anchor = anchor]
          /\ window' = ResolveBallBounds(shown'.anchor, displays)
      BY <1>3, <2>4 DEF LoadSettings
    <3>2. PICK status \in Statuses, anchor \in StartAnchors :
            shown' = [Initialized(LoadPhase4(stored), status) EXCEPT !.anchor = anchor]
      BY <3>1 DEF Statuses
    <3>3. anchor \in Anchors /\ IsBallAnchor(anchor)
      BY <1>a, <3>2, StartAnchorsAreValid
    <3>4. Initialized(LoadPhase4(stored), status) \in States
      BY <1>a, <3>2, LoadedIsTyped
    <3>5. shown'.anchor = anchor /\ shown'.edgeSnap \in BOOLEAN
      BY <3>2, <3>4 DEF States
    <3> QED BY <1>a, <1>b, <2>1, <3>1, <3>3, <3>5, RestoredIsInPlace
  <2> QED BY <2>2, <2>3, <2>4
<1>4. CASE WindowsStart
  <2>1. main.start = "windows" /\ UNCHANGED <<shown, window, missed, displays>>
    BY <1>4 DEF WindowsStart, Main
  <2> QED BY <1>d, <2>1 DEF ball
<1>5. CASE Dispose \/ Quit
  <2>1. UNCHANGED <<shown, window, missed, displays>>
    BY <1>5 DEF Dispose, Quit, Main
  <2>2. main'.start = "windows" \/ main'.ready => main.start = "windows" \/ main.ready
    <3>1. CASE Dispose
      BY <1>a, <3>1 DEF Dispose, Main, Processes
    <3>2. CASE Quit
      BY <1>a, <3>2 DEF Quit, Main, RequestShutdown, Processes
    <3> QED BY <1>5, <3>1, <3>2
  <2> QED BY <1>d, <2>1, <2>2 DEF ball
<1>6. CASE ProcessEnds
  <2>1. main'.start # "windows" /\ ~main'.ready
    BY <1>6 DEF ProcessEnds, Off
  <2> QED BY <1>c, <2>1
<1>7. CASE RouteApplicationStart
  <2>1. UNCHANGED ball /\ shown' = shown
    BY <1>7 DEF RouteApplicationStart
  <2>2. main'.start = "windows" \/ main'.ready => main.start = "windows" \/ main.ready
    BY <1>a, <1>7 DEF RouteApplicationStart, HandleSecondInstance, Off, Processes
  <2> QED BY <1>d, <2>1, <2>2
<1>8. CASE UserSteps /\ ~Quit
  <2>1. UNCHANGED <<ball, main>>
    BY <1>8 DEF UserSteps, SetSelectionEnabled, EnableTranslation, SaveBaiduCredentials,
         DeleteBaiduCredentials, ClearAllLocalData, Commanded, Uses
  <2>2. shown'.edgeSnap = shown.edgeSnap
    BY <1>a, <1>8 DEF UserSteps, SetSelectionEnabled, EnableTranslation, SaveBaiduCredentials,
         DeleteBaiduCredentials, ClearAllLocalData, Closed, States
  <2> QED BY <1>d, <2>1, <2>2
<1>9. CASE CallSteps
  <2>1. UNCHANGED ball
    BY <1>9 DEF CallSteps, SaveConsent, DeleteConsent, DeleteCredential, PersistReset, MarkReset,
         SpawnHelper, Continues
  <2>2. shown'.edgeSnap = shown.edgeSnap
    BY <1>a, <1>9 DEF CallSteps, SaveConsent, DeleteConsent, DeleteCredential, PersistReset,
         MarkReset, SpawnHelper, Throws, States
  <2>3. main'.start = "windows" \/ main'.ready => main.start = "windows" \/ main.ready
    BY <1>a, <1>9 DEF CallSteps, SaveConsent, DeleteConsent, DeleteCredential, PersistReset,
         MarkReset, SpawnHelper, Throws, RequestShutdown, Processes
  <2> QED BY <1>d, <2>1, <2>2, <2>3
<1>10. CASE RouterEnds \/ UNCHANGED vars
  <2>1. UNCHANGED <<ball, main, shown>>
    BY <1>10 DEF RouterEnds, vars
  <2> QED BY <1>d, <2>1
<1>11. CASE \E reset \in 1..MaxResets : HelperSteps(reset)
  <2>1. UNCHANGED <<ball, main, shown>>
    BY <1>11 DEF HelperSteps, ValidateMarker, WaitForParentExit, RemoveMarker, RemoveProfile,
         RemovalEnds, RemovalFails, HelperKilled, Helper
  <2> QED BY <1>d, <2>1
<1>12. CASE \E requested \in Drags : HandleBallMoved(requested)
  <2>1. PICK requested \in Drags : HandleBallMoved(requested)
    BY <1>12
  <2>2. requested \in Areas
    BY <2>1, ConstantsAssumption
  <2>3. /\ window' = DeriveBallPlacement(requested, displays, shown.edgeSnap).bounds
        /\ displays' = displays
    BY <2>1 DEF HandleBallMoved, Place
  <2>4. shown'.edgeSnap = shown.edgeSnap
    BY <1>a, <2>1 DEF HandleBallMoved, Place, States
  <2> QED BY <1>a, <1>b, <2>2, <2>3, <2>4, DraggedIsInPlace
<1>13. CASE SetEdgeSnap
  <2>1. /\ window' = DeriveBallPlacement(window, displays, ~shown.edgeSnap).bounds
        /\ displays' = displays
    BY <1>13 DEF SetEdgeSnap, Moves
  <2>2. shown'.edgeSnap = ~shown.edgeSnap
    BY <1>a, <1>13 DEF SetEdgeSnap, States
  <2>3. (~shown.edgeSnap) \in BOOLEAN
    OBVIOUS
  <2>4. InPlace(window', ~shown.edgeSnap, displays)
    BY <1>a, <2>1, <2>3, DraggedIsInPlace
  <2> QED BY <1>b, <2>1, <2>2, <2>4
<1>14. CASE ResetBallPosition
  <2>1. PICK i \in DOMAIN displays :
          LET anchor == CreateDefaultBallAnchor(displays[i])
          IN  /\ Moves
              /\ window' = ResolveBallBounds(anchor, displays)
              /\ shown' = [shown EXCEPT !.anchor = anchor]
              /\ stored' = [stored EXCEPT !.anchor = anchor]
    BY <1>14 DEF ResetBallPosition
  <2> DEFINE anchor == CreateDefaultBallAnchor(displays[i])
  <2>2. displays[i] \in Range(displays)
    BY DEF Range
  <2>3. anchor \in Anchors /\ IsBallAnchor(anchor)
    BY <1>a, <2>2, DisplaysAreTyped, DefaultAnchorIsValid
  <2>4. /\ window' = ResolveBallBounds(anchor, displays)
        /\ shown' = [shown EXCEPT !.anchor = anchor]
        /\ displays' = displays
    BY <2>1 DEF Moves
  <2> HIDE DEF anchor
  <2>5. shown'.edgeSnap = shown.edgeSnap
    BY <1>a, <2>4 DEF States
  <2> QED BY <1>a, <1>b, <2>3, <2>4, <2>5, RestoredIsInPlace
<1>15. CASE \E layout \in Layouts : DisplayChanged(layout)
  <2>1. PICK layout \in Layouts : DisplayChanged(layout)
    BY <1>15
  <2>2. main' = main /\ displays' = layout
    BY <2>1 DEF DisplayChanged, Uses
  <2>3. CASE main.ready
    <3> DEFINE resolved == ResolveBallBounds(shown.anchor, layout)
    <3>1. resolved \in Areas
      BY <1>a, RestoringIsTyped
    <3>2. window' = DeriveBallPlacement(resolved, layout, shown.edgeSnap).bounds
      BY <2>1, <2>3 DEF DisplayChanged, RecoverBallPosition, Place
    <3>3. shown'.edgeSnap = shown.edgeSnap
      BY <1>a, <2>1, <2>3 DEF DisplayChanged, RecoverBallPosition, Place, States
    <3> HIDE DEF resolved
    <3> QED BY <1>a, <1>b, <2>2, <3>1, <3>2, <3>3, DraggedIsInPlace
  <2>4. CASE ~main.ready
    <3>1. missed' = (missed \/ main.start = "windows")
      BY <2>1, <2>4 DEF DisplayChanged
    <3> QED BY <1>a, <2>2, <2>4, <3>1 DEF BallIsPut
  <2> QED BY <2>3, <2>4
<1> QED BY <1>1, <1>2, <1>3, <1>4, <1>5, <1>6, <1>7, <1>8, <1>9, <1>10, <1>11, <1>12, <1>13, <1>14,
           <1>15 DEF Next, MainSteps, BallSteps, Exit, Crash

-----------------------------------------------------------------------------
(* The inductive invariant: what is on disk, in the shell and in the       *)
(* helpers fits together.                                                  *)
DataInv == TypeOK /\ Phases /\ DatabaseIsThere /\ SpawnsAreNew /\ StaysOff

(* It holds initially, as do the two conjuncts that need hypotheses,       *)
LEMMA DataStarts == Init => DataInv /\ PendingIsRemembered /\ BallIsPut
<1> SUFFICES ASSUME Init PROVE DataInv /\ PendingIsRemembered /\ BallIsPut
  OBVIOUS
<1>1. TypeOK
  BY Typed
<1>2. main = Off /\ router = NoRouter /\ call = "none" /\ doomed = "no" /\ withdrawn = FALSE
      /\ helpers = [reset \in 1..MaxResets |-> NoHelper]
  BY DEF Init
<1>3. Phases /\ StaysOff /\ SpawnsAreNew /\ PendingIsRemembered /\ BallIsPut
  BY <1>2 DEF Phases, StaysOff, SpawnsAreNew, PendingIsRemembered, BallIsPut, Off, NoHelper
<1>4. DatabaseIsThere
  <2>1. CASE stored = NoProfile
    BY <1>2, <2>1 DEF DatabaseIsThere, Off
  <2>2. CASE stored # NoProfile
    <3>1. stored.version \in {KnownVersion, KnownVersion + 1}
      BY <2>2 DEF Init
    <3> QED BY <2>2, <3>1 DEF DatabaseIsThere, KnownVersion
  <2> QED BY <2>1, <2>2
<1> QED BY <1>1, <1>3, <1>4 DEF DataInv

(* and in every state.                                                     *)
LEMMA DataInvariance == Spec => []DataInv
<1>1. Init => DataInv
  BY DataStarts
<1>2. DataInv /\ [Next]_vars => DataInv'
  BY TypeStep, PhasesStep, DatabaseStep, SpawnsStep, StaysOffStep DEF DataInv
<1> QED BY <1>1, <1>2, PTL DEF Spec

(* A reset that was scheduled is not forgotten while its data are there,   *)
(* for any number of starts and resets, whichever processes and helpers    *)
(* are killed between any two steps (performClearAllLocalData,             *)
(* runLocalDataResetHelper): SpawnsAreNew gives each of them a helper of   *)
(* its own.  What a helper that was killed after it took the marker leaves *)
(* behind is forgotten, until another reset is scheduled                   *)
(* (InterruptedIsRemembered).                                              *)
THEOREM ResetsAreRemembered == Spec => []ResetIsRemembered
<1>1. DataInv /\ PendingIsRemembered /\ [Next]_vars => PendingIsRemembered'
  BY PendingStep DEF DataInv
<1>2. Init => PendingIsRemembered
  BY DataStarts
<1>3. DataInv /\ PendingIsRemembered => ResetIsRemembered
  BY DEF DataInv, ResetIsRemembered
<1> QED BY <1>1, <1>2, <1>3, DataInvariance, PTL DEF Spec

(* After the user has withdrawn and one of the writes went through, the    *)
(* application is not online until the user enables translation again,     *)
(* over failed writes, crashes and restarts (deleteBaiduCredentials,       *)
(* performClearAllLocalData, UiShellState.initialize).                     *)
THEOREM WithdrawnStaysOffline == Spec => []WithdrawnIsOffline
<1>1. DataInv => WithdrawnIsOffline
  <2> SUFFICES ASSUME DataInv, withdrawn PROVE WithdrawnIsOffline
    BY DEF WithdrawnIsOffline
  <2>1. stored \in Profiles /\ IsOff(stored) /\ (main.ready => ~shown.enabled)
    BY DEF DataInv, TypeOK, StaysOff
  <2> DEFINE status == IF stored.credential THEN "configured" ELSE "missing"
  <2>2. status \in Statuses /\ (status = "configured" => stored.credential)
    BY DEF Statuses
  <2> HIDE DEF status
  <2>3. ~Initialized(LoadPhase4(stored), status).enabled
    BY <2>1, <2>2, OffIsRead
  <2> QED BY <2>1, <2>3 DEF WithdrawnIsOffline, status
<1> QED BY <1>1, DataInvariance, PTL

(* On displays side by side with room for the ball, however many and       *)
(* wherever, the ball stays where handleBallMoved would put it, over       *)
(* drags, restarts and changes of the displays. That findNearestDisplay    *)
(* finds the very display the ball is on is BallIsNearestToItsDisplay.     *)
THEOREM BallStaysInPlace ==
  ASSUME BallFits, SideBySide
  PROVE  Spec => []BallIsInPlace
<1>1. DataInv /\ BallIsPut /\ [Next]_vars => BallIsPut'
  BY BallStep DEF DataInv
<1>2. Init => BallIsPut
  BY DataStarts
<1>3. DataInv /\ BallIsPut => BallIsInPlace
  <2> SUFFICES ASSUME DataInv, BallIsPut, main.ready, ~missed
               PROVE  /\ \E display \in Range(displays) :
                           PlaceOn(display, window, shown.edgeSnap).bounds = window
                      /\ DeriveBallPlacement(window, displays, shown.edgeSnap).bounds = window
    BY DEF BallIsInPlace
  <2>1. window \in Areas /\ displays \in Layouts /\ shown.edgeSnap \in BOOLEAN
    BY DEF DataInv, TypeOK, States
  <2>2. InPlace(window, shown.edgeSnap, displays)
    BY DEF BallIsPut
  <2>3. PICK k \in DOMAIN displays :
          /\ Fits(window, displays[k].workArea)
          /\ shown.edgeSnap => window.x \in {LeftX(displays[k].workArea), RightX(displays[k].workArea)}
    BY <2>2 DEF InPlace, Range
  <2>4. displays[k] \in Range(displays)
    BY <2>3 DEF Range
  <2>5. PlaceOn(displays[k], window, shown.edgeSnap).bounds = window
    <3>1. Roomy(displays[k].workArea)
      BY <2>1, <2>4 DEF BallFits
    <3> QED BY <2>1, <2>3, <3>1, WhatFitsStays
  <2>6. FindNearestDisplay(window, displays) = displays[k]
    <3>1. \A j \in DOMAIN displays : j # k => Apart(displays[k].workArea, displays[j].workArea)
      BY <2>1, <2>3 DEF SideBySide
    <3> QED BY <2>1, <2>3, <3>1, BallIsNearestToItsDisplay
  <2> QED BY <2>4, <2>5, <2>6 DEF DeriveBallPlacement
<1> QED BY <1>1, <1>2, <1>3, DataInvariance, PTL DEF Spec

=============================================================================
