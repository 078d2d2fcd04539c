--------------------------- MODULE CardPosition ---------------------------
(***************************************************************************)
(* Where the card of a selection is put (selection-card-position.ts): the  *)
(* rectangles of the selected lines are joined, and the card goes below    *)
(* them, or above if there is no room below, and within the work area of   *)
(* the display.  Lengths are in DIP, and whole, as Electron returns them.  *)
(***************************************************************************)
EXTENDS BallPosition, FiniteSetsExt

CardSize == [width |-> 300, height |-> 160]
CardGap == 10
CardMargin == 8
Sizes == [width : Nat \ {0}, height : Nat \ {0}]
NoRectangle == [x |-> 0, y |-> 0, width |-> 0, height |-> 0]

(* The rectangle around all of them, unless there is none or it is empty.  *)
UnionRectangles(rectangles) ==
  LET left == Min({r.x : r \in rectangles})
      top == Min({r.y : r \in rectangles})
      right == Max({r.x + r.width : r \in rectangles})
      bottom == Max({r.y + r.height : r \in rectangles})
  IN  IF rectangles = {} \/ right <= left \/ bottom <= top THEN NoRectangle
      ELSE [x |-> left, y |-> top, width |-> right - left, height |-> bottom - top]

(* Centred on the selection as far as the display allows; a centre may lie *)
(* between two DIP, so twice the coordinate is clamped and then rounded.   *)
CardX(anchor, area, size) ==
  LET least == area.x + CardMargin
      most == area.x + area.width - size.width - CardMargin
  IN  Round(Clamp(2 * anchor.x + anchor.width - size.width, 2 * least, 2 * most), 2)

BelowIt(anchor) == anchor.y + anchor.height + CardGap
AboveIt(anchor, size) == anchor.y - CardGap - size.height
MaximumBottom(area) == area.y + area.height - CardMargin

CardY(anchor, area, size) ==
  LET preferred == IF BelowIt(anchor) + size.height <= MaximumBottom(area)
                   THEN BelowIt(anchor) ELSE AboveIt(anchor, size)
  IN  Clamp(preferred, area.y + CardMargin, MaximumBottom(area) - size.height)

ResolveSelectionCardBounds(anchor, area, size) ==
  [x |-> CardX(anchor, area, size), y |-> CardY(anchor, area, size),
   width |-> size.width, height |-> size.height]

=============================================================================
