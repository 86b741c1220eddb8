------------------------------- MODULE Grid -------------------------------
(***************************************************************************)
(* The plane the character lives on, as the hardware sees it: coordinates  *)
(* are unsigned registers that wrap around, a position is the top left     *)
(* corner of the character box, and the teleport tiles are named by the    *)
(* bottom right corner of a character standing on them.                    *)
(***************************************************************************)
EXTENDS Integers

CONSTANTS
    CoordRange,     \* values of a coordinate register: 2^10 in the design
    CornerX,        \* from the left edge of the character to its right edge
    CornerY,        \* from its top edge to its bottom edge
    StartPos,       \* where a game begins
    PowerUpPos,     \* what the position registers hold after configuration
    Partner,        \* the teleport tiles: corner |-> corner of its partner
    Blocked(_, _)   \* the atBounds signal for a direction and a position

(* The direction encoding every module of the design repeats. *)
Down  == 0
Up    == 1
Left  == 2
Right == 3
Directions == {Down, Up, Left, Right}

Coord == 0 .. CoordRange - 1
Pos   == Coord \X Coord
Pads  == DOMAIN Partner

(* Register addition and subtraction, for operands below CoordRange. *)
Plus(c, k)  == IF c + k < CoordRange THEN c + k ELSE c + k - CoordRange
Minus(c, k) == IF c >= k THEN c - k ELSE c - k + CoordRange

(* Character box: bottom right corner of a position, and the way back. *)
Corner(p)  == <<Plus(p[1], CornerX), Plus(p[2], CornerY)>>
TopLeft(c) == <<Minus(c[1], CornerX), Minus(c[2], CornerY)>>

(* One pixel in direction d. *)
Move(d, p) == CASE d = Down  -> <<p[1], Plus(p[2], 1)>>
                [] d = Up    -> <<p[1], Minus(p[2], 1)>>
                [] d = Left  -> <<Minus(p[1], 1), p[2]>>
                [] d = Right -> <<Plus(p[1], 1), p[2]>>

ASSUME GridAssumption ==
    /\ CoordRange \in Nat /\ CoordRange > 1
    /\ CornerX \in Coord /\ CornerY \in Coord
    /\ StartPos \in Pos /\ PowerUpPos \in Pos
    /\ Pads \subseteq Pos
    /\ Partner \in [Pads -> Pads]

(* Every game begins on a teleport tile: 288+15, 315+20 is tile A1. *)
ASSUME StartOnPad == Corner(StartPos) \in Pads
===========================================================================
