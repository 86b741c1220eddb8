----------------------------- MODULE GymProofs -----------------------------
(***************************************************************************)
(* Theorems about the real gym: its walls, its tiles and what a walk in it *)
(* can and cannot reach.                                                   *)
(***************************************************************************)
EXTENDS Gym, TLAPS

(* Every tile has a partner, and the pair is one of the thirteen. *)
LEMMA PartnerInPair ==
    ASSUME NEW c \in GymPads
    PROVE  /\ GymPartner[c] \in GymPads
           /\ <<c, GymPartner[c]>> \in PadPairs \/ <<GymPartner[c], c>> \in PadPairs
<1>1. \A q \in PadPairs : q = <<q[1], q[2]>>
  BY DEF PadPairs
<1>2. \E e \in GymPads : <<c, e>> \in PadPairs \/ <<e, c>> \in PadPairs
  BY <1>1 DEF GymPads
<1> QED
  BY <1>2 DEF GymPartner

(* A character standing on a tile stands inside the walls. *)
Inside(p) == /\ \E i \in 1 .. 3 : p[1] \in WalledColumn[i]
             /\ \E j \in 1 .. 3 : p[2] \in Row[j]

LEMMA PadsInside ==
    ASSUME NEW c \in GymPads
    PROVE  TopLeft(c) \in Pos /\ Inside(TopLeft(c))
<1>1. /\ c[1] \in {15, 143, 207, 271, 303, 335, 463}
      /\ c[2] \in {79, 127, 207, 255, 335, 383}
  BY DEF GymPads, PadPairs
<1>2. TopLeft(c) = <<c[1] - 15, c[2] - 20>>
  BY <1>1 DEF TopLeft, Minus
<1>3. \E i \in 1 .. 3 : c[1] - 15 \in WalledColumn[i]
  BY <1>1 DEF WalledColumn, Column
<1>4. \E j \in 1 .. 3 : c[2] - 20 \in Row[j]
  BY <1>1 DEF Row
<1> QED
  BY <1>1, <1>2, <1>3, <1>4 DEF Inside, Pos, Coord

(* One pixel that the walls allow stays in the column and in the row. *)
LEMMA StepStaysInColumn ==
    ASSUME NEW p \in Pos, NEW d \in Directions, ~AtBounds(d, p),
           NEW i \in 1 .. 3, p[1] \in WalledColumn[i]
    PROVE  Move(d, p)[1] \in WalledColumn[i]
<1>1. /\ WalledColumn[1] = (0 .. 128) \cup (480 .. 1023)
      /\ WalledColumn[2] = 160 .. 288
      /\ WalledColumn[3] = 320 .. 448
  BY DEF WalledColumn, Column
<1>2. CASE d \in {Down, Up}
  <2>1. Move(d, p)[1] = p[1]
    BY <1>2 DEF Move, Down, Up, Left, Right
  <2> QED
    BY <2>1
<1>3. CASE d = Left
  <2>1. p[1] \notin {160, 320, 480}
    BY <1>3 DEF AtBounds, AtWall, WallLeft, Left
  <2>2. Move(d, p)[1] = IF p[1] >= 1 THEN p[1] - 1 ELSE 1023
    BY <1>3 DEF Pos, Coord, Move, Minus, Down, Up, Left, Right
  <2> QED
    BY <1>1, <2>1, <2>2 DEF Pos, Coord
<1>4. CASE d = Right
  <2>1. p[1] \notin {128, 288, 448}
    BY <1>4 DEF AtBounds, AtWall, WallRight, Right
  <2>2. Move(d, p)[1] = IF p[1] + 1 < 1024 THEN p[1] + 1 ELSE 0
    BY <1>4 DEF Pos, Coord, Move, Plus, Down, Up, Left, Right
  <2> QED
    BY <1>1, <2>1, <2>2 DEF Pos, Coord
<1> QED
  BY <1>2, <1>3, <1>4 DEF Directions

LEMMA StepStaysInRow ==
    ASSUME NEW p \in Pos, NEW d \in Directions, ~AtBounds(d, p),
           NEW j \in 1 .. 3, p[2] \in Row[j]
    PROVE  Move(d, p)[2] \in Row[j]
BY DEF Pos, Coord, Directions, Down, Up, Left, Right, Move, Plus, Minus,
       AtBounds, AtWall, WallDown, WallUp, Row

LEMMA MoveInPos ==
    ASSUME NEW p \in Pos, NEW d \in Directions
    PROVE  Move(d, p) \in Pos
<1>1. CASE d = Down
  BY <1>1 DEF Pos, Coord, Move, Plus, Down, Up, Left, Right
<1>2. CASE d = Up
  BY <1>2 DEF Pos, Coord, Move, Minus, Down, Up, Left, Right
<1>3. CASE d = Left
  BY <1>3 DEF Pos, Coord, Move, Minus, Down, Up, Left, Right
<1>4. CASE d = Right
  BY <1>4 DEF Pos, Coord, Move, Plus, Down, Up, Left, Right
<1> QED
  BY <1>1, <1>2, <1>3, <1>4 DEF Directions

-----------------------------------------------------------------------------
(* What holds between any two steps. *)
GymInv == TypeOK /\ InWalls

LEMMA GymInvInit ==
    ASSUME Init
    PROVE  GymInv
<1>1. <<0, 0>> \in Pos
  BY DEF Pos, Coord
<1> QED
  BY <1>1 DEF Init, GymInv, TypeOK, InWalls, GymPowerUp

LEMMA GymInvStep ==
    ASSUME GymInv, [Next]_walkVars
    PROVE  GymInv'
<1> USE DEF GymInv, TypeOK
<1>1. CASE GoHome
  BY <1>1 DEF GoHome, InWalls, GymStart, Pos, Coord
<1>2. CASE Begin
  <2>1. 288 \in WalledColumn[2] /\ 315 \in Row[3]
    BY DEF WalledColumn, Column, Row
  <2> QED
    BY <1>2, <2>1 DEF Begin, InWalls, GymStart
<1>3. CASE Quit
  BY <1>3 DEF Quit, InWalls
<1>4. ASSUME NEW d \in Directions, Step(d)
      PROVE  GymInv'
  <2>1. pos' = Move(d, pos) /\ ~AtBounds(d, pos) /\ playing' = playing
    BY <1>4 DEF Step
  <2>2. pos' \in Pos
    BY <2>1, MoveInPos
  <2> QED
    BY <1>4, <2>1, <2>2, StepStaysInColumn, StepStaysInRow DEF InWalls, Step
<1>5. CASE Teleport
  <2>1. Pads = GymPads
    BY DEF Pads, GymPartner
  <2>2. pos' = TopLeft(GymPartner[Corner(pos)]) /\ Corner(pos) \in GymPads
    BY <1>5, <2>1 DEF Teleport
  <2>3. GymPartner[Corner(pos)] \in GymPads
    BY <2>2, PartnerInPair
  <2>4. pos' \in Pos /\ Inside(pos')
    BY <2>2, <2>3, PadsInside
  <2> QED
    BY <1>5, <2>4 DEF Teleport, InWalls, Inside
<1>6. CASE UNCHANGED walkVars
  BY <1>6 DEF walkVars, InWalls
<1> QED
  BY <1>1, <1>2, <1>3, <1>4, <1>5, <1>6 DEF Next

(* The invariant holds in every reachable state. *)
THEOREM GymInvariant == Spec => []GymInv
<1>1. Init => GymInv
  BY GymInvInit
<1>2. GymInv /\ [Next]_walkVars => GymInv'
  BY GymInvStep
<1> QED
  BY <1>1, <1>2, PTL DEF Spec

(* The character of a running game is always within the walls of one of    *)
(* the regions the design encloses, whichever tiles and keys brought it    *)
(* there.                                                                  *)
THEOREM AlwaysInWalls == Spec => []InWalls
<1>1. GymInv => InWalls
  BY DEF GymInv
<1> QED
  BY <1>1, GymInvariant, PTL

(* Walking never leads out of a column or a row of rooms, one pixel at a   *)
(* time, although the walls are single lines.                              *)
THEOREM WalkingStaysInside == Spec => WalksStayInside
<1> DEFINE Stays == (\E d \in Directions : Step(d)) =>
        /\ \A i \in 1 .. 3 : pos[1] \in WalledColumn[i] => pos'[1] \in WalledColumn[i]
        /\ \A j \in 1 .. 3 : pos[2] \in Row[j] => pos'[2] \in Row[j]
<1>1. GymInv /\ [Next]_walkVars => Stays
  <2>1. SUFFICES ASSUME GymInv, NEW d \in Directions, Step(d)
                 PROVE  /\ \A i \in 1 .. 3 : pos[1] \in WalledColumn[i]
                                           => pos'[1] \in WalledColumn[i]
                        /\ \A j \in 1 .. 3 : pos[2] \in Row[j] => pos'[2] \in Row[j]
    OBVIOUS
  <2>2. pos \in Pos /\ ~AtBounds(d, pos) /\ pos' = Move(d, pos)
    BY <2>1 DEF GymInv, TypeOK, Step
  <2> QED
    BY <2>2, StepStaysInColumn, StepStaysInRow
<1>2. Spec => [][Stays]_walkVars
  <2>1. GymInv /\ [Next]_walkVars => [Stays]_walkVars
    BY <1>1
  <2> QED
    BY <2>1, GymInvariant, PTL DEF Spec
<1> QED
  BY <1>2 DEF WalksStayInside

-----------------------------------------------------------------------------
(* The centre room is the middle of the middle, and apart from every other *)
(* walled region.                                                          *)
LEMMA CentreRoom ==
    /\ Room(5) = (160 .. 288) \X (154 .. 235)
    /\ \A i \in 1 .. 3 : \A x, y : x \in WalledColumn[i] /\ x \in 160 .. 288
                              /\ y \in WalledColumn[i] => y \in 160 .. 288
    /\ \A j \in 1 .. 3 : \A x, y : x \in Row[j] /\ x \in 154 .. 235
                              /\ y \in Row[j] => y \in 154 .. 235
<1>1. Room(5) = (160 .. 288) \X (154 .. 235)
  <2>1. ((5 - 1) % 3) + 1 = 2 /\ ((5 - 1) \div 3) + 1 = 2
    OBVIOUS
  <2> QED
    BY <2>1 DEF Room, Column, Row
<1>2. ASSUME NEW i \in 1 .. 3, NEW x, NEW y, x \in 160 .. 288,
             x \in WalledColumn[i], y \in WalledColumn[i]
      PROVE  y \in 160 .. 288
  <2>1. /\ WalledColumn[1] = (0 .. 128) \cup (480 .. 1023)
        /\ WalledColumn[2] = 160 .. 288
        /\ WalledColumn[3] = 320 .. 448
    BY DEF WalledColumn, Column
  <2>2. CASE i = 1
    <3>1. x \in (0 .. 128) \cup (480 .. 1023)
      BY <1>2, <2>1, <2>2
    <3>2. x \notin (0 .. 128) \cup (480 .. 1023)
      <4>1. x \in Int /\ x > 128 /\ x < 300
        BY <1>2
      <4> QED
        BY <4>1
    <3> QED
      BY <3>1, <3>2
  <2>3. CASE i = 2
    BY <1>2, <2>1, <2>3
  <2>4. CASE i = 3
    <3>1. x \in 320 .. 448
      BY <1>2, <2>1, <2>4
    <3> QED
      BY <1>2, <3>1
  <2> QED
    BY <2>2, <2>3, <2>4
<1>3. ASSUME NEW j \in 1 .. 3, NEW x, NEW y, x \in 154 .. 235,
             x \in Row[j], y \in Row[j]
      PROVE  y \in 154 .. 235
  <2>1. Row[1] = 26 .. 107 /\ Row[2] = 154 .. 235 /\ Row[3] = 282 .. 363
    BY DEF Row
  <2> QED
    BY <1>3, <2>1
<1> QED
  BY <1>1, <1>2, <1>3

(* Only tile M2 is in the centre room, and only M1 leads to it. *)
LEMMA OnlyM1LeadsToCentre ==
    ASSUME NEW c \in GymPads, TopLeft(GymPartner[c]) \in Room(5)
    PROVE  c = <<15, 127>>
<1> DEFINE e == GymPartner[c]
<1>1. e \in GymPads /\ (<<c, e>> \in PadPairs \/ <<e, c>> \in PadPairs)
  BY PartnerInPair
<1>2. TopLeft(e) = <<e[1] - 15, e[2] - 20>>
  <2>1. /\ e[1] \in {15, 143, 207, 271, 303, 335, 463}
        /\ e[2] \in {79, 127, 207, 255, 335, 383}
    BY <1>1 DEF GymPads, PadPairs
  <2> QED
    BY <2>1 DEF TopLeft, Minus
<1>3. e[1] - 15 \in 160 .. 288 /\ e[2] - 20 \in 154 .. 235
  <2>1. <<e[1] - 15, e[2] - 20>> \in (160 .. 288) \X (154 .. 235)
    BY <1>2, CentreRoom
  <2> QED
    BY <2>1
<1>4. e = <<303, 255>>
  <2> DEFINE InMiddle(t) == /\ 175 <= t[1] /\ t[1] <= 303
                            /\ 174 <= t[2] /\ t[2] <= 255
  <2>1. InMiddle(e)
    <3>1. e[1] \in Int /\ e[2] \in Int
      BY <1>1 DEF GymPads, PadPairs
    <3> QED
      BY <1>3, <3>1
  <2>2. ASSUME NEW q \in PadPairs, InMiddle(q[1])
        PROVE  q[1] = <<303, 255>>
    BY <2>2 DEF PadPairs
  <2>3. ASSUME NEW q \in PadPairs, InMiddle(q[2])
        PROVE  q[2] = <<303, 255>>
    BY <2>3 DEF PadPairs
  <2>4. PICK q \in PadPairs : e = q[1] \/ e = q[2]
    BY <1>1 DEF GymPads
  <2> HIDE DEF InMiddle, e
  <2>5. CASE e = q[1]
    BY <2>1, <2>2, <2>5
  <2>6. CASE e = q[2]
    BY <2>1, <2>3, <2>6
  <2> QED
    BY <2>4, <2>5, <2>6
<1> QED
  BY <1>1, <1>4 DEF PadPairs

(* The game's goal cannot be walked to, nor reached over any other tile.   *)
THEOREM CentreRoomByTileOnly == Spec => FinishByTile
<1> DEFINE Enters == playing /\ pos \notin Room(5) /\ pos' \in Room(5)
                        => Corner(pos) = <<15, 127>>
<1>1. GymInv /\ [Next]_walkVars => Enters
  <2>1. SUFFICES ASSUME GymInv, [Next]_walkVars, playing,
                        pos \notin Room(5), pos' \in Room(5)
                 PROVE  Corner(pos) = <<15, 127>>
    OBVIOUS
  <2>2. CASE Teleport
    <3>1. Pads = GymPads
      BY DEF Pads, GymPartner
    <3> QED
      BY <2>1, <2>2, <3>1, OnlyM1LeadsToCentre DEF Teleport
  <2>3. ASSUME NEW d \in Directions, Step(d)
        PROVE  FALSE
    <3>1. pos \in Pos /\ ~AtBounds(d, pos) /\ pos' = Move(d, pos)
      BY <2>1, <2>3 DEF GymInv, TypeOK, Step
    <3>2. PICK i \in 1 .. 3 : pos[1] \in WalledColumn[i]
      BY <2>1 DEF GymInv, InWalls
    <3>3. PICK j \in 1 .. 3 : pos[2] \in Row[j]
      BY <2>1 DEF GymInv, InWalls
    <3>4. pos'[1] \in WalledColumn[i] /\ pos'[2] \in Row[j]
      BY <3>1, <3>2, <3>3, StepStaysInColumn, StepStaysInRow
    <3>5. pos'[1] \in 160 .. 288 /\ pos'[2] \in 154 .. 235
      BY <2>1, CentreRoom
    <3>6. pos[1] \in 160 .. 288
      BY <3>2, <3>4, <3>5, CentreRoom
    <3>7. pos[2] \in 154 .. 235
      BY <3>3, <3>4, <3>5, CentreRoom
    <3>8. pos = <<pos[1], pos[2]>>
      BY <3>1 DEF Pos
    <3> QED
      BY <2>1, <3>6, <3>7, <3>8, CentreRoom
  <2>4. CASE GoHome \/ Begin \/ Quit \/ UNCHANGED walkVars
    BY <2>1, <2>4 DEF GoHome, Begin, Quit, walkVars
  <2> QED
    BY <2>1, <2>2, <2>3, <2>4 DEF Next
<1>2. Spec => [][Enters]_walkVars
  <2>1. GymInv /\ [Next]_walkVars => [Enters]_walkVars
    BY <1>1
  <2> QED
    BY <2>1, GymInvariant, PTL DEF Spec
<1> QED
  BY <1>2 DEF FinishByTile
=============================================================================
