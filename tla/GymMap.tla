------------------------------- MODULE GymMap -------------------------------
(***************************************************************************)
(* The psychic gym as the design wires it: the walls and statues of        *)
(* gymBoundsChecker.sv and the teleport tiles of gymTileLogic.sv.          *)
(***************************************************************************)
EXTENDS Integers, FiniteSets

GymStart   == <<288, 315>>
GymPowerUp == <<0, 0>>

(* Walls are single coordinates, each blocking one direction: a position   *)
(* on the line may not go on, any other position is never asked.           *)
WallDownLow     == {107, 235, 364}     \* mutants: a wall one line too low,
WallLeftFar     == {159, 320, 480}     \* one too far left, and one left out
WallRightGap    == {288, 448}

WallDown  == {107, 235, 363}
WallUp    == {26, 154, 282}
WallLeft  == {160, 320, 480}
WallRight == {128, 288, 448}

BesideStatue(p) == 303 < p[2] + 20 /\ p[2] + 20 < 336

(* gymBoundsChecker compares after extending to 32 bits: nothing wraps. *)
AtWall(d, p) == \/ d = 0 /\ p[2] \in WallDown
                \/ d = 1 /\ p[2] \in WallUp
                \/ d = 2 /\ p[1] \in WallLeft
                \/ d = 3 /\ p[1] \in WallRight

AtStatue(d, p) == \/ d = 0 /\ p[1] + 15 \in {207, 271} /\ p[2] + 20 = 303
                  \/ d = 1 /\ p[1] + 15 \in {207, 271} /\ p[2] + 20 = 351
                  \/ d = 2 /\ p[1] \in {208, 272} /\ BesideStatue(p)
                  \/ d = 3 /\ p[1] + 15 \in {191, 255} /\ BesideStatue(p)

AtBounds(d, p) == AtWall(d, p) \/ AtStatue(d, p)

(* The thirteen pairs of teleport tiles, A to M. *)
PadPairs == {
    <<<<303, 335>>, <<463, 383>>>>,     \* A: room 8, the start, to room 9
    <<<<463, 207>>, <<463, 335>>>>,     \* B: rooms 6 and 9
    <<<<463,  79>>, <<335, 335>>>>,     \* C: rooms 3 and 9
    <<<<143, 335>>, <<335, 383>>>>,     \* D: rooms 7 and 9
    <<<< 15, 207>>, <<463, 255>>>>,     \* E: rooms 4 and 6
    <<<<335,  79>>, <<335, 207>>>>,     \* F: rooms 3 and 6
    <<<<207,  79>>, <<335, 255>>>>,     \* G: rooms 2 and 6
    <<<<463, 127>>, << 15, 335>>>>,     \* H: rooms 3 and 7
    <<<< 15,  79>>, <<335, 127>>>>,     \* I: rooms 1 and 3
    <<<<143,  79>>, <<271,  79>>>>,     \* J: rooms 1 and 2
    <<<<271, 127>>, << 15, 383>>>>,     \* K: rooms 2 and 7
    <<<<207, 127>>, <<143, 207>>>>,     \* L: rooms 2 and 4
    <<<< 15, 127>>, <<303, 255>>>>}     \* M: room 1 to room 5, the finish

GymPads == {q[1] : q \in PadPairs} \cup {q[2] : q \in PadPairs}

GymPartner == [c \in GymPads |->
    CHOOSE e \in GymPads : <<c, e>> \in PadPairs \/ <<e, c>> \in PadPairs]

(* The rooms of the picture, numbered as in gymTileLogic.sv:59-84: three   *)
(* columns and three rows of positions, the lines of the walls included.   *)
Column == [i \in 1 .. 3 |-> CASE i = 1 -> 0 .. 128
                              [] i = 2 -> 160 .. 288
                              [] i = 3 -> 320 .. 448]
Row    == [j \in 1 .. 3 |-> CASE j = 1 -> 26 .. 107
                              [] j = 2 -> 154 .. 235
                              [] j = 3 -> 282 .. 363]

Room(r) == Column[((r - 1) % 3) + 1] \X Row[((r - 1) \div 3) + 1]
Rooms == 1 .. 9
=============================================================================
