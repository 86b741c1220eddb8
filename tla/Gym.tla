-------------------------------- MODULE Gym --------------------------------
(***************************************************************************)
(* GymWalk in the real gym, with the ten-bit coordinates of the design:    *)
(* what the promise of GymWalk amounts to between these walls.             *)
(***************************************************************************)
EXTENDS GymMap

VARIABLES pos, playing

INSTANCE GymWalk WITH
    CoordRange <- 1024, CornerX <- 15, CornerY <- 20,
    StartPos <- GymStart, PowerUpPos <- GymPowerUp,
    Partner <- GymPartner, Blocked <- AtBounds

(* The first column of rooms has no left wall: gymBoundsChecker.sv:35      *)
(* blocks x = 160, 320 and 480, none of which is 0, so a character walks   *)
(* left through x = 0 to 1023 and on to the line at 480.  These are the    *)
(* columns the walls do enclose.                                           *)
WalledColumn == [i \in 1 .. 3 |->
    IF i = 1 THEN Column[1] \cup (480 .. 1023) ELSE Column[i]]

(* The character of a running game is in one of the nine walled regions,   *)
(* however it got there: every tile leads into one of them.                *)
InWalls == playing => /\ \E i \in 1 .. 3 : pos[1] \in WalledColumn[i]
                      /\ \E j \in 1 .. 3 : pos[2] \in Row[j]

(* Walking alone never leads from one region to another, although each     *)
(* wall is a single line that would not stop a character beyond it         *)
(* (gymBoundsChecker.sv:17-47 compares for equality).                      *)
WalksStayInside ==
    [][(\E d \in Directions : Step(d)) =>
          /\ \A i \in 1 .. 3 : pos[1] \in WalledColumn[i] => pos'[1] \in WalledColumn[i]
          /\ \A j \in 1 .. 3 : pos[2] \in Row[j] => pos'[2] \in Row[j]]_walkVars

(* The centre room, the goal of the game, is entered in one way only: over *)
(* tile M1 at the bottom left of room 1 (gymTileLogic.sv:83-84).           *)
FinishByTile ==
    [][playing /\ pos \notin Room(5) /\ pos' \in Room(5)
          => Corner(pos) = <<15, 127>>]_walkVars
============================================================================
