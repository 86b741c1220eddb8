----------------------------- MODULE TileLogic -----------------------------
(***************************************************************************)
(* gymTileLogic.sv: detects that the character stands on a teleport tile,  *)
(* spins it, moves it to the partner tile, spins it again, and waits until *)
(* it has left that tile.  Clocked by the rising edge of VGA_VS.           *)
(***************************************************************************)
EXTENDS Grid

CONSTANTS
    SpinLast,       \* spinCounter value both spins end at.  The source says
                    \* 5'd39, which is 7: thirty-nine needs six bits
    PostspinWrap,   \* value the second spin would restart from: 19
    SpinRange,      \* values of spinCounter: 2^6
    LatchOutcomes   \* what "~VGA_VS", read on the rising edge of VGA_VS
                    \* itself, may evaluate to in the build: a race

ASSUME TileAssumption ==
    /\ SpinLast \in Nat /\ PostspinWrap \in Nat /\ SpinRange \in Nat
    /\ SpinLast < PostspinWrap /\ SpinLast + 1 < SpinRange
    /\ LatchOutcomes \subseteq BOOLEAN /\ LatchOutcomes # {}

VARIABLES
    tileState,
    spinCounter,
    target          \* <<xleft, ytop>>, a corner despite the names

tileVars == <<tileState, spinCounter, target>>

TileStates == {"notTile", "prespin", "teleport", "postspin", "latch", "hold"}

TileTypeOK ==
    /\ tileState \in TileStates
    /\ spinCounter \in 0 .. SpinRange - 1
    /\ target \in Pos

TileReset ==
    /\ tileState' = "notTile"
    /\ spinCounter' = 0
    /\ target' = <<0, 0>>

(* Outputs: the character is held, and where.  atTileFirstSpin is a mutant *)
(* that lets go of it after the teleport.                                  *)
atTileFirstSpin == tileState \in {"prespin", "teleport"}
atTile == tileState \in {"prespin", "teleport", "postspin", "latch"}
heldPos == TopLeft(target)

(* The six-bit counter wraps around.  Mutant: it stops at the largest       *)
(* value.                                                                  *)
SpinUpStuck == IF spinCounter + 1 = SpinRange THEN spinCounter ELSE spinCounter + 1
SpinUp == IF spinCounter + 1 = SpinRange THEN 0 ELSE spinCounter + 1

(* Rising edge of VGA_VS with the character's corner at c. *)
Sense(c) ==
    /\ tileState = "notTile"
    /\ tileState' = IF c \in Pads THEN "prespin" ELSE "notTile"
    /\ target' = c
    /\ UNCHANGED spinCounter

Prespin(c) ==
    /\ tileState = "prespin"
    /\ tileState' = IF spinCounter = SpinLast THEN "teleport" ELSE "prespin"
    /\ spinCounter' = IF spinCounter = SpinLast THEN 0 ELSE SpinUp
    /\ target' = c

(* The default branch of the unique case sends the character to corner 0,0. *)
TakePartner(c) ==
    /\ tileState = "teleport"
    /\ tileState' = "postspin"
    /\ target' = IF c \in Pads THEN Partner[c] ELSE <<0, 0>>
    /\ UNCHANGED spinCounter

Postspin ==
    /\ tileState = "postspin"
    /\ tileState' = IF spinCounter = SpinLast THEN "latch" ELSE "postspin"
    /\ spinCounter' = IF spinCounter = PostspinWrap THEN 0 ELSE SpinUp
    /\ UNCHANGED target

Latch ==
    /\ tileState = "latch"
    /\ \E vsLow \in LatchOutcomes :
          tileState' = IF vsLow THEN "hold" ELSE "latch"
    /\ UNCHANGED <<spinCounter, target>>

Hold(c) ==
    /\ tileState = "hold"
    /\ tileState' = IF c \in Pads THEN "hold" ELSE "notTile"
    /\ UNCHANGED <<spinCounter, target>>

TileClock(c) == \/ Sense(c)
                \/ Prespin(c)
                \/ TakePartner(c)
                \/ Postspin
                \/ Latch
                \/ Hold(c)
===========================================================================
