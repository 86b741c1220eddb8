------------------------------ MODULE Pokemon ------------------------------
(***************************************************************************)
(* The game: gameFSM, gymTileLogic and the position logic of frameDrawer   *)
(* wired together as in lab8.sv and framebuffer.sv.  VGA_VS is their only  *)
(* clock.  Its falling edge moves the character, its rising edge advances  *)
(* the two state machines, and between any two edges the software may      *)
(* write another keycode and the player may press or release KEY[1].       *)
(***************************************************************************)
EXTENDS GameFSM, TileLogic, FrameDrawer

CONSTANTS
    KeysAnyTime,    \* keycode and KEY[1] may change between a falling edge
                    \* and the next rising edge too: TRUE in the hardware,
                    \* FALSE to narrow a search
    KeysPressed,    \* the keycodes the player's keyboard ever delivers
    RunPresses,     \* whether the player ever touches KEY[1]
    ResetSampled    \* whether Reset may be seen high by a rising edge

ASSUME PokemonAssumption ==
    /\ KeysAnyTime \in BOOLEAN
    /\ KeysPressed \subseteq Keys
    /\ RunPresses \in BOOLEAN
    /\ ResetSampled \in BOOLEAN

VARIABLES
    vs,         \* level of VGA_VS
    running     \* KEY[1] is held down

inputVars == <<keycode, running>>
vars == <<gameVars, tileVars, drawerVars, inputVars, vs>>

TypeOK ==
    /\ GameTypeOK
    /\ TileTypeOK
    /\ DrawerTypeOK
    /\ vs \in {0, 1}
    /\ running \in BOOLEAN

(* VGA_VS is configured low and rises with the first pixel clock, long     *)
(* before the software can have enumerated a keyboard.  That first rising  *)
(* edge finds the character at PowerUpPos and no key, so that only the     *)
(* tile logic's target changes; the behaviours start right after it.       *)
Init ==
    /\ GamePowerUp
    /\ tileState = "notTile" /\ spinCounter = 0 /\ target = Corner(PowerUpPos)
    /\ DrawerPowerUp
    /\ keycode = "other"
    /\ running = FALSE
    /\ vs = 1

(* Falling edge, by state_num.  FallAtStartStays is a mutant that leaves    *)
(* the character where the last game ended.                                *)
FallAtStartStays == state_num = 0 /\ KeepPos
FallAtStart == state_num = 0 /\ SendHome
FallAtFade  == state_num \in {1, 2} /\ KeepPos
FallInGame  == /\ state_num = 3
               /\ PlayFrame(direction, charIsMoving, running, atTile, heldPos)

NegEdge ==
    /\ vs = 1
    /\ vs' = 0
    /\ FallAtStart \/ FallAtFade \/ FallInGame
    /\ UNCHANGED <<gameVars, tileVars, inputVars>>

PosEdge ==
    /\ vs = 0
    /\ vs' = 1
    /\ GameClock
    /\ TileClock(Corner(pos))
    /\ UNCHANGED <<drawerVars, inputVars>>

ResetEdge ==
    /\ ResetSampled
    /\ vs = 0
    /\ vs' = 1
    /\ GameReset
    /\ TileReset
    /\ UNCHANGED <<drawerVars, inputVars>>

InputsMayChange == KeysAnyTime \/ vs = 1

PressKey ==
    /\ InputsMayChange
    /\ keycode' \in KeysPressed \ {keycode}
    /\ UNCHANGED <<gameVars, tileVars, drawerVars, running, vs>>

PressRun ==
    /\ RunPresses
    /\ InputsMayChange
    /\ running' = ~running
    /\ UNCHANGED <<gameVars, tileVars, drawerVars, keycode, vs>>

Next == NegEdge \/ PosEdge \/ ResetEdge \/ PressKey \/ PressRun

Spec == Init /\ [][Next]_vars

(* The VGA controller never stops: both edges keep coming. *)
Fairness == WF_vars(NegEdge) /\ WF_vars(PosEdge)
-----------------------------------------------------------------------------
(* A game always begins on the start tile: whatever key arrives between    *)
(* which edges, the fade never shows a character left anywhere else        *)
(* (framebuffer.sv:101-108 resets the position on the other clock edge     *)
(* than the one that gameFSM.sv:60-66 leaves the start screen on).         *)
FadeAtStart == gameState = "fade" => pos = StartPos

(* The tile logic looks the partner up with the character's position at    *)
(* the end of the first spin, not with the tile that started it; it must   *)
(* still be a tile, or the default branch of gymTileLogic.sv:283-286 sends *)
(* the character to corner (0,0), even if the game is quit and restarted   *)
(* or the run button and the keys change during the spin.                  *)
SpinOnPad == tileState \in {"prespin", "teleport"} => Corner(pos) \in Pads

(* What makes the two invariants above inductive: the start screen has put *)
(* the character home by the time the next rising edge looks; and while it *)
(* spins on its first tile, the place it is held at is where it is.        *)
HomeAtStart == gameState = "start_screen" /\ vs = 0 => pos = StartPos
HeldWhereItIs ==
    tileState \in {"prespin", "teleport"} /\ vs = 1 => target = Corner(pos)
ScreensUsed == gameState \in {"start_screen", "fade", "draw_main_game"}

SpinInv == /\ TypeOK
           /\ ScreensUsed
           /\ HomeAtStart
           /\ FadeAtStart
           /\ HeldWhereItIs
           /\ SpinOnPad

(* When the second spin is over and the falling edge has moved it, the     *)
(* character of a running game stands on a tile, where the tile logic put  *)
(* it (framebuffer.sv:168-171 against gymTileLogic.sv:290-314).            *)
ArrivedOnPad ==
    /\ tileState = "latch" /\ gameState = "draw_main_game" /\ vs = 0
    => Corner(pos) \in Pads /\ heldPos = pos

(* Where the second spin holds the character: on its tile, or on that      *)
(* tile's partner, where the next falling edge puts it; or, after the game *)
(* was quit during the spin, on a partner remembered from before.  Such a  *)
(* stale target is harmless because the fade, which began later than the   *)
(* spin, is still on when the spin is over.                                *)
StaleTarget ==
    \/ gameState = "start_screen"
    \/ /\ gameState = "fade"
       /\ \/ tileState = "postspin" /\ fade_counter < spinCounter
          \/ tileState = "latch" /\ fade_counter <= SpinLast

TargetKnown ==
    tileState \in {"postspin", "latch"} =>
        \/ target = Corner(pos)
        \/ Corner(pos) \in Pads /\ target = Partner[Corner(pos)]
        \/ StaleTarget

CountersInTime ==
    /\ gameState # "fade" => fade_counter = 0
    /\ tileState = "teleport" => spinCounter = 0
    /\ tileState = "postspin" => spinCounter <= SpinLast

WalkInv == SpinInv /\ CountersInTime /\ TargetKnown

(* The promise of GymWalk: in particular a partner tile remembered by the  *)
(* tile logic from before a restart never moves the restarted character.   *)
Walk == INSTANCE GymWalk WITH playing <- gameState = "draw_main_game"
WalkSpec == Walk!Spec

(* The player does not stay on a tile forever (gymTileLogic.sv:7): every   *)
(* spin ends with the keys in charge again, if only by a Reset, at         *)
(* whatever value the spin counter was left by the spin before.            *)
SpinEnds == tileState = "prespin" ~> tileState \in {"hold", "notTile"}
===========================================================================
