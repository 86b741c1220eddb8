------------------------------ MODULE GameFSM ------------------------------
(***************************************************************************)
(* gameFSM.sv: the screens of the game and the walking of the character.   *)
(* All its registers are clocked by the rising edge of VGA_VS, once per    *)
(* frame; keycode is an input that the software sets at any time.          *)
(***************************************************************************)
EXTENDS Integers

CONSTANTS
    TileIdle,   \* tilecounter value of a character at rest: 31
    FadeLast,   \* last value of fade_counter: 50
    WalkLast    \* last value of charFrameCounter: 39

ASSUME GameAssumption ==
    /\ TileIdle \in Nat \ {0}
    /\ FadeLast \in Nat
    /\ WalkLast \in Nat

VARIABLES
    gameState,
    fade_counter,
    direction,
    charFrameCounter,
    tilecounter,
    keycode         \* input: the key the software last wrote to its port

gameVars == <<gameState, fade_counter, direction, charFrameCounter, tilecounter>>

GameStates == {"start_screen", "flash_press_enter", "fade", "draw_main_game", "hold"}

(* The four walking keys and the direction each stands for; Enter is 8'h28 *)
(* and Esc 8'h29; every other code, no key included, acts as "other".      *)
KeyDirection == [S |-> 0, W |-> 1, A |-> 2, D |-> 3]
WalkKeys == DOMAIN KeyDirection
Keys == WalkKeys \cup {"Enter", "Esc", "other"}

GameTypeOK ==
    /\ gameState \in GameStates
    /\ fade_counter \in 0 .. FadeLast
    /\ direction \in 0 .. 3
    /\ charFrameCounter \in 0 .. WalkLast
    /\ tilecounter \in 0 .. TileIdle
    /\ keycode \in Keys

(* Configuration clears every register: the Reset branch has not run. *)
GamePowerUp ==
    /\ gameState = "start_screen"
    /\ fade_counter = 0
    /\ direction = 0
    /\ charFrameCounter = 0
    /\ tilecounter = 0

GameReset ==
    /\ gameState' = "start_screen"
    /\ fade_counter' = 0
    /\ direction' = 1
    /\ charFrameCounter' = 0
    /\ tilecounter' = TileIdle

(* Outputs. *)
FacesKey == keycode \in WalkKeys /\ KeyDirection[keycode] = direction

charIsMoving == /\ gameState = "draw_main_game"
                /\ tilecounter # TileIdle \/ FacesKey

state_num == CASE gameState = "flash_press_enter" -> 1
               [] gameState = "fade"              -> 2
               [] gameState = "draw_main_game"    -> 3
               [] OTHER                           -> 0

(* Rising edge of VGA_VS, one action per state and per branch within it.   *)
(* hold is left by no transition and entered by none; flash_press_enter is *)
(* entered by none and left as start_screen is.                            *)
StartScreen ==
    /\ gameState \in {"start_screen", "flash_press_enter"}
    /\ gameState' = IF keycode = "Enter" THEN "fade" ELSE "start_screen"
    /\ UNCHANGED <<fade_counter, direction, charFrameCounter, tilecounter>>

(* Mutant: the fade ends as soon as it has begun. *)
FadeCut ==
    /\ gameState = "fade"
    /\ gameState' = "draw_main_game"
    /\ fade_counter' = 0
    /\ UNCHANGED <<direction, charFrameCounter, tilecounter>>

Fade ==
    /\ gameState = "fade"
    /\ gameState' = IF fade_counter = FadeLast THEN "draw_main_game" ELSE "fade"
    /\ fade_counter' = IF fade_counter = FadeLast THEN 0 ELSE fade_counter + 1
    /\ UNCHANGED <<direction, charFrameCounter, tilecounter>>

InGame ==
    /\ gameState = "draw_main_game"
    /\ gameState' = IF keycode = "Esc" THEN "start_screen" ELSE gameState
    /\ UNCHANGED fade_counter

(* The animation counter restarts after WalkLast whatever else happens. *)
Animate(n) == charFrameCounter' = IF charFrameCounter = WalkLast THEN 0 ELSE n

WalkOn ==
    /\ InGame
    /\ tilecounter # TileIdle
    /\ tilecounter' = tilecounter + 1
    /\ Animate(charFrameCounter + 1)
    /\ UNCHANGED direction

(* Mutant: the frame that begins the walk is counted twice. *)
BeginStepLate ==
    /\ InGame
    /\ tilecounter = TileIdle
    /\ FacesKey
    /\ tilecounter' = 1
    /\ Animate(charFrameCounter + 1)
    /\ UNCHANGED direction

BeginStep ==
    /\ InGame
    /\ tilecounter = TileIdle
    /\ FacesKey
    /\ tilecounter' = 0
    /\ Animate(charFrameCounter + 1)
    /\ UNCHANGED direction

Turn ==
    /\ InGame
    /\ tilecounter = TileIdle
    /\ keycode \in WalkKeys /\ ~FacesKey
    /\ direction' = KeyDirection[keycode]
    /\ Animate(0)
    /\ UNCHANGED tilecounter

Stand ==
    /\ InGame
    /\ tilecounter = TileIdle
    /\ keycode \notin WalkKeys
    /\ Animate(charFrameCounter)
    /\ UNCHANGED <<direction, tilecounter>>

GameClock == StartScreen \/ Fade \/ WalkOn \/ BeginStep \/ Turn \/ Stand
===========================================================================
