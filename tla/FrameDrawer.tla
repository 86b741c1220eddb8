---------------------------- MODULE FrameDrawer ----------------------------
(***************************************************************************)
(* The position logic of frameDrawer in framebuffer.sv: the registers that *)
(* place the character, clocked by the falling edge of VGA_VS.             *)
(***************************************************************************)
EXTENDS Grid

VARIABLES
    pos,                \* <<charxcurrpos, charycurrpos>>
    everyotherframe     \* halves the speed of a character that walks

drawerVars == <<pos, everyotherframe>>

DrawerTypeOK == pos \in Pos /\ everyotherframe \in BOOLEAN

DrawerPowerUp == pos = PowerUpPos /\ everyotherframe = FALSE

(* Mutant: the walls are not asked. *)
WalkPosThroughWalls(dir, moving, running) ==
    IF moving /\ (everyotherframe \/ running) THEN Move(dir, pos) ELSE pos

(* One pixel every other frame, or every frame for a running character. *)
WalkPos(dir, moving, running) ==
    IF moving /\ ~Blocked(dir, pos) /\ (everyotherframe \/ running)
    THEN Move(dir, pos) ELSE pos

(* Mutant: the tile logic does not hold the character. *)
PlayFrameFree(dir, moving, running, held, heldAt) ==
    /\ pos' = WalkPos(dir, moving, running)
    /\ everyotherframe' = ~everyotherframe

(* Falling edge of VGA_VS, one action per value of state_num.  A character *)
(* held by the tile logic goes where the tile logic says.                  *)
SendHome ==
    /\ pos' = StartPos
    /\ everyotherframe' = FALSE

KeepPos == UNCHANGED drawerVars

PlayFrame(dir, moving, running, held, heldAt) ==
    /\ pos' = IF held THEN heldAt ELSE WalkPos(dir, moving, running)
    /\ everyotherframe' = ~everyotherframe
===========================================================================
