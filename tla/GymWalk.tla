------------------------------ MODULE GymWalk ------------------------------
(***************************************************************************)
(* What the game promises about the character, whatever the clocks, the    *)
(* counters and the spinning do: outside a game the character can only be  *)
(* sent home; a game begins at home; within a game it moves one pixel at a *)
(* time, never out of a blocked position in the blocked direction, or      *)
(* jumps from a teleport tile to that tile's partner.                      *)
(***************************************************************************)
EXTENDS Grid

VARIABLES pos,      \* position of the character
          playing   \* the main game is on the screen

walkVars == <<pos, playing>>

TypeOK == pos \in Pos /\ playing \in BOOLEAN

Init == pos = PowerUpPos /\ playing = FALSE

GoHome == /\ ~playing
          /\ pos' = StartPos
          /\ UNCHANGED playing

Begin == /\ ~playing
         /\ pos = StartPos
         /\ playing' = TRUE
         /\ UNCHANGED pos

Quit == /\ playing
        /\ playing' = FALSE
        /\ UNCHANGED pos

Step(d) == /\ playing
           /\ ~Blocked(d, pos)
           /\ pos' = Move(d, pos)
           /\ UNCHANGED playing

Teleport == /\ playing
            /\ Corner(pos) \in Pads
            /\ pos' = TopLeft(Partner[Corner(pos)])
            /\ UNCHANGED playing

Next == \/ GoHome
        \/ Begin
        \/ Quit
        \/ \E d \in Directions : Step(d)
        \/ Teleport

Spec == Init /\ [][Next]_walkVars
===========================================================================
