---------------------------- MODULE PokemonSteps ----------------------------
(***************************************************************************)
(* Pokemon with history variables that measure a walk: where it began and  *)
(* what happened to it.  They only watch; no action depends on them.       *)
(***************************************************************************)
EXTENDS Pokemon

VARIABLES
    origin,     \* position when the character last came to rest
    clear,      \* it has been neither held nor blocked nor sent home since
    begun,      \* the walk was begun by a key, in this game
    inStep,     \* the falling edge before the walk had seen that key too
    ran         \* KEY[1] was down at a falling edge of the walk

history  == <<origin, clear, begun, inStep, ran>>
stepVars == <<vars, history>>

InGameNow == gameState = "draw_main_game"
Rising    == vs = 0 /\ vs' = 1
Falling   == vs = 1 /\ vs' = 0

(* A rising edge at which no walk is under way starts a new measurement;   *)
(* a falling edge notes whatever keeps the character from walking freely,  *)
(* whether it moves before its walk is begun, and whether it runs.         *)
Watch ==
    LET rests   == Rising /\ (tilecounter' = TileIdle \/ ~InGameNow)
        stopped == atTile \/ ~InGameNow \/ (charIsMoving /\ Blocked(direction, pos))
    IN  /\ origin' = IF rests THEN pos' ELSE origin
        /\ clear'  = (rests \/ (clear /\ ~(Falling /\ stopped)))
        /\ begun'  = IF Rising
                     THEN InGameNow /\ (begun \/ tilecounter = TileIdle) /\ ~rests
                     ELSE begun
        /\ inStep' = IF Falling /\ tilecounter = TileIdle THEN charIsMoving
                     ELSE IF rests THEN FALSE ELSE inStep
        /\ ran'    = IF Falling /\ charIsMoving /\ running THEN TRUE
                     ELSE IF rests THEN FALSE ELSE ran

Measured == /\ Init
            /\ origin = pos /\ clear = TRUE
            /\ begun = FALSE /\ inStep = FALSE /\ ran = FALSE

StepsSpec == Measured /\ [][Next /\ Watch]_stepVars
FairStepsSpec == StepsSpec /\ Fairness

(* n pixels from p in direction d. *)
Along(d, p, n) == CASE d = Down  -> <<p[1], Plus(p[2], n)>>
                    [] d = Up    -> <<p[1], Minus(p[2], n)>>
                    [] d = Left  -> <<Minus(p[1], n), p[2]>>
                    [] d = Right -> <<Plus(p[1], n), p[2]>>

(* Frames of a walk that move the character: those that tilecounter counts *)
(* and the one before the count, if the key was there at its falling edge. *)
Frames == IF inStep THEN TileIdle + 1 ELSE TileIdle

(* Every other frame is a pixel; every frame, while the player runs.       *)
Lengths == Frames \div 2 .. (IF ran THEN Frames ELSE (Frames + 1) \div 2)

WalkEnds == Rising /\ InGameNow /\ tilecounter = TileIdle - 1

(* gameFSM.sv:116 "doing this for the character to walk in blocks of 16":  *)
(* a walk that a key began and nothing stopped has, when it ends, the      *)
(* length that its frames say, one block of 16 if both edges saw its key   *)
(* and nobody ran, 15 or 16 pixels if the key came between the two, and    *)
(* never more than two blocks, whatever is pressed meanwhile.  The key is  *)
(* looked at by the falling edge that moves the first pixel                *)
(* (gameFSM.sv:126-129) and again by the rising edge that starts the       *)
(* counter; everyotherframe keeps a parity of its own.                     *)
KeyWalkLength ==
    [][WalkEnds /\ clear /\ begun
         => \E n \in Lengths : pos = Along(direction, origin, n)]_stepVars

(* What the comment says by itself, of a walk without running.             *)
WalksInBlocks ==
    [][WalkEnds /\ clear /\ begun /\ ~ran
         => pos = Along(direction, origin, (TileIdle + 1) \div 2)]_stepVars
=============================================================================
