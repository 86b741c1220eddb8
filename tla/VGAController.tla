--------------------------- MODULE VGAController ---------------------------
(***************************************************************************)
(* VGA_controller.sv with the reset button of lab8.sv: the pixel counters, *)
(* the VGA_VS edges they make, and the moments at which the rest of the    *)
(* design, which VGA_VS clocks, may see the button.                        *)
(***************************************************************************)
EXTENDS Integers

CONSTANTS
    H_TOTAL, V_TOTAL,           \* pixels of a line, lines of a frame
    HVisible, VVisible,         \* 640 and 480
    HSyncStart, HSyncEnd,       \* 656 and 752
    VSyncStart, VSyncEnd,       \* 490 and 492
    DrawFirst, DrawLast         \* lines 80 to 239: frameDrawer writes the
                                \* next picture at the end of each of them

ASSUME TimingAssumption ==
    /\ {H_TOTAL, V_TOTAL, HVisible, VVisible, HSyncStart, HSyncEnd,
        VSyncStart, VSyncEnd, DrawFirst, DrawLast} \subseteq Nat
    /\ 0 < HVisible /\ HVisible < HSyncStart
    /\ HSyncStart < HSyncEnd /\ HSyncEnd < H_TOTAL
    /\ 0 < DrawFirst /\ DrawFirst <= DrawLast
    /\ DrawLast < VVisible /\ VVisible < VSyncStart
    /\ VSyncStart < VSyncEnd /\ VSyncEnd < V_TOTAL

VARIABLES
    KEY0,               \* the reset button is held down
    Reset_h,            \* its register, on the 50 MHz clock
    pixelEdge,          \* the next 50 MHz edge is a VGA_CLK edge too
    h_counter, v_counter,
    VGA_HS, VGA_VS, VGA_BLANK_N,
    resetTaken          \* the game has run its Reset branch since the press

counters == <<h_counter, v_counter>>
outputs  == <<VGA_HS, VGA_VS, VGA_BLANK_N>>
vars == <<KEY0, Reset_h, pixelEdge, counters, outputs, resetTaken>>

Bit == {0, 1}

TypeOK ==
    /\ KEY0 \in BOOLEAN /\ Reset_h \in BOOLEAN /\ pixelEdge \in BOOLEAN
    /\ h_counter \in 0 .. H_TOTAL - 1
    /\ v_counter \in 0 .. V_TOTAL - 1
    /\ VGA_HS \in Bit /\ VGA_VS \in Bit /\ VGA_BLANK_N \in Bit
    /\ resetTaken \in BOOLEAN

Init ==
    /\ KEY0 = FALSE /\ Reset_h = FALSE /\ pixelEdge = TRUE
    /\ h_counter = 0 /\ v_counter = 0
    /\ VGA_HS = 0 /\ VGA_VS = 0 /\ VGA_BLANK_N = 0
    /\ resetTaken = FALSE

EndOfLine == h_counter + 1 = H_TOTAL

h_counter_in == IF EndOfLine THEN 0 ELSE h_counter + 1
\* Mutant: the last line is never left.
v_counter_in_stuck == IF EndOfLine /\ v_counter + 1 < V_TOTAL
                      THEN v_counter + 1 ELSE v_counter
v_counter_in == IF ~EndOfLine THEN v_counter
                ELSE IF v_counter + 1 = V_TOTAL THEN 0 ELSE v_counter + 1

Low(inPulse) == IF inPulse THEN 0 ELSE 1

(* Mutant: reset clears the outputs and not the line. *)
ResetPixelKeepsLine ==
    /\ Reset_h
    /\ h_counter' = 0 /\ UNCHANGED v_counter
    /\ VGA_HS' = 0 /\ VGA_VS' = 0 /\ VGA_BLANK_N' = 0

ResetPixel ==
    /\ Reset_h
    /\ h_counter' = 0 /\ v_counter' = 0
    /\ VGA_HS' = 0 /\ VGA_VS' = 0 /\ VGA_BLANK_N' = 0

NextPixel ==
    /\ ~Reset_h
    /\ h_counter' = h_counter_in
    /\ v_counter' = v_counter_in
    /\ VGA_HS' = Low(h_counter_in \in HSyncStart .. HSyncEnd - 1)
    /\ VGA_VS' = Low(v_counter_in \in VSyncStart .. VSyncEnd - 1)
    /\ VGA_BLANK_N' = Low(h_counter_in >= HVisible \/ v_counter_in >= VVisible)

Rises == VGA_VS = 0 /\ VGA_VS' = 1

(* A game register clocked by a rising VGA_VS samples Reset_h, which the   *)
(* same 50 MHz edge is changing: it may get the old or the new value.      *)
(* resetTaken is cleared by the press, and set by a sampled Reset.         *)
GameSees ==
    \E sampled \in {Reset_h, Reset_h'} :
        resetTaken' = (resetTaken \/ (Rises /\ sampled))

(* The 50 MHz edges: every second one is a VGA_CLK edge as well.           *)
PixelTick ==
    /\ pixelEdge
    /\ pixelEdge' = FALSE
    /\ Reset_h' = KEY0
    /\ ResetPixel \/ NextPixel
    /\ GameSees
    /\ UNCHANGED KEY0

PlainTick ==
    /\ ~pixelEdge
    /\ pixelEdge' = TRUE
    /\ Reset_h' = KEY0
    /\ UNCHANGED <<KEY0, counters, outputs, resetTaken>>

Press ==
    /\ ~KEY0
    /\ KEY0' = TRUE
    /\ resetTaken' = FALSE
    /\ UNCHANGED <<Reset_h, pixelEdge, counters, outputs>>

Release ==
    /\ KEY0
    /\ KEY0' = FALSE
    /\ UNCHANGED <<Reset_h, pixelEdge, counters, outputs, resetTaken>>

Next == PixelTick \/ PlainTick \/ Press \/ Release

(* The oscillator runs, whatever the player does with the button. *)
Spec == Init /\ [][Next]_vars
FairSpec == Spec /\ WF_vars(PixelTick) /\ WF_vars(PlainTick)
-----------------------------------------------------------------------------
(* The character moves on falling edges and turns on rising ones, also on  *)
(* the extra edges a press and a release of the button make.  None of them *)
(* comes while frameDrawer is writing the next picture, whose pixels use   *)
(* the position and the direction (framebuffer.sv:61-64, 118-217): no      *)
(* picture mixes two positions.                                            *)
EdgesOutsideDrawing ==
    [][VGA_VS' # VGA_VS => v_counter' \notin DrawFirst .. DrawLast]_vars

(* Whatever the player did before, a button left alone leaves the frame    *)
(* clock of the game running (VGA_controller.sv:73-95).                    *)
FramesKeepComing ==
    <>[](~KEY0) => []<>(VGA_VS = 0) /\ []<>(VGA_VS = 1)

(* lab8.sv:17 "bit 0 is set up as Reset": a press long enough to have     *)
(* reset the pixel counters has reset the game when Reset_h falls again.   *)
ButtonResetsGame ==
    [][Reset_h /\ ~Reset_h' /\ VGA_VS = 0 /\ counters = <<0, 0>> => resetTaken]_vars
=============================================================================
