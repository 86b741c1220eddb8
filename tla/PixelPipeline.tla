--------------------------- MODULE PixelPipeline ---------------------------
(***************************************************************************)
(* The picture of frameDrawer in framebuffer.sv and the memories of        *)
(* ram.sv: while the beam is right of the window, the row of the next      *)
(* picture with the number of the line is written; while it is in the      *)
(* window, a row is read at double size.  Every register is on the 50 MHz  *)
(* clock, two edges to a pixel.                                            *)
(*                                                                         *)
(* A pixel is where in the picture it belongs and the view it was drawn    *)
(* for.  Gym map and character sheet are memories behind one register      *)
(* each; as which of them a pixel comes from matters to no property here,  *)
(* they are one.                                                           *)
(***************************************************************************)
EXTENDS VGAController

CONSTANTS
    Left,               \* 80, the first pixel of the window
    Columns,            \* 240, the columns of the picture
    AddressRange,       \* 2^19
    Views,              \* positions and directions of the character
    MaxPresses          \* bound: presses of the reset button

Rows == DrawLast - DrawFirst + 1            \* 160
WriteFrom == Left + 2 * Columns             \* 560
Top == DrawFirst                            \* 80, of the window too

ASSUME PictureAssumption ==
    /\ {Left, Columns, MaxPresses} \subseteq Nat /\ Views # {}
    /\ 0 < Left /\ Left < Columns
    /\ H_TOTAL = WriteFrom + Columns
    /\ Top + 2 * Rows <= VVisible
    /\ AddressRange \in Nat
    /\ AddressRange > Rows * Columns + DrawFirst * Columns + WriteFrom

VARIABLES
    screen,             \* state_num of gameFSM
    view,               \* position and direction
    FBwe, FBdata_In,    \* the write port's registers
    Gymdata_Out,        \* the output register of the sprites' memories
    FBdata_Out,         \* the output register of the frame buffer
    FBmem,              \* FramebufferRam.mem
    presses             \* of the reset button so far

game == <<screen, view>>
pipeline == <<FBwe, FBdata_In, Gymdata_Out, FBdata_Out, FBmem>>
allVars == <<vars, game, pipeline, presses>>

Addresses == 0 .. Rows * Columns - 1
InWindow == /\ h_counter \in Left .. WriteFrom - 1
            /\ v_counter \in Top .. Top + 2 * Rows - 1
Drawing == h_counter \in WriteFrom .. H_TOTAL - 1 /\ v_counter \in DrawFirst .. DrawLast

\* Row, column and view; and what is no pixel of a picture: what the frame
\* buffer is loaded with, and what the sprites say of other addresses.
StartFrame == <<"start_frame">>
Black == <<"black">>
Elsewhere == <<"elsewhere">>
Pixels == ((0 .. Rows - 1) \X (0 .. Columns - 1) \X Views)
             \union {StartFrame, Black, Elsewhere}

PipelineTypeOK ==
    /\ screen \in {"start_screen", "fade", "draw_main_game"} /\ view \in Views
    /\ FBwe \in BOOLEAN
    /\ {FBdata_In, Gymdata_Out, FBdata_Out} \subseteq Pixels
    /\ FBmem \in [Addresses -> Pixels]
    /\ presses \in 0 .. MaxPresses

PipelineInit ==
    /\ Init
    /\ screen = "start_screen" /\ view \in Views
    /\ FBwe = FALSE /\ FBdata_In = Black
    /\ Gymdata_Out = Black /\ FBdata_Out = Black
    /\ FBmem = [a \in Addresses |-> StartFrame]
    /\ presses = 0

-----------------------------------------------------------------------------
(* The addresses.  That of a write is computed for any place of the beam,  *)
(* in 19 bits.                                                             *)
FBwrite_address ==
    ((v_counter - Top) * Columns + (h_counter - WriteFrom)) % AddressRange

\* Mutant: the lines are not doubled.
FBread_address_single ==
    IF InWindow /\ v_counter - Top < Rows
    THEN (v_counter - Top) * Columns + (h_counter - Left) \div 2 ELSE 0
FBread_address ==
    IF InWindow
    THEN ((v_counter - Top) \div 2) * Columns + (h_counter - Left) \div 2 ELSE 0

SpriteAt ==
    IF Drawing
    THEN <<v_counter - Top, h_counter - WriteFrom, view>>
    ELSE Elsewhere

(* In a fade each colour is lowered unless the beam's own is less than 5;  *)
(* where pixels are written the beam is black, so all three are masked.    *)
next_pixel ==
    CASE screen = "start_screen" -> FBdata_Out
      [] screen = "fade" -> Black
      [] screen = "draw_main_game" -> Gymdata_Out

(* An edge of the 50 MHz clock.                                            *)
ClkEdge ==
    /\ FBwe' = (Drawing /\ screen # "start_screen")
    /\ FBdata_In' = IF FBwe' THEN next_pixel ELSE FBdata_In
    /\ Gymdata_Out' = SpriteAt
    /\ FBdata_Out' = FBmem[FBread_address]
    /\ FBmem' = IF FBwe /\ FBwrite_address \in Addresses
                THEN [FBmem EXCEPT ![FBwrite_address] = FBdata_In] ELSE FBmem

(* The game: screen and direction change on a rising edge of VGA_VS, the   *)
(* position on a falling one.  A Reset that is sampled ends a fade.         *)
Follows(s) == CASE s = "start_screen" -> {"start_screen", "fade"}
                [] s = "fade" -> {"fade", "draw_main_game", "start_screen"}
                [] s = "draw_main_game" -> {"draw_main_game", "start_screen"}

GameEdge ==
    /\ IF VGA_VS' # VGA_VS THEN view' \in Views ELSE UNCHANGED view
    /\ IF Rises THEN screen' \in Follows(screen) ELSE UNCHANGED screen

PixelEdge == PixelTick /\ ClkEdge /\ GameEdge /\ UNCHANGED presses
PlainEdge == PlainTick /\ ClkEdge /\ UNCHANGED <<game, presses>>
Button ==
    /\ \/ Press /\ presses < MaxPresses /\ presses' = presses + 1
       \/ Release /\ UNCHANGED presses
    /\ UNCHANGED <<game, pipeline>>

PipelineNext == PixelEdge \/ PlainEdge \/ Button

PipelineSpec == /\ PipelineInit /\ [][PipelineNext]_allVars
                /\ WF_allVars(PixelEdge) /\ WF_allVars(PlainEdge)
-----------------------------------------------------------------------------
(* The write enable is a register and the write address is not: when the   *)
(* beam has gone on to the next line, one more write goes to where that    *)
(* line's address says, two rows up and short of the end by Left columns.  *)
(* The first two rows are shown before it happens to them.                 *)
Stray(row, col) == col = Columns - Left /\ row >= 2 /\ row + 2 < Rows

(* The pixel that the monitor takes at the end of each pixel clock.        *)
ShownRow == (v_counter - Top) \div 2
ShownCol == (h_counter - Left) \div 2
Shown == pixelEdge /\ InWindow

(* The reading beam never overtakes the writing one and is not overtaken:  *)
(* below its first line, the window shows pixels drawn since the last edge *)
(* of VGA_VS only, each in its row and, through the memory's register, one *)
(* column right of its own; whatever the button has done to the counters,  *)
(* and with the stray writes confined to one column.                       *)
ShowsThisFrame ==
    Shown /\ v_counter > Top /\ ShownCol > 0 /\ ~Stray(ShownRow, ShownCol) =>
        CASE screen = "draw_main_game" ->
                FBdata_Out = <<ShownRow, ShownCol - 1, view>>
          [] screen = "fade" -> FBdata_Out = Black
          [] screen = "start_screen" -> TRUE
=============================================================================
