------------------------ MODULE PixelPipelineProofs ------------------------
(***************************************************************************)
(* Proofs about the picture, for screens and pictures of every size: the   *)
(* registers and the frame buffer keep their types, no edge of VGA_VS      *)
(* comes while a picture is written or shown, and what is shown was drawn  *)
(* in this frame.                                                          *)
(***************************************************************************)
EXTENDS PixelPipeline, TLAPS

-----------------------------------------------------------------------------
(* The sizes.                                                              *)
LEMMA Sizes ==
    /\ Left \in Nat /\ Columns \in Nat /\ 0 < Left /\ Left < Columns
    /\ Top \in Nat /\ Top > 0 /\ DrawFirst = Top
    /\ Rows \in Nat /\ Rows > 0 /\ DrawLast \in Nat /\ DrawLast = Top + Rows - 1
    /\ WriteFrom \in Nat /\ WriteFrom = Left + 2 * Columns
    /\ H_TOTAL \in Nat /\ H_TOTAL = WriteFrom + Columns
    /\ {V_TOTAL, VSyncStart, VSyncEnd} \subseteq Nat
    /\ Top + 2 * Rows < VSyncStart
    /\ VSyncStart < VSyncEnd /\ VSyncEnd < V_TOTAL
BY TimingAssumption, PictureAssumption DEF Top, Rows, WriteFrom

(* Two places of the picture have two addresses.                           *)
LEMMA RowsApart ==
    ASSUME NEW r \in Nat, NEW s \in Nat, r < s, NEW c \in 0 .. Columns - 1
    PROVE  r * Columns + c < s * Columns
<1> DEFINE W == Columns
           k == s - r - 1
<1>1. W \in Nat /\ k \in Nat /\ s = r + 1 + k
  BY Sizes
<1> HIDE DEF W, k
<1>2. (r + 1 + k) * W = r * W + W + k * W /\ k * W \in Nat /\ r * W \in Nat
  BY <1>1, SMT
<1>3. c \in Nat /\ c < W
  BY Sizes DEF W
<1> DEFINE x == r * W
           y == k * W
<1>4. s * W = x + W + y /\ x \in Nat /\ y \in Nat
  BY <1>1, <1>2
<1> HIDE DEF x, y
<1>5. x + c < s * W
  BY <1>1, <1>3, <1>4
<1> QED BY <1>5 DEF x, W

LEMMA AddressesApart ==
    ASSUME NEW r \in Nat, NEW s \in Nat,
           NEW c \in 0 .. Columns - 1, NEW d \in 0 .. Columns - 1,
           r * Columns + c = s * Columns + d
    PROVE  r = s /\ c = d
<1>1. r * Columns \in Nat /\ s * Columns \in Nat /\ c \in Nat /\ d \in Nat
  BY Sizes, SMT
<1>2. ~(r < s)
  BY <1>1, RowsApart
<1>3. ~(s < r)
  BY <1>1, RowsApart
<1>4. r = s
  BY <1>2, <1>3
<1> QED BY <1>1, <1>4

(* The places of the picture are the memory's addresses.                   *)
LEMMA PlaceIsAddress ==
    ASSUME NEW r \in 0 .. Rows - 1, NEW c \in 0 .. Columns - 1
    PROVE  r * Columns + c \in Addresses
<1>1. r \in Nat /\ Rows \in Nat /\ r < Rows
  BY Sizes
<1>2. r * Columns + c < Rows * Columns
  BY <1>1, RowsApart
<1>3. r * Columns \in Nat /\ Rows * Columns \in Nat /\ c \in Nat
  BY <1>1, Sizes, SMT
<1> QED BY <1>2, <1>3 DEF Addresses

(* Address arithmetic modulo its width.                                    *)
LEMMA SmallMod ==
    ASSUME NEW a \in Nat, NEW m \in Nat, a < m PROVE a % m = a
BY SMT

LEMMA NegativeMod ==
    ASSUME NEW a \in Nat, NEW m \in Nat, 0 < a, a <= m PROVE (-a) % m = m - a
BY SMT

(* Halving.                                                                *)
LEMMA Half ==
    ASSUME NEW n \in Nat
    PROVE  /\ n \div 2 \in Nat
           /\ 2 * (n \div 2) <= n /\ n <= 2 * (n \div 2) + 1
BY SMT

-----------------------------------------------------------------------------
(* The inductive invariant.                                                *)
line == v_counter - Top
Showing == v_counter \in Top .. Top + 2 * Rows - 1

\* What column c of row r has to hold.
Good(r, c) ==
    IF screen = "draw_main_game" THEN <<r, c - 1, view>> ELSE Black

(* VGA_VS is low during the sync lines and right after a reset.            *)
Timing ==
    /\ VGA_VS = 0 => \/ v_counter \in VSyncStart .. VSyncEnd - 1
                     \/ h_counter = 0 /\ v_counter = 0
    /\ VGA_VS = 1 => v_counter \notin VSyncStart .. VSyncEnd - 1

(* The write enable says where the beam was an edge ago.                   *)
EnableOK ==
    /\ pixelEdge => (FBwe <=> Drawing /\ screen # "start_screen")
    /\ ~pixelEdge /\ FBwe =>
          \/ Drawing /\ h_counter > WriteFrom /\ screen # "start_screen"
          \/ h_counter = 0 /\ (v_counter = 0 \/ v_counter - 1 \in DrawFirst .. DrawLast)

(* So do the registers in front of the memory: the one that is written     *)
(* next holds the pixel left of the beam.                                  *)
DataOK ==
    Drawing =>
        /\ pixelEdge => Gymdata_Out = <<line, h_counter - WriteFrom, view>>
        /\ ~pixelEdge /\ h_counter > WriteFrom =>
              Gymdata_Out = <<line, h_counter - 1 - WriteFrom, view>>
        /\ h_counter > WriteFrom /\ screen # "start_screen" =>
              FBdata_In = Good(line, h_counter - WriteFrom)

(* What the beam has passed is written, but for the stray writes.          *)
Written(r, c) == r < line \/ (r = line /\ c < h_counter - WriteFrom)
Strayed(r, c) == c = Columns - Left /\ r + 2 < Rows /\ r + 3 <= line
At(r, c) == r * Columns + c
MemOK ==
    Showing /\ screen # "start_screen" =>
        \A r \in 0 .. Rows - 1, c \in 1 .. Columns - 1 :
            Written(r, c) /\ ~Strayed(r, c) => FBmem[At(r, c)] = Good(r, c)

PictureInv ==
    /\ TypeOK /\ PipelineTypeOK
    /\ Timing /\ EnableOK /\ DataOK /\ MemOK /\ ShowsThisFrame

-----------------------------------------------------------------------------
(* The controller.                                                         *)

LEMMA InitPicture == PipelineInit => PictureInv
<1> SUFFICES ASSUME PipelineInit PROVE PictureInv
  OBVIOUS
<1> USE DEF PipelineInit, Init
<1>1. TypeOK
  <2>1. 0 \in 0 .. H_TOTAL - 1 /\ 0 \in 0 .. V_TOTAL - 1
    BY Sizes
  <2> QED BY <2>1 DEF TypeOK, Bit
<1>2. PipelineTypeOK
  <2>1. FBmem \in [Addresses -> Pixels]
    BY DEF Pixels
  <2>2. presses \in 0 .. MaxPresses
    BY PictureAssumption
  <2> QED BY <2>1, <2>2 DEF PipelineTypeOK, Pixels
<1>3. ~Drawing /\ ~Showing /\ ~InWindow
  BY Sizes DEF Drawing, Showing, InWindow
<1>4. Timing
  BY Sizes DEF Timing
<1>5. EnableOK /\ DataOK /\ MemOK /\ ShowsThisFrame
  BY <1>3 DEF EnableOK, DataOK, MemOK, ShowsThisFrame, Shown
<1> QED BY <1>1, <1>2, <1>4, <1>5 DEF PictureInv

(* Where the beam goes.                                                    *)
LEMMA BeamMoves ==
    ASSUME TypeOK, PixelTick
    PROVE  \/ h_counter' = 0 /\ v_counter' = 0
           \/ h_counter' = h_counter + 1 /\ v_counter' = v_counter
                /\ h_counter + 1 < H_TOTAL
           \/ h_counter' = 0 /\ v_counter' = v_counter + 1
                /\ h_counter + 1 = H_TOTAL /\ v_counter + 1 < V_TOTAL
BY Sizes DEF TypeOK, PixelTick, ResetPixel, NextPixel, h_counter_in, v_counter_in,
             EndOfLine

LEMMA ControllerTypes == TypeOK /\ [Next]_vars => TypeOK'
<1> SUFFICES ASSUME TypeOK, [Next]_vars PROVE TypeOK'
  OBVIOUS
<1>1. CASE PixelTick
  <2>1. h_counter' \in 0 .. H_TOTAL - 1 /\ v_counter' \in 0 .. V_TOTAL - 1
    BY <1>1, BeamMoves, Sizes DEF TypeOK
  <2>2. VGA_HS' \in Bit /\ VGA_VS' \in Bit /\ VGA_BLANK_N' \in Bit
    BY <1>1 DEF PixelTick, ResetPixel, NextPixel, Low, Bit
  <2>3. resetTaken' \in BOOLEAN
    BY <1>1 DEF PixelTick, GameSees
  <2>4. KEY0' \in BOOLEAN /\ Reset_h' \in BOOLEAN /\ pixelEdge' \in BOOLEAN
    BY <1>1 DEF TypeOK, PixelTick
  <2> QED BY <2>1, <2>2, <2>3, <2>4 DEF TypeOK
<1>2. CASE PlainTick \/ Press \/ Release \/ UNCHANGED vars
  BY <1>2 DEF TypeOK, PlainTick, Press, Release, vars, counters, outputs
<1> QED BY <1>1, <1>2 DEF Next

LEMMA TimingStep == TypeOK /\ Timing /\ [Next]_vars => Timing'
<1> SUFFICES ASSUME TypeOK, Timing, [Next]_vars PROVE Timing'
  OBVIOUS
<1>1. CASE PixelTick
  <2>1. CASE ResetPixel
    BY <2>1, Sizes DEF ResetPixel, Timing
  <2>2. CASE NextPixel
    BY <2>2, Sizes DEF NextPixel, Timing, Low
  <2> QED BY <1>1, <2>1, <2>2 DEF PixelTick
<1>2. CASE PlainTick \/ Press \/ Release \/ UNCHANGED vars
  BY <1>2 DEF Timing, PlainTick, Press, Release, vars, counters, outputs
<1> QED BY <1>1, <1>2 DEF Next

(* No edge of VGA_VS among the lines that are drawn and shown.             *)
LEMMA QuietLines ==
    ASSUME TypeOK, Timing, PixelTick, v_counter' \in Top .. Top + 2 * Rows - 1
    PROVE  VGA_VS' = VGA_VS
<1>1. NextPixel /\ v_counter' = v_counter_in
  BY Sizes DEF PixelTick, ResetPixel, NextPixel
<1>2. v_counter' \notin VSyncStart .. VSyncEnd - 1
  BY Sizes
<1>3. VGA_VS' = 1
  BY <1>1, <1>2 DEF NextPixel, Low
<1>4. \/ v_counter' = v_counter
      \/ v_counter' = v_counter + 1 /\ h_counter + 1 = H_TOTAL
  <2>1. Top > 0 /\ v_counter' # 0
    BY Sizes
  <2> QED BY <2>1, BeamMoves
<1>5. v_counter \in Nat /\ v_counter < VSyncStart /\ ~(h_counter = 0 /\ v_counter = 0)
  BY <1>4, Sizes DEF TypeOK
<1>6. VGA_VS # 0
  BY <1>5, Sizes DEF Timing
<1> QED BY <1>3, <1>6 DEF TypeOK, Bit

LEMMA GameStays ==
    ASSUME TypeOK, Timing, PixelTick, GameEdge, v_counter' \in Top .. Top + 2 * Rows - 1
    PROVE  screen' = screen /\ view' = view
BY QuietLines DEF GameEdge, Rises

-----------------------------------------------------------------------------
(* The addresses of the ports.                                             *)
LEMMA ReadAddress ==
    ASSUME TypeOK
    PROVE  /\ FBread_address \in Addresses
           /\ InWindow => /\ ShownRow \in 0 .. Rows - 1 /\ ShownCol \in 0 .. Columns - 1
                          /\ FBread_address = At(ShownRow, ShownCol)
<1>1. h_counter \in Nat /\ v_counter \in Nat
  BY Sizes DEF TypeOK
<1>2. CASE InWindow
  <2>1. /\ v_counter - Top \in Nat /\ v_counter - Top < 2 * Rows
        /\ h_counter - Left \in Nat /\ h_counter - Left < 2 * Columns
    BY <1>1, <1>2, Sizes DEF InWindow
  <2>2. ShownRow \in 0 .. Rows - 1 /\ ShownCol \in 0 .. Columns - 1
    BY <2>1, Half, Sizes DEF ShownRow, ShownCol
  <2>3. FBread_address = At(ShownRow, ShownCol)
    BY <1>2 DEF FBread_address, At, ShownRow, ShownCol
  <2> QED BY <2>2, <2>3, PlaceIsAddress DEF At
<1>3. CASE ~InWindow
  <2>1. 0 \in 0 .. Rows - 1 /\ 0 \in 0 .. Columns - 1 /\ 0 * Columns + 0 = 0
    BY Sizes
  <2>2. 0 \in Addresses
    BY <2>1, PlaceIsAddress
  <2> QED BY <1>3, <2>2 DEF FBread_address
<1> QED BY <1>2, <1>3

LEMMA DrawnPlace ==
    ASSUME TypeOK, Drawing
    PROVE  /\ line \in 0 .. Rows - 1 /\ h_counter - WriteFrom \in 0 .. Columns - 1
           /\ FBwrite_address = At(line, h_counter - WriteFrom)
<1>1. line \in 0 .. Rows - 1 /\ h_counter - WriteFrom \in 0 .. Columns - 1
  BY Sizes DEF TypeOK, Drawing, line
<1>2. At(line, h_counter - WriteFrom) \in Addresses
  BY <1>1, PlaceIsAddress DEF At
<1>3. At(line, h_counter - WriteFrom) < AddressRange
  <2>1. Rows * Columns \in Nat /\ DrawFirst * Columns \in Nat
    BY Sizes, SMT
  <2>2. AddressRange \in Nat /\ AddressRange > Rows * Columns
    BY <2>1, PictureAssumption, Sizes
  <2> QED BY <1>2, <2>1, <2>2 DEF Addresses
<1>4. AddressRange \in Nat /\ At(line, h_counter - WriteFrom) \in Nat
  <2>1. Rows * Columns \in Nat
    BY Sizes, SMT
  <2> QED BY <1>2, <2>1, PictureAssumption DEF Addresses
<1>5. FBwrite_address = At(line, h_counter - WriteFrom) % AddressRange
  BY DEF FBwrite_address, At, line
<1> QED BY <1>1, <1>3, <1>4, <1>5, SmallMod

(* The write that comes too late, at the start of the next line.           *)
LEMMA LatePlace ==
    ASSUME TypeOK, h_counter = 0, v_counter - 1 \in DrawFirst .. DrawLast,
           FBwrite_address \in Addresses
    PROVE  /\ line - 3 \in 0 .. Rows - 3
           /\ FBwrite_address = At(line - 3, Columns - Left)
<1> DEFINE n == line
           W == Columns
<1>1. n \in 1 .. Rows /\ v_counter - Top = n
  BY Sizes DEF TypeOK, line
<1>2. W \in Nat /\ Left \in Nat /\ Left < W /\ 0 < Left /\ WriteFrom = Left + 2 * W
  BY Sizes
<1>3. FBwrite_address = (n * W - WriteFrom) % AddressRange
  <2>1. FBwrite_address = (n * W + (0 - WriteFrom)) % AddressRange
    BY <1>1 DEF FBwrite_address
  <2>2. n * W \in Int /\ WriteFrom \in Nat
    BY <1>1, <1>2, Sizes, SMT
  <2> HIDE DEF n, W
  <2>3. n * W + (0 - WriteFrom) = n * W - WriteFrom
    BY <2>2
  <2> QED BY <2>1, <2>3
<1>4. AddressRange \in Nat /\ AddressRange > Rows * Columns + WriteFrom
      /\ Rows * Columns \in Nat /\ WriteFrom \in Nat
  <2>1. Rows * Columns \in Nat /\ DrawFirst * Columns \in Nat
    BY Sizes, SMT
  <2> QED BY <2>1, PictureAssumption, Sizes
<1> HIDE DEF n, W
<1>5. CASE n \in {1, 2}
  <2>1. n * W - WriteFrom = -(WriteFrom - n * W) /\ WriteFrom - n * W \in Nat
        /\ 0 < WriteFrom - n * W /\ WriteFrom - n * W <= WriteFrom
    <3>1. n * W = W \/ n * W = 2 * W
      BY <1>2, <1>5
    <3> QED BY <1>2, <3>1
  <2>2. FBwrite_address = AddressRange - (WriteFrom - n * W)
    <3> DEFINE a == WriteFrom - n * W
    <3>1. a \in Nat /\ 0 < a /\ a <= AddressRange /\ n * W - WriteFrom = -a
      BY <2>1, <1>4
    <3> HIDE DEF a
    <3>2. FBwrite_address = AddressRange - a
      BY <3>1, <1>3, <1>4, NegativeMod
    <3> QED BY <3>2 DEF a
  <2>3. FBwrite_address > Rows * Columns
    <3> DEFINE a == WriteFrom - n * W
    <3>1. FBwrite_address = AddressRange - a /\ a \in Nat /\ a <= WriteFrom
      BY <2>1, <2>2
    <3> HIDE DEF a
    <3> QED BY <3>1, <1>4
  <2> QED BY <2>3, <1>4 DEF Addresses
<1>6. CASE n >= 3
  <2>1. n - 3 \in 0 .. Rows - 3 /\ n - 3 \in 0 .. Rows - 1
    BY <1>1, <1>6, Sizes
  <2>2. n * W = (n - 3) * W + 3 * W /\ (n - 3) * W \in Nat
    BY <1>1, <1>2, <2>1, SMT
  <2>3. n * W - WriteFrom = At(n - 3, W - Left)
    <3> DEFINE x == (n - 3) * W
    <3>1. n * W = x + 3 * W /\ x \in Nat
      BY <2>2
    <3> HIDE DEF x
    <3>2. n * W - WriteFrom = x + (W - Left)
      BY <3>1, <1>2
    <3> QED BY <3>2 DEF At, x, W
  <2>4. At(n - 3, W - Left) \in Addresses
    BY <1>2, <2>1, PlaceIsAddress DEF At, W
  <2>5. At(n - 3, W - Left) \in Nat /\ At(n - 3, W - Left) < AddressRange
    BY <1>4, <2>4 DEF Addresses
  <2>6. FBwrite_address = At(n - 3, W - Left)
    BY <1>3, <1>4, <2>3, <2>5, SmallMod
  <2> QED BY <2>1, <2>6 DEF n, W
<1>7. n \in {1, 2} \/ n >= 3
  BY <1>1
<1> QED BY <1>5, <1>6, <1>7

-----------------------------------------------------------------------------
(* The pipeline's registers and memory keep their types.                   *)
LEMMA PipelineSteps ==
    PipelineNext => [Next]_vars
BY DEF PipelineNext, PixelEdge, PlainEdge, Button, Next

LEMMA ClkTypes ==
    ASSUME TypeOK, PipelineTypeOK, ClkEdge
    PROVE  /\ FBwe' \in BOOLEAN
           /\ {FBdata_In', Gymdata_Out', FBdata_Out'} \subseteq Pixels
           /\ FBmem' \in [Addresses -> Pixels]
<1>1. FBwe' \in BOOLEAN
  BY DEF ClkEdge
<1>2. next_pixel \in Pixels
  BY DEF PipelineTypeOK, next_pixel, Pixels
<1>3. FBdata_In' \in Pixels
  BY <1>2 DEF ClkEdge, PipelineTypeOK
<1>4. SpriteAt \in Pixels
  <2>1. CASE Drawing
    <3>1. v_counter - Top \in 0 .. Rows - 1 /\ h_counter - WriteFrom \in 0 .. Columns - 1
      BY <2>1, DrawnPlace DEF line
    <3> QED BY <2>1, <3>1 DEF SpriteAt, Pixels, PipelineTypeOK
  <2>2. CASE ~Drawing
    BY <2>2 DEF SpriteAt, Pixels
  <2> QED BY <2>1, <2>2
<1>5. FBdata_Out' \in Pixels
  BY ReadAddress DEF ClkEdge, PipelineTypeOK
<1>6. FBmem' \in [Addresses -> Pixels]
  BY DEF ClkEdge, PipelineTypeOK
<1> QED BY <1>1, <1>3, <1>4, <1>5, <1>6 DEF ClkEdge

LEMMA GameTypes ==
    ASSUME PipelineTypeOK, GameEdge
    PROVE  screen' \in {"start_screen", "fade", "draw_main_game"} /\ view' \in Views
BY DEF PipelineTypeOK, GameEdge, Follows

LEMMA PipelineTypesStep ==
    TypeOK /\ PipelineTypeOK /\ [PipelineNext]_allVars => PipelineTypeOK'
<1> SUFFICES ASSUME TypeOK, PipelineTypeOK, [PipelineNext]_allVars
             PROVE  PipelineTypeOK'
  OBVIOUS
<1>1. CASE PixelEdge
  BY <1>1, ClkTypes, GameTypes DEF PixelEdge, PipelineTypeOK
<1>2. CASE PlainEdge
  BY <1>2, ClkTypes DEF PlainEdge, PipelineTypeOK, game
<1>3. CASE Button
  <2>1. presses' \in 0 .. MaxPresses
    BY <1>3, PictureAssumption DEF Button, PipelineTypeOK
  <2> QED BY <1>3, <2>1 DEF Button, PipelineTypeOK, game, pipeline
<1>4. CASE UNCHANGED allVars
  BY <1>4 DEF PipelineTypeOK, allVars, game, pipeline
<1> QED BY <1>1, <1>2, <1>3, <1>4 DEF PipelineNext

-----------------------------------------------------------------------------
(* The write enable and the registers in front of the memory.              *)
LEMMA EnableStep ==
    PictureInv /\ PipelineNext => EnableOK'
<1> SUFFICES ASSUME PictureInv, PipelineNext PROVE EnableOK'
  OBVIOUS
<1> USE DEF PictureInv
<1>1. CASE PixelEdge
  <2>1. PixelTick /\ ClkEdge /\ GameEdge /\ ~pixelEdge'
    BY <1>1 DEF PixelEdge, PixelTick
  <2>2. SUFFICES ASSUME FBwe'
        PROVE  \/ Drawing' /\ h_counter' > WriteFrom /\ screen' # "start_screen"
               \/ /\ h_counter' = 0
                  /\ v_counter' = 0 \/ v_counter' - 1 \in DrawFirst .. DrawLast
    BY <2>1 DEF EnableOK
  <2>3. Drawing /\ screen # "start_screen"
    BY <2>1, <2>2 DEF ClkEdge
  <2>4. CASE h_counter' = h_counter + 1 /\ v_counter' = v_counter
             /\ h_counter + 1 < H_TOTAL
    <3>1. Drawing' /\ h_counter' > WriteFrom
      BY <2>3, <2>4, Sizes DEF Drawing
    <3>2. v_counter' \in Top .. Top + 2 * Rows - 1
      BY <3>1, Sizes DEF Drawing
    <3>3. screen' = screen
      BY <2>1, <3>2, GameStays
    <3> QED BY <2>3, <3>1, <3>3
  <2>5. CASE h_counter' = 0 /\ v_counter' = v_counter + 1
    BY <2>3, <2>5, Sizes DEF Drawing
  <2> QED BY <2>1, <2>4, <2>5, BeamMoves
<1>2. CASE PlainEdge
  <2>1. pixelEdge' /\ ClkEdge /\ UNCHANGED <<h_counter, v_counter, screen>>
    BY <1>2 DEF PlainEdge, PlainTick, counters, game
  <2> QED BY <2>1 DEF ClkEdge, EnableOK, Drawing
<1>3. CASE Button
  BY <1>3 DEF Button, Press, Release, counters, game, pipeline, EnableOK, Drawing
<1> QED BY <1>1, <1>2, <1>3 DEF PipelineNext

(* What goes into the write register belongs to the pixel left of it.      *)
LEMMA NextPixelGood ==
    ASSUME PipelineTypeOK, screen # "start_screen", NEW c \in Nat,
           Gymdata_Out = <<line, c, view>>
    PROVE  next_pixel = Good(line, c + 1)
<1>1. screen \in {"fade", "draw_main_game"} /\ (c + 1) - 1 = c
  BY DEF PipelineTypeOK
<1> QED BY <1>1 DEF next_pixel, Good

LEMMA DataStep ==
    PictureInv /\ PipelineNext => DataOK'
<1> SUFFICES ASSUME PictureInv, PipelineNext PROVE DataOK'
  OBVIOUS
<1> USE DEF PictureInv
<1>1. CASE PixelEdge
  <2>1. PixelTick /\ ClkEdge /\ GameEdge /\ ~pixelEdge' /\ pixelEdge
    BY <1>1 DEF PixelEdge, PixelTick
  <2>2. SUFFICES ASSUME Drawing', h_counter' > WriteFrom
        PROVE  /\ Gymdata_Out' = <<line', h_counter' - 1 - WriteFrom, view'>>
               /\ screen' # "start_screen" =>
                     FBdata_In' = Good(line, h_counter - WriteFrom)'
    BY <2>1 DEF DataOK
  <2>3. h_counter' = h_counter + 1 /\ v_counter' = v_counter /\ h_counter \in Nat
    BY <2>1, <2>2, BeamMoves, Sizes DEF TypeOK
  <2>4. Drawing /\ line' = line /\ h_counter' - 1 - WriteFrom = h_counter - WriteFrom
        /\ h_counter' - WriteFrom = (h_counter - WriteFrom) + 1
        /\ h_counter - WriteFrom \in Nat
    BY <2>2, <2>3, Sizes DEF Drawing, line, TypeOK
  <2>5. v_counter' \in Top .. Top + 2 * Rows - 1
    BY <2>2, Sizes DEF Drawing
  <2>6. screen' = screen /\ view' = view
    BY <2>1, <2>5, GameStays
  <2>7. Gymdata_Out' = <<line, h_counter - WriteFrom, view>>
    BY <2>1, <2>4 DEF ClkEdge, SpriteAt, line
  <2>8. ASSUME screen # "start_screen"
        PROVE  FBdata_In' = Good(line, (h_counter - WriteFrom) + 1)
    <3>1. FBdata_In' = next_pixel
      BY <2>1, <2>4, <2>8 DEF ClkEdge
    <3>2. Gymdata_Out = <<line, h_counter - WriteFrom, view>>
      BY <2>1, <2>4 DEF DataOK
    <3> QED BY <2>4, <2>8, <3>1, <3>2, NextPixelGood
  <2>9. Good(line, h_counter - WriteFrom)' = Good(line, (h_counter - WriteFrom) + 1)
    BY <2>4, <2>6 DEF Good
  <2> QED BY <2>4, <2>6, <2>7, <2>8, <2>9
<1>2. CASE PlainEdge
  <2>1. /\ pixelEdge' /\ ~pixelEdge /\ ClkEdge
        /\ UNCHANGED <<h_counter, v_counter, screen, view>>
    BY <1>2 DEF PlainEdge, PlainTick, counters, game
  <2>2. SUFFICES ASSUME Drawing
        PROVE  /\ Gymdata_Out' = <<line, h_counter - WriteFrom, view>>
               /\ h_counter > WriteFrom /\ screen # "start_screen" =>
                     FBdata_In' = Good(line, h_counter - WriteFrom)
    BY <2>1 DEF DataOK, Drawing, line, Good
  <2>3. Gymdata_Out' = <<line, h_counter - WriteFrom, view>>
    BY <2>1, <2>2 DEF ClkEdge, SpriteAt, line
  <2>4. ASSUME h_counter > WriteFrom, screen # "start_screen"
        PROVE  FBdata_In' = Good(line, h_counter - WriteFrom)
    <3>1. FBdata_In' = next_pixel
      BY <2>1, <2>2, <2>4 DEF ClkEdge
    <3>2. Gymdata_Out = <<line, h_counter - 1 - WriteFrom, view>>
      BY <2>1, <2>2, <2>4 DEF DataOK
    <3>3. /\ h_counter - 1 - WriteFrom \in Nat
          /\ (h_counter - 1 - WriteFrom) + 1 = h_counter - WriteFrom
      BY <2>4, Sizes DEF TypeOK
    <3>4. next_pixel = Good(line, (h_counter - 1 - WriteFrom) + 1)
      BY <2>4, <3>2, <3>3, NextPixelGood
    <3> QED BY <3>1, <3>3, <3>4
  <2> QED BY <2>3, <2>4
<1>3. CASE Button
  BY <1>3 DEF Button, Press, Release, counters, game, pipeline, DataOK, Drawing,
              line, Good
<1> QED BY <1>1, <1>2, <1>3 DEF PipelineNext

-----------------------------------------------------------------------------
(* The memory.                                                             *)
LEMMA OtherPlaces ==
    ASSUME PipelineTypeOK, ClkEdge, NEW r \in 0 .. Rows - 1, NEW c \in 0 .. Columns - 1,
           ~(FBwe /\ FBwrite_address = At(r, c))
    PROVE  FBmem'[At(r, c)] = FBmem[At(r, c)]
<1>1. At(r, c) \in Addresses
  BY PlaceIsAddress DEF At
<1> QED BY <1>1 DEF ClkEdge, PipelineTypeOK

LEMMA ThisPlace ==
    ASSUME PipelineTypeOK, ClkEdge, NEW r \in 0 .. Rows - 1, NEW c \in 0 .. Columns - 1,
           FBwe, FBwrite_address = At(r, c)
    PROVE  FBmem'[At(r, c)] = FBdata_In
<1>1. At(r, c) \in Addresses
  BY PlaceIsAddress DEF At
<1> QED BY <1>1 DEF ClkEdge, PipelineTypeOK

(* While the beam draws, a good pixel goes to the place it belongs to.     *)
LEMMA DrawnPixel ==
    ASSUME PictureInv, ClkEdge, Drawing, FBwe, screen # "start_screen",
           NEW r \in 0 .. Rows - 1, NEW c \in 1 .. Columns - 1
    PROVE  FBmem'[At(r, c)] = IF r = line /\ c = h_counter - WriteFrom
                              THEN Good(r, c) ELSE FBmem[At(r, c)]
<1> USE DEF PictureInv
<1>1. c \in 0 .. Columns - 1 /\ r \in Nat /\ c > 0
  BY Sizes
<1>2. /\ line \in 0 .. Rows - 1 /\ h_counter - WriteFrom \in 0 .. Columns - 1
      /\ FBwrite_address = At(line, h_counter - WriteFrom)
  BY DrawnPlace
<1>3. CASE r = line /\ c = h_counter - WriteFrom
  <2>1. h_counter > WriteFrom
    BY <1>1, <1>3, Sizes DEF TypeOK
  <2>2. FBdata_In = Good(r, c)
    BY <1>3, <2>1 DEF DataOK
  <2>3. FBwrite_address = At(r, c)
    BY <1>2, <1>3
  <2>4. FBmem'[At(r, c)] = FBdata_In
    BY <1>1, <2>3, ThisPlace
  <2> QED BY <1>3, <2>2, <2>4
<1>4. CASE ~(r = line /\ c = h_counter - WriteFrom)
  <2>1. line \in Nat
    BY <1>2, Sizes
  <2>2. FBwrite_address # At(r, c)
    BY <1>1, <1>2, <1>4, <2>1, AddressesApart DEF At
  <2>3. FBmem'[At(r, c)] = FBmem[At(r, c)]
    BY <1>1, <2>2, OtherPlaces
  <2> QED BY <1>4, <2>3
<1> QED BY <1>3, <1>4

(* The late write harms no place that has not strayed.                     *)
LEMMA LatePixel ==
    ASSUME PictureInv, ClkEdge, h_counter = 0, v_counter - 1 \in DrawFirst .. DrawLast,
           NEW r \in 0 .. Rows - 1, NEW c \in 1 .. Columns - 1, ~Strayed(r, c)
    PROVE  FBmem'[At(r, c)] = FBmem[At(r, c)]
<1> USE DEF PictureInv
<1>1. c \in 0 .. Columns - 1 /\ r \in Nat /\ line \in Nat
  BY Sizes DEF TypeOK, line
<1>2. ASSUME FBwrite_address = At(r, c) PROVE FALSE
  <2>1. FBwrite_address \in Addresses
    BY <1>1, <1>2, PlaceIsAddress DEF At
  <2>2. line - 3 \in 0 .. Rows - 3 /\ FBwrite_address = At(line - 3, Columns - Left)
    BY <2>1, LatePlace
  <2>3. line - 3 \in Nat /\ Columns - Left \in 0 .. Columns - 1
    BY <2>2, Sizes
  <2>4. r = line - 3 /\ c = Columns - Left
    BY <1>1, <1>2, <2>2, <2>3, AddressesApart DEF At
  <2>5. r + 2 < Rows /\ r + 3 <= line
    BY <1>1, <2>2, <2>4, Sizes
  <2> QED BY <2>4, <2>5 DEF Strayed
<1> QED BY <1>1, <1>2, OtherPlaces

LEMMA MemStep ==
    PictureInv /\ PipelineNext => MemOK'
<1> SUFFICES ASSUME PictureInv, PipelineNext PROVE MemOK'
  OBVIOUS
<1> USE DEF PictureInv
<1>1. CASE PixelEdge
  <2>1. PixelTick /\ ClkEdge /\ GameEdge /\ pixelEdge
    BY <1>1 DEF PixelEdge, PixelTick
  <2>2. SUFFICES ASSUME Showing', screen' # "start_screen",
                        NEW r \in 0 .. Rows - 1, NEW c \in 1 .. Columns - 1,
                        Written(r, c)', ~Strayed(r, c)'
                 PROVE  FBmem'[At(r, c)] = Good(r, c)'
    BY DEF MemOK, At
  <2>3. screen' = screen /\ view' = view
    BY <2>1, <2>2, GameStays DEF Showing
  <2>4. Good(r, c)' = Good(r, c)
    BY <2>3 DEF Good
  <2>5. /\ r \in Nat /\ c \in Nat /\ r < Rows /\ c < Columns
        /\ h_counter \in Nat /\ v_counter \in Nat /\ h_counter < H_TOTAL
        /\ v_counter' \in Nat
    BY <2>2, Sizes DEF TypeOK, Showing
  <2>6. \/ h_counter' = h_counter + 1 /\ v_counter' = v_counter
       \/ /\ h_counter' = 0 /\ v_counter' = v_counter + 1
          /\ h_counter + 1 = H_TOTAL
    <3>1. v_counter' # 0
      BY <2>2, Sizes DEF Showing
    <3> QED BY <2>1, <3>1, BeamMoves
  <2>7. Showing /\ (Written(r, c) \/ (r = line /\ c = h_counter - WriteFrom))
    <3>1. \/ r < v_counter' - Top
          \/ r = v_counter' - Top /\ c < h_counter' - WriteFrom
      BY <2>2 DEF Written, line
    <3>2. v_counter' \in Top .. Top + 2 * Rows - 1
      BY <2>2 DEF Showing
    <3>3. CASE h_counter' = h_counter + 1 /\ v_counter' = v_counter
      BY <2>5, <3>1, <3>2, <3>3, Sizes DEF Showing, Written, line
    <3>4. CASE h_counter' = 0 /\ v_counter' = v_counter + 1 /\ h_counter + 1 = H_TOTAL
      <4>1. r < v_counter + 1 - Top
        BY <2>5, <3>1, <3>4, Sizes
      <4>2. v_counter \in Top .. Top + 2 * Rows - 1
        BY <2>5, <3>2, <3>4, <4>1, Sizes
      <4> QED BY <2>5, <3>4, <4>1, <4>2, Sizes DEF Showing, Written, line
    <3> QED BY <2>6, <3>3, <3>4
  <2>8. ~Strayed(r, c)
    <3>1. v_counter <= v_counter'
      BY <2>5, <2>6
    <3>2. ~(c = Columns - Left /\ r + 2 < Rows /\ r + 3 <= v_counter' - Top)
      BY <2>2 DEF Strayed, line
    <3>3. r + 3 <= v_counter - Top => r + 3 <= v_counter' - Top
      <4>1. \A n, a, b, t \in Nat : a <= b /\ n + 3 <= a - t => n + 3 <= b - t
        OBVIOUS
      <4>2. Top \in Nat
        BY Sizes
      <4> QED BY <2>5, <3>1, <4>1, <4>2
    <3> QED BY <3>2, <3>3 DEF Strayed, line
  <2>9. CASE r = line /\ c = h_counter - WriteFrom
    <3>1. Drawing
      BY <2>5, <2>9, Sizes DEF Drawing, line
    <3>2. FBwe
      BY <2>1, <2>2, <2>3, <3>1 DEF EnableOK
    <3> QED BY <2>1, <2>2, <2>3, <2>4, <2>9, <3>1, <3>2, DrawnPixel
  <2>10. CASE Written(r, c) /\ ~(r = line /\ c = h_counter - WriteFrom)
    <3>1. FBmem[At(r, c)] = Good(r, c)
      BY <2>2, <2>3, <2>7, <2>8, <2>10 DEF MemOK
    <3>2. CASE FBwe
      <4>1. Drawing
        BY <2>1, <3>2 DEF EnableOK
      <4> QED BY <2>1, <2>2, <2>3, <2>4, <2>10, <3>1, <3>2, <4>1, DrawnPixel
    <3>3. CASE ~FBwe
      <4>1. c \in 0 .. Columns - 1
        BY <2>5, Sizes
      <4> QED BY <2>1, <2>4, <3>1, <3>3, <4>1, OtherPlaces
    <3> QED BY <3>2, <3>3
  <2> QED BY <2>7, <2>9, <2>10
<1>2. CASE PlainEdge
  <2>1. /\ ~pixelEdge /\ ClkEdge
        /\ UNCHANGED <<h_counter, v_counter, screen, view>>
    BY <1>2 DEF PlainEdge, PlainTick, counters, game
  <2>2. SUFFICES ASSUME Showing, screen # "start_screen",
                        NEW r \in 0 .. Rows - 1, NEW c \in 1 .. Columns - 1,
                        Written(r, c), ~Strayed(r, c)
                 PROVE  FBmem'[At(r, c)] = Good(r, c)
    BY <2>1 DEF MemOK, At, Showing, Written, Strayed, line, Good
  <2>3. FBmem[At(r, c)] = Good(r, c)
    BY <2>2 DEF MemOK
  <2>4. CASE ~FBwe
    <3>1. c \in 0 .. Columns - 1
      BY Sizes
    <3> QED BY <2>1, <2>3, <2>4, <3>1, OtherPlaces
  <2>5. CASE FBwe /\ Drawing
    BY <2>1, <2>2, <2>3, <2>5, DrawnPixel
  <2>6. CASE FBwe /\ h_counter = 0 /\ v_counter - 1 \in DrawFirst .. DrawLast
    BY <2>1, <2>2, <2>3, <2>6, LatePixel
  <2>7. v_counter # 0
    BY <2>2, Sizes DEF Showing
  <2> QED BY <2>1, <2>4, <2>5, <2>6, <2>7 DEF EnableOK
<1>3. CASE Button
  BY <1>3 DEF Button, Press, Release, counters, game, pipeline, MemOK, Showing,
              Written, Strayed, line, Good, At
<1> QED BY <1>1, <1>2, <1>3 DEF PipelineNext

(* What is shown was read from a place that is written and has not strayed. *)
LEMMA ShowsStep ==
    PictureInv /\ PipelineNext => ShowsThisFrame'
<1> SUFFICES ASSUME PictureInv, PipelineNext PROVE ShowsThisFrame'
  OBVIOUS
<1> USE DEF PictureInv
<1>1. CASE PixelEdge
  BY <1>1 DEF PixelEdge, PixelTick, ShowsThisFrame, Shown
<1>2. CASE PlainEdge
  <2>1. ClkEdge /\ UNCHANGED <<h_counter, v_counter, screen, view>>
    BY <1>2 DEF PlainEdge, PlainTick, counters, game
  <2> DEFINE r == ShownRow
             c == ShownCol
  <2>2. SUFFICES ASSUME InWindow, v_counter > Top, c > 0, ~Stray(r, c),
                        screen # "start_screen"
                 PROVE  FBdata_Out' = Good(r, c)
    BY <2>1 DEF ShowsThisFrame, Shown, InWindow, ShownRow, ShownCol, Stray, Good,
                PipelineTypeOK
  <2>3. /\ r \in 0 .. Rows - 1 /\ c \in 0 .. Columns - 1
        /\ FBread_address = At(r, c)
    BY <2>2, ReadAddress
  <2>4. FBdata_Out' = FBmem[At(r, c)]
    BY <2>1, <2>3 DEF ClkEdge
  <2>5. line \in Nat /\ line > 0 /\ Showing
    BY <2>2, Sizes DEF line, InWindow, Showing, TypeOK
  <2>6. 2 * r <= line /\ line <= 2 * r + 1
    BY <2>5, Half DEF ShownRow, line
  <2> HIDE DEF r, c
  <2>7. r < line /\ c \in 1 .. Columns - 1
    BY <2>2, <2>3, <2>5, <2>6, Sizes
  <2>8. Written(r, c) /\ ~Strayed(r, c)
    BY <2>2, <2>3, <2>5, <2>6, <2>7, Sizes DEF Written, Strayed, Stray
  <2>9. FBmem[At(r, c)] = Good(r, c)
    BY <2>2, <2>3, <2>5, <2>7, <2>8 DEF MemOK
  <2> QED BY <2>4, <2>9
<1>3. CASE Button
  BY <1>3 DEF Button, Press, Release, counters, game, pipeline, ShowsThisFrame,
              Shown, InWindow, ShownRow, ShownCol, Stray
<1> QED BY <1>1, <1>2, <1>3 DEF PipelineNext

LEMMA PictureStep ==
    PictureInv /\ [PipelineNext]_allVars => PictureInv'
<1> SUFFICES ASSUME PictureInv, [PipelineNext]_allVars PROVE PictureInv'
  OBVIOUS
<1>1. [Next]_vars
  BY PipelineSteps DEF allVars, vars, counters, outputs
<1>2. TypeOK' /\ PipelineTypeOK' /\ Timing'
  BY <1>1, ControllerTypes, PipelineTypesStep, TimingStep DEF PictureInv
<1>3. CASE PipelineNext
  BY <1>2, <1>3, EnableStep, DataStep, MemStep, ShowsStep DEF PictureInv
<1>4. CASE UNCHANGED allVars
  <2>1. UNCHANGED <<pixelEdge, h_counter, v_counter, screen, view, FBwe, FBdata_In,
                    Gymdata_Out, FBdata_Out, FBmem>>
    BY <1>4 DEF allVars, vars, counters, game, pipeline
  <2>2. EnableOK' /\ DataOK'
    BY <2>1 DEF PictureInv, EnableOK, DataOK, Drawing, line, Good
  <2>3. MemOK'
    BY <2>1 DEF PictureInv, MemOK, Showing, Written, Strayed, line, Good, At
  <2>4. ShowsThisFrame'
    BY <2>1 DEF PictureInv, ShowsThisFrame, Shown, InWindow, ShownRow, ShownCol, Stray
  <2> QED BY <1>2, <2>2, <2>3, <2>4 DEF PictureInv
<1> QED BY <1>3, <1>4

-----------------------------------------------------------------------------
(* The results.                                                            *)

(* For every size of screen, picture and memory: the counters, the         *)
(* registers of frameDrawer and the frame buffer keep their types, no      *)
(* address that is read lies outside the memory, and no pixel is written   *)
(* that is not one of the picture's (framebuffer.sv, ram.sv).              *)
THEOREM PictureTypeCorrect == PipelineSpec => [](TypeOK /\ PipelineTypeOK)
<1>1. PictureInv => TypeOK /\ PipelineTypeOK
  BY DEF PictureInv
<1> QED BY <1>1, InitPicture, PictureStep, PTL DEF PipelineSpec

(* For every size of screen and picture, whatever the player does with the *)
(* button: below its first line the window shows pixels of this frame, for *)
(* the view and the screen of this frame, each in its place                *)
(* (framebuffer.sv, frameDrawer with FramebufferRam).                      *)
THEOREM ThisFrameOnly == PipelineSpec => []ShowsThisFrame
<1>1. PictureInv => ShowsThisFrame
  BY DEF PictureInv
<1> QED BY <1>1, InitPicture, PictureStep, PTL DEF PipelineSpec

(* For every timing, and however often and at whatever moment the button   *)
(* is pressed and let go: VGA_VS, which moves the character and turns it,  *)
(* has no edge on a line on which a picture is written.                    *)
THEOREM EdgesStayOutside == PipelineSpec => EdgesOutsideDrawing
<1>1. ASSUME PictureInv, [PipelineNext]_allVars, VGA_VS' # VGA_VS
      PROVE  v_counter' \notin DrawFirst .. DrawLast
  <2>1. PixelTick
    BY <1>1 DEF PipelineNext, PixelEdge, PlainEdge, Button, PlainTick, Press, Release,
                allVars, vars, outputs
  <2>2. v_counter' \notin Top .. Top + 2 * Rows - 1
    BY <1>1, <2>1, QuietLines DEF PictureInv
  <2> QED BY <2>2, Sizes
<1>2. PictureInv /\ [PipelineNext]_allVars
         => [VGA_VS' # VGA_VS => v_counter' \notin DrawFirst .. DrawLast]_vars
  BY <1>1
<1> QED BY <1>2, InitPicture, PictureStep, PTL DEF PipelineSpec, EdgesOutsideDrawing
-----------------------------------------------------------------------------
(* The frame as one count of pixels.                                       *)
Frame  == V_TOTAL * H_TOTAL
BeamAt == v_counter * H_TOTAL + h_counter

(* A line is over before the next begins.                                  *)
LEMMA LinesApart ==
    ASSUME NEW v \in Nat, NEW w \in Nat, v < w, NEW h \in 0 .. H_TOTAL - 1
    PROVE  v * H_TOTAL + h < w * H_TOTAL
<1> DEFINE W == H_TOTAL
           k == w - v - 1
<1>1. W \in Nat /\ k \in Nat /\ w = v + 1 + k
  BY Sizes
<1> HIDE DEF W, k
<1>2. (v + 1 + k) * W = v * W + W + k * W /\ k * W \in Nat /\ v * W \in Nat
  BY <1>1, SMT
<1>3. h \in Nat /\ h < W
  BY Sizes DEF W
<1> DEFINE x == v * W
           y == k * W
<1>4. w * W = x + W + y /\ x \in Nat /\ y \in Nat
  BY <1>1, <1>2
<1> HIDE DEF x, y
<1>5. x + h < w * W
  BY <1>1, <1>3, <1>4
<1> QED BY <1>5 DEF x, W

(* The beam is among some lines if its count is among their pixels.        *)
LEMMA LinesByCount ==
    ASSUME NEW v \in Nat, NEW h \in 0 .. H_TOTAL - 1, NEW a \in Nat, NEW b \in Nat
    PROVE  v \in a .. b - 1 <=> v * H_TOTAL + h \in a * H_TOTAL .. b * H_TOTAL - 1
<1> DEFINE at == v * H_TOTAL + h
           x == a * H_TOTAL
           y == b * H_TOTAL
<1>1. at \in Int /\ x \in Int /\ y \in Int /\ at >= v * H_TOTAL /\ v * H_TOTAL \in Int
  BY Sizes, SMT
<1>2. v < b => at < y
  BY LinesApart
<1>3. v < a => at < x
  BY LinesApart
<1>4. b < v => y < at
  <2>1. b < v => b * H_TOTAL + 0 < v * H_TOTAL
    BY LinesApart, Sizes
  <2> QED BY <1>1, <2>1, SMT
<1>5. a < v => x < at
  <2>1. a < v => a * H_TOTAL + 0 < v * H_TOTAL
    BY LinesApart, Sizes
  <2> QED BY <1>1, <2>1, SMT
<1>6. v = a => x <= at
  BY <1>1
<1>7. v = b => y <= at
  BY <1>1
<1> HIDE DEF at, x, y
<1>8. v \in a .. b - 1 <=> at \in x .. y - 1
  BY <1>1, <1>2, <1>3, <1>4, <1>5, <1>6, <1>7
<1> QED BY <1>8 DEF at, x, y

(* One pixel further, and after the last pixel of the last line the first. *)
LEMMA BeamGoesOn ==
    ASSUME TypeOK, NextPixel
    PROVE  BeamAt' = IF BeamAt + 1 = Frame THEN 0 ELSE BeamAt + 1
<1>1. /\ v_counter \in Nat /\ h_counter \in 0 .. H_TOTAL - 1 /\ v_counter < V_TOTAL
      /\ H_TOTAL \in Nat /\ V_TOTAL \in Nat
  BY Sizes DEF TypeOK
<1>2. CASE ~EndOfLine
  <2>1. /\ h_counter' = h_counter + 1 /\ v_counter' = v_counter
        /\ h_counter + 1 \in 0 .. H_TOTAL - 1
    BY <1>1, <1>2 DEF NextPixel, h_counter_in, v_counter_in, EndOfLine
  <2>2. v_counter * H_TOTAL + (h_counter + 1) < V_TOTAL * H_TOTAL
    BY <1>1, <2>1, LinesApart
  <2>3. BeamAt + 1 # Frame
    BY <1>1, <2>2 DEF BeamAt, Frame
  <2> QED BY <1>1, <2>1, <2>3 DEF BeamAt
<1>3. CASE EndOfLine /\ v_counter + 1 = V_TOTAL
  <2>1. h_counter' = 0 /\ v_counter' = 0
    BY <1>3 DEF NextPixel, h_counter_in, v_counter_in
  <2>2. (v_counter + 1) * H_TOTAL = v_counter * H_TOTAL + H_TOTAL
    BY <1>1, SMT
  <2>3. BeamAt + 1 = Frame
    BY <1>1, <1>3, <2>2 DEF BeamAt, Frame, EndOfLine
  <2>4. BeamAt' = 0
    BY <1>1, <2>1 DEF BeamAt
  <2> QED BY <2>3, <2>4
<1>4. CASE EndOfLine /\ v_counter + 1 # V_TOTAL
  <2>1. h_counter' = 0 /\ v_counter' = v_counter + 1
    BY <1>4 DEF NextPixel, h_counter_in, v_counter_in
  <2>2. (v_counter + 1) * H_TOTAL = v_counter * H_TOTAL + H_TOTAL
    BY <1>1, SMT
  <2>3. BeamAt' = BeamAt + 1
    BY <1>1, <1>4, <2>1, <2>2 DEF BeamAt, EndOfLine
  <2>4. (v_counter + 1) * H_TOTAL + 0 < V_TOTAL * H_TOTAL
    BY <1>1, <1>4, Sizes, LinesApart
  <2>5. BeamAt + 1 # Frame
    BY <1>1, <2>1, <2>3, <2>4 DEF BeamAt, Frame
  <2> QED BY <2>3, <2>5
<1> QED BY <1>2, <1>3, <1>4

(* What a pixel clock does, unless the button is seen.                     *)
PixelCounts ==
    PixelTick /\ ~Reset_h =>
        /\ BeamAt' = IF BeamAt + 1 = Frame THEN 0 ELSE BeamAt + 1
        /\ VGA_VS' = 0 <=> BeamAt' \in VSyncStart * H_TOTAL .. VSyncEnd * H_TOTAL - 1

(* VGA_controller.sv:73-95: a frame is H_TOTAL * V_TOTAL pixel clocks, and *)
(* VGA_VS is low for the same ones of every frame, however the button was  *)
(* used before: each pixel clock brings the next edge of VGA_VS nearer.    *)
THEOREM FramesAreRegular == Spec => [][PixelCounts]_vars
<1>1. Init => TypeOK
  <2>1. 0 \in 0 .. H_TOTAL - 1 /\ 0 \in 0 .. V_TOTAL - 1
    BY Sizes
  <2> QED BY <2>1 DEF Init, TypeOK, Bit
<1>2. TypeOK /\ [Next]_vars => TypeOK' /\ [PixelCounts]_vars
  <2> SUFFICES ASSUME TypeOK, [Next]_vars
               PROVE  TypeOK' /\ [PixelCounts]_vars
    OBVIOUS
  <2>1. TypeOK'
    BY ControllerTypes
  <2>2. ASSUME PixelTick, ~Reset_h
        PROVE  /\ BeamAt' = IF BeamAt + 1 = Frame THEN 0 ELSE BeamAt + 1
               /\ VGA_VS' = 0 <=>
                    BeamAt' \in VSyncStart * H_TOTAL .. VSyncEnd * H_TOTAL - 1
    <3>1. NextPixel
      BY <2>2 DEF PixelTick, ResetPixel
    <3>2. v_counter' \in Nat /\ h_counter' \in 0 .. H_TOTAL - 1
      BY <2>1, Sizes DEF TypeOK
    <3>3. VGA_VS' = 0 <=> v_counter' \in VSyncStart .. VSyncEnd - 1
      BY <3>1 DEF NextPixel, Low
    <3>4. v_counter' \in VSyncStart .. VSyncEnd - 1 <=>
            v_counter' * H_TOTAL + h_counter'
                \in VSyncStart * H_TOTAL .. VSyncEnd * H_TOTAL - 1
      BY <3>2, Sizes, LinesByCount
    <3> QED BY <3>1, <3>3, <3>4, BeamGoesOn DEF BeamAt
  <2> QED BY <2>1, <2>2 DEF PixelCounts
<1> QED BY <1>1, <1>2, PTL DEF Spec
=============================================================================
