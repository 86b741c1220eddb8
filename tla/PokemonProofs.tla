--------------------------- MODULE PokemonProofs ---------------------------
(***************************************************************************)
(* Theorems about Pokemon for every gym, every step length and every       *)
(* length of spin and fade.  It implements GymWalk as long as the fade is  *)
(* not shorter than the second spin and the build reads VGA_VS low in      *)
(* latch; in the gym of the design its character then stays within the     *)
(* walls.  A walk that nothing disturbs covers whole blocks.               *)
(***************************************************************************)
EXTENDS PokemonSteps, TLAPS

(* Register arithmetic stays within the registers, and the corner of the   *)
(* character box determines the position.                                  *)
LEMMA GridArithmetic ==
    ASSUME NEW p \in Pos
    PROVE  /\ Corner(p) \in Pos
           /\ TopLeft(p) \in Pos
           /\ TopLeft(Corner(p)) = p
BY GridAssumption DEF Pos, Coord, Corner, TopLeft, Plus, Minus

(* A pixel further is still a position.                                    *)
LEMMA MoveInPos ==
    ASSUME NEW p \in Pos, NEW d \in 0 .. 3
    PROVE  Move(d, p) \in Pos
BY GridAssumption
   DEF Pos, Coord, Move, Plus, Minus, Down, Up, Left, Right

(* Each walking key names one of the four directions.                      *)
LEMMA KeysAreDirections ==
    ASSUME NEW k \in WalkKeys
    PROVE  KeyDirection[k] \in 0 .. 3
BY DEF WalkKeys, KeyDirection

(* What framebuffer.sv reads off state_num.                                *)
LEMMA StateNumber ==
    /\ state_num = 0 <=> gameState \notin {"flash_press_enter", "fade", "draw_main_game"}
    /\ state_num = 1 <=> gameState = "flash_press_enter"
    /\ state_num = 2 <=> gameState = "fade"
    /\ state_num = 3 <=> gameState = "draw_main_game"
BY DEF state_num
-----------------------------------------------------------------------------
(* Type correctness of the three components' steps. *)
LEMMA GameClockType ==
    ASSUME GameTypeOK, GameClock, UNCHANGED keycode
    PROVE  GameTypeOK'
<1> USE GameAssumption
<1>1. CASE StartScreen
  BY <1>1 DEF StartScreen, GameTypeOK, GameStates
<1>2. CASE Fade
  BY <1>2 DEF Fade, GameTypeOK, GameStates
<1>3. CASE WalkOn
  BY <1>3 DEF WalkOn, InGame, Animate, GameTypeOK, GameStates
<1>4. CASE BeginStep
  BY <1>4 DEF BeginStep, InGame, Animate, GameTypeOK, GameStates
<1>5. CASE Turn
  BY <1>5, KeysAreDirections DEF Turn, InGame, Animate, GameTypeOK, GameStates
<1>6. CASE Stand
  BY <1>6 DEF Stand, InGame, Animate, GameTypeOK, GameStates
<1> QED
  BY <1>1, <1>2, <1>3, <1>4, <1>5, <1>6 DEF GameClock

(* The tile logic, whose counter may wrap around, ...                      *)
LEMMA TileClockType ==
    ASSUME TileTypeOK, NEW c \in Pos, TileClock(c)
    PROVE  TileTypeOK'
<1> USE TileAssumption, GridAssumption
<1>1. CASE Sense(c)
  BY <1>1 DEF Sense, TileTypeOK, TileStates
<1>2. CASE Prespin(c)
  BY <1>2 DEF Prespin, SpinUp, TileTypeOK, TileStates
<1>3. CASE TakePartner(c)
  <2>1. <<0, 0>> \in Pos
    BY DEF Pos, Coord
  <2>2. Pads = DOMAIN Partner
    BY DEF Pads
  <2> QED
    BY <1>3, <2>1, <2>2 DEF TakePartner, TileTypeOK, TileStates
<1>4. CASE Postspin
  BY <1>4 DEF Postspin, SpinUp, TileTypeOK, TileStates
<1>5. CASE Latch
  BY <1>5 DEF Latch, TileTypeOK, TileStates
<1>6. CASE Hold(c)
  BY <1>6 DEF Hold, TileTypeOK, TileStates
<1> QED
  BY <1>1, <1>2, <1>3, <1>4, <1>5, <1>6 DEF TileClock

(* ... the Reset branches of both machines, ...                            *)
LEMMA ResetType ==
    ASSUME GameTypeOK, GameReset, TileReset, UNCHANGED keycode
    PROVE  GameTypeOK' /\ TileTypeOK'
BY GameAssumption, TileAssumption, GridAssumption
   DEF GameReset, TileReset, GameTypeOK, GameStates, TileTypeOK, TileStates, Pos, Coord

(* ... and the position registers.                                         *)
LEMMA FallType ==
    ASSUME TypeOK, FallAtStart \/ FallAtFade \/ FallInGame
    PROVE  DrawerTypeOK'
<1>1. CASE FallAtStart
  BY <1>1, GridAssumption DEF FallAtStart, SendHome, DrawerTypeOK
<1>2. CASE FallAtFade
  BY <1>2 DEF FallAtFade, KeepPos, drawerVars, DrawerTypeOK, TypeOK
<1>3. CASE FallInGame
  <2>1. heldPos \in Pos
    BY GridArithmetic DEF heldPos, TypeOK, TileTypeOK
  <2>2. WalkPos(direction, charIsMoving, running) \in Pos
    BY MoveInPos DEF WalkPos, TypeOK, GameTypeOK, DrawerTypeOK
  <2> QED
    BY <1>3, <2>1, <2>2 DEF FallInGame, PlayFrame, DrawerTypeOK, TypeOK
<1> QED
  BY <1>1, <1>2, <1>3

(* Each step of the composed game.                                         *)
LEMMA TypeStep ==
    ASSUME TypeOK, [Next]_vars
    PROVE  TypeOK'
<1>1. CASE NegEdge
  BY <1>1, FallType
     DEF NegEdge, TypeOK, GameTypeOK, TileTypeOK, gameVars, tileVars, inputVars
<1>2. CASE PosEdge
  <2>1. Corner(pos) \in Pos
    BY GridArithmetic DEF TypeOK, DrawerTypeOK
  <2>2. GameTypeOK'
    BY <1>2, GameClockType DEF PosEdge, TypeOK, inputVars
  <2>3. TileTypeOK'
    BY <1>2, <2>1, TileClockType DEF PosEdge, TypeOK
  <2> QED
    BY <1>2, <2>2, <2>3 DEF PosEdge, TypeOK, DrawerTypeOK, drawerVars, inputVars
<1>3. CASE ResetEdge
  BY <1>3, ResetType DEF ResetEdge, TypeOK, DrawerTypeOK, drawerVars, inputVars
<1>4. CASE PressKey
  BY <1>4, PokemonAssumption
     DEF PressKey, TypeOK, GameTypeOK, TileTypeOK, DrawerTypeOK,
         gameVars, tileVars, drawerVars
<1>5. CASE PressRun
  BY <1>5
     DEF PressRun, TypeOK, GameTypeOK, TileTypeOK, DrawerTypeOK,
         gameVars, tileVars, drawerVars
<1>6. CASE UNCHANGED vars
  BY <1>6
     DEF vars, TypeOK, GameTypeOK, TileTypeOK, DrawerTypeOK,
         gameVars, tileVars, drawerVars, inputVars
<1> QED
  BY <1>1, <1>2, <1>3, <1>4, <1>5, <1>6 DEF Next

(* The configured design, before its first frame.                          *)
LEMMA TypeInit ==
    ASSUME Init
    PROVE  TypeOK
<1>1. GameTypeOK
  BY GameAssumption DEF Init, GamePowerUp, GameTypeOK, GameStates, Keys
<1>2. PowerUpPos \in Pos
  BY GridAssumption
<1>3. TileTypeOK
  <2>1. target \in Pos
    BY <1>2, GridArithmetic DEF Init
  <2> QED
    BY <2>1, TileAssumption DEF Init, TileTypeOK, TileStates
<1>4. DrawerTypeOK
  BY <1>2 DEF Init, DrawerPowerUp, DrawerTypeOK
<1> QED
  BY <1>1, <1>3, <1>4 DEF Init, TypeOK

(* Every register stays within its width and every counter within its      *)
(* limits, whatever the keys, the run button and the reset button do.      *)
THEOREM TypeCorrect == Spec => []TypeOK
<1>1. Init => TypeOK
  BY TypeInit
<1>2. TypeOK /\ [Next]_vars => TypeOK'
  BY TypeStep
<1> QED
  BY <1>1, <1>2, PTL DEF Spec
-----------------------------------------------------------------------------
(* SpinInv is inductive. *)
LEMMA SpinInvInit ==
    ASSUME Init
    PROVE  SpinInv
<1>1. TypeOK
  BY TypeInit
<1>2. gameState = "start_screen" /\ vs = 1 /\ tileState = "notTile"
  BY DEF Init, GamePowerUp
<1> QED
  BY <1>1, <1>2
     DEF SpinInv, ScreensUsed, HomeAtStart, FadeAtStart, HeldWhereItIs, SpinOnPad

(* The falling edge: the start screen sends the character home, and a      *)
(* character that spins on its first tile is held where it is.             *)
LEMMA SpinInvFall ==
    ASSUME SpinInv, TypeOK', NegEdge
    PROVE  SpinInv'
<1> USE DEF SpinInv, NegEdge, gameVars, tileVars
<1>1. ScreensUsed' /\ vs' = 0
  BY DEF ScreensUsed
<1>2. HeldWhereItIs'
  BY <1>1 DEF HeldWhereItIs
<1>3. CASE FallAtStart
  <2>1. pos' = StartPos /\ gameState = "start_screen"
    BY <1>3, StateNumber DEF FallAtStart, SendHome, ScreensUsed
  <2> QED
    BY <1>1, <1>2, <2>1, StartOnPad DEF HomeAtStart, FadeAtStart, SpinOnPad
<1>4. CASE FallAtFade
  <2>1. pos' = pos /\ gameState = "fade"
    BY <1>4, StateNumber DEF FallAtFade, KeepPos, drawerVars, ScreensUsed
  <2> QED
    BY <1>1, <1>2, <2>1 DEF HomeAtStart, FadeAtStart, SpinOnPad
<1>5. CASE FallInGame
  <2>1. gameState = "draw_main_game"
    BY <1>5, StateNumber DEF FallInGame
  <2>2. ASSUME tileState \in {"prespin", "teleport"} PROVE pos' = pos
    <3>1. atTile /\ heldPos = TopLeft(Corner(pos))
      BY <2>2 DEF atTile, heldPos, HeldWhereItIs
    <3>2. TopLeft(Corner(pos)) = pos
      BY GridArithmetic DEF TypeOK, DrawerTypeOK
    <3> QED
      BY <1>5, <3>1, <3>2 DEF FallInGame, PlayFrame
  <2> QED
    BY <1>1, <1>2, <2>1, <2>2 DEF HomeAtStart, FadeAtStart, SpinOnPad
<1> QED
  BY <1>3, <1>4, <1>5

(* The rising edge: nothing moves; a game starts from home; the tile logic *)
(* leaves a tile's first spin only to look up the tile under the character.*)
LEMMA SpinInvRise ==
    ASSUME SpinInv, TypeOK', PosEdge
    PROVE  SpinInv'
<1> USE DEF SpinInv, PosEdge, drawerVars
<1>1. ScreensUsed' /\ HomeAtStart'
  BY DEF ScreensUsed, HomeAtStart, GameClock, StartScreen, Fade, WalkOn,
         BeginStep, Turn, Stand, InGame
<1>2. FadeAtStart'
  BY DEF ScreensUsed, HomeAtStart, FadeAtStart, GameClock, StartScreen, Fade,
         WalkOn, BeginStep, Turn, Stand, InGame
<1>3. HeldWhereItIs' /\ SpinOnPad'
  <2>1. Corner(pos)' = Corner(pos)
    BY DEF Corner
  <2>2. CASE Sense(Corner(pos))
    BY <2>1, <2>2 DEF Sense, HeldWhereItIs, SpinOnPad
  <2>3. CASE Prespin(Corner(pos))
    BY <2>1, <2>3 DEF Prespin, HeldWhereItIs, SpinOnPad
  <2>4. CASE TakePartner(Corner(pos)) \/ Postspin \/ Latch \/ Hold(Corner(pos))
    BY <2>4 DEF TakePartner, Postspin, Latch, Hold, HeldWhereItIs, SpinOnPad
  <2> QED
    BY <2>2, <2>3, <2>4 DEF TileClock
<1> QED
  BY <1>1, <1>2, <1>3

(* Every step keeps the invariant.                                         *)
LEMMA SpinInvStep ==
    ASSUME SpinInv, [Next]_vars
    PROVE  SpinInv'
<1>0. TypeOK'
  BY TypeStep DEF SpinInv
<1>1. CASE NegEdge
  BY <1>0, <1>1, SpinInvFall
<1>2. CASE PosEdge
  BY <1>0, <1>2, SpinInvRise
<1>3. CASE ResetEdge
  BY <1>0, <1>3
     DEF ResetEdge, GameReset, TileReset, SpinInv, ScreensUsed, HomeAtStart,
         FadeAtStart, HeldWhereItIs, SpinOnPad
<1>4. CASE PressKey \/ PressRun \/ UNCHANGED vars
  <2>1. UNCHANGED <<gameState, tileState, target, pos, vs>>
    BY <1>4 DEF PressKey, PressRun, vars, gameVars, tileVars, drawerVars
  <2> QED
    BY <1>0, <2>1
       DEF SpinInv, ScreensUsed, HomeAtStart, FadeAtStart, HeldWhereItIs,
           SpinOnPad, Corner
<1> QED
  BY <1>1, <1>2, <1>3, <1>4 DEF Next

(* The inductive invariant holds in every reachable state. *)
THEOREM SpinInvariant == Spec => []SpinInv
<1>1. Init => SpinInv
  BY SpinInvInit
<1>2. SpinInv /\ [Next]_vars => SpinInv'
  BY SpinInvStep
<1> QED
  BY <1>1, <1>2, PTL DEF Spec

(* The fade only ever shows a character that stands on the start tile. *)
THEOREM FadeShowsStart == Spec => []FadeAtStart
<1>1. SpinInv => FadeAtStart
  BY DEF SpinInv
<1> QED
  BY <1>1, SpinInvariant, PTL

(* When the tile logic looks the partner up, the character is on a tile:   *)
(* the default branch that sends it to corner (0,0) is never taken.        *)
THEOREM PartnerAlwaysFound == Spec => []SpinOnPad
<1>1. SpinInv => SpinOnPad
  BY DEF SpinInv
<1> QED
  BY <1>1, SpinInvariant, PTL
-----------------------------------------------------------------------------
(* The helper operators of the instance are those of Grid. *)
LEMMA SameGrid ==
    /\ \A p : Walk!Corner(p) = Corner(p)
    /\ \A c : Walk!TopLeft(c) = TopLeft(c)
    /\ \A d, p : Walk!Move(d, p) = Move(d, p)
    /\ Walk!Pads = Pads
    /\ Walk!Directions = 0 .. 3
<1>1. Walk!Directions = 0 .. 3
  BY DEF Walk!Directions, Walk!Down, Walk!Up, Walk!Left, Walk!Right
<1>2. \A c, k : Walk!Plus(c, k) = Plus(c, k) /\ Walk!Minus(c, k) = Minus(c, k)
  BY DEF Walk!Plus, Plus, Walk!Minus, Minus
<1> QED
  BY <1>1, <1>2, Zenon
     DEF Walk!Corner, Corner, Walk!TopLeft, TopLeft, Walk!Move, Move, Walk!Pads, Pads,
         Walk!Down, Walk!Up, Walk!Left, Walk!Right, Down, Up, Left, Right

(* The way back: a position is determined by its corner.                   *)
LEMMA CornerOfTopLeft ==
    ASSUME NEW c \in Pos
    PROVE  Corner(TopLeft(c)) = c
BY GridAssumption DEF Pos, Coord, Corner, TopLeft, Plus, Minus

(* A partner is itself a teleport tile.                                    *)
LEMMA PartnerIsPad ==
    ASSUME NEW c \in Pads
    PROVE  Partner[c] \in Pads /\ Partner[c] \in Pos
BY GridAssumption

-----------------------------------------------------------------------------
(* WalkInv is inductive. *)
LEMMA WalkInvInit ==
    ASSUME Init
    PROVE  WalkInv
<1>1. SpinInv
  BY SpinInvInit
<1>2. gameState = "start_screen" /\ fade_counter = 0 /\ tileState = "notTile"
  BY DEF Init, GamePowerUp
<1> QED
  BY <1>1, <1>2 DEF WalkInv, CountersInTime, TargetKnown

(* The falling edge moves the character to the target, if it is held.      *)
LEMMA WalkInvFall ==
    ASSUME WalkInv, NegEdge
    PROVE  CountersInTime' /\ TargetKnown'
<1> USE DEF WalkInv, SpinInv, NegEdge, gameVars, tileVars
<1>1. CountersInTime'
  BY DEF CountersInTime
<1>2. TargetKnown'
  <2>1. CASE FallAtStart
    <3>1. gameState = "start_screen"
      BY <2>1, StateNumber DEF FallAtStart, ScreensUsed
    <3> QED
      BY <3>1 DEF TargetKnown, StaleTarget
  <2>2. CASE FallAtFade
    <3>1. pos' = pos
      BY <2>2 DEF FallAtFade, KeepPos, drawerVars
    <3> QED
      BY <3>1 DEF TargetKnown, StaleTarget, Corner
  <2>3. CASE FallInGame
    <3>1. SUFFICES ASSUME tileState \in {"postspin", "latch"}
                   PROVE  target = Corner(pos)'
      BY DEF TargetKnown
    <3>2. pos' = TopLeft(target)
      BY <2>3, <3>1 DEF FallInGame, PlayFrame, atTile, heldPos
    <3>3. Corner(TopLeft(target)) = target
      BY CornerOfTopLeft DEF TypeOK, TileTypeOK
    <3> QED
      BY <3>2, <3>3 DEF Corner
  <2> QED
    BY <2>1, <2>2, <2>3
<1> QED
  BY <1>1, <1>2

(* The rising edge may take a new target, at the end of the first spin.    *)
LEMMA WalkInvRise ==
    ASSUME WalkInv, PosEdge, LatchOutcomes = {TRUE}, SpinLast <= FadeLast
    PROVE  CountersInTime' /\ TargetKnown'
<1> USE DEF WalkInv, SpinInv, PosEdge, drawerVars
<1> USE GameAssumption, TileAssumption
<1>0. /\ fade_counter \in Nat /\ spinCounter \in Nat
      /\ pos' = pos /\ Corner(pos)' = Corner(pos)
  BY DEF TypeOK, GameTypeOK, TileTypeOK, Corner
<1>1. gameState' # "fade" => fade_counter' = 0
  BY DEF ScreensUsed, CountersInTime, GameClock, StartScreen, Fade, WalkOn,
         BeginStep, Turn, Stand, InGame
<1>2. /\ tileState' = "teleport" => spinCounter' = 0
      /\ tileState' = "postspin" => spinCounter' <= SpinLast
  BY <1>0 DEF CountersInTime, TypeOK, TileTypeOK, TileClock, Sense, Prespin,
              TakePartner, Postspin, Latch, Hold, SpinUp
<1>3. TargetKnown'
  <2>1. CASE TakePartner(Corner(pos))
    <3>1. Corner(pos) \in Pads
      BY <2>1 DEF TakePartner, SpinOnPad
    <3> QED
      BY <1>0, <2>1, <3>1 DEF TakePartner, TargetKnown
  <2>2. CASE Postspin
    <3>1. /\ target' = target
          /\ tileState' = IF spinCounter = SpinLast THEN "latch" ELSE "postspin"
          /\ spinCounter' = spinCounter + 1
          /\ tileState = "postspin" /\ spinCounter <= SpinLast
      BY <1>0, <2>2 DEF Postspin, SpinUp, CountersInTime
    <3>2. StaleTarget => StaleTarget'
      <4>1. CASE gameState = "start_screen"
        <5>1. \/ gameState' = "start_screen"
              \/ gameState' = "fade" /\ fade_counter' = 0
          BY <4>1 DEF CountersInTime, GameClock, StartScreen, Fade, WalkOn,
                      BeginStep, Turn, Stand, InGame
        <5> QED
          BY <1>0, <3>1, <5>1 DEF StaleTarget
      <4>2. CASE gameState = "fade" /\ fade_counter < spinCounter
        <5>1. gameState' = "fade" /\ fade_counter' = fade_counter + 1
          BY <1>0, <3>1, <4>2 DEF GameClock, StartScreen, Fade, WalkOn,
                                  BeginStep, Turn, Stand, InGame
        <5> QED
          BY <1>0, <3>1, <4>2, <5>1 DEF StaleTarget
      <4> QED
        BY <3>1, <4>1, <4>2 DEF StaleTarget
    <3> QED
      BY <1>0, <3>1, <3>2 DEF TargetKnown
  <2>3. CASE Sense(Corner(pos)) \/ Prespin(Corner(pos)) \/ Latch \/ Hold(Corner(pos))
    BY <2>3 DEF Sense, Prespin, Latch, Hold, TargetKnown
  <2> QED
    BY <2>1, <2>2, <2>3 DEF TileClock
<1> QED
  BY <1>1, <1>2, <1>3 DEF CountersInTime

(* A Reset and the player keep the invariant too.                          *)
LEMMA WalkInvStep ==
    ASSUME WalkInv, [Next]_vars, LatchOutcomes = {TRUE}, SpinLast <= FadeLast
    PROVE  WalkInv'
<1>0. SpinInv'
  BY SpinInvStep DEF WalkInv
<1>1. CASE NegEdge
  BY <1>0, <1>1, WalkInvFall DEF WalkInv
<1>2. CASE PosEdge
  BY <1>0, <1>2, WalkInvRise DEF WalkInv
<1>3. CASE ResetEdge
  BY <1>0, <1>3 DEF ResetEdge, GameReset, TileReset, WalkInv, CountersInTime, TargetKnown
<1>4. CASE PressKey \/ PressRun \/ UNCHANGED vars
  <2>1. UNCHANGED <<gameState, fade_counter, tileState, spinCounter, target, pos>>
    BY <1>4 DEF PressKey, PressRun, vars, gameVars, tileVars, drawerVars
  <2> QED
    BY <1>0, <2>1 DEF WalkInv, CountersInTime, TargetKnown, StaleTarget, Corner
<1> QED
  BY <1>1, <1>2, <1>3, <1>4 DEF Next
(* WalkInv holds in every reachable state: among it that the tile logic    *)
(* remembers a stale partner only while the fade is on.                    *)
THEOREM StaleTargetsAreHarmless ==
    ASSUME LatchOutcomes = {TRUE}, SpinLast <= FadeLast
    PROVE  Spec => []WalkInv
<1>1. Init => WalkInv
  BY WalkInvInit
<1>2. WalkInv /\ [Next]_vars => WalkInv'
  BY WalkInvStep
<1> QED
  BY <1>1, <1>2, PTL DEF Spec
-----------------------------------------------------------------------------
(* Every step of the game is a step of GymWalk or leaves it unchanged. *)
LEMMA FallWalks ==
    ASSUME WalkInv, NegEdge
    PROVE  [Walk!Next]_(Walk!walkVars)
<1> USE DEF WalkInv, SpinInv, NegEdge, gameVars, Walk!walkVars
<1>1. gameState' = gameState
  OBVIOUS
<1>2. CASE FallAtStart
  BY <1>1, <1>2, StateNumber
     DEF FallAtStart, SendHome, Walk!Next, Walk!GoHome
<1>3. CASE FallAtFade
  BY <1>1, <1>3 DEF FallAtFade, KeepPos, drawerVars
<1>4. CASE FallInGame
  <2>1. gameState = "draw_main_game" /\ pos \in Pos /\ direction \in 0 .. 3
    BY <1>4, StateNumber DEF FallInGame, TypeOK, GameTypeOK, DrawerTypeOK
  <2>2. CASE ~atTile
    <3>1. \/ pos' = pos
          \/ ~Blocked(direction, pos) /\ pos' = Move(direction, pos)
      BY <1>4, <2>2 DEF FallInGame, PlayFrame, WalkPos
    <3>2. ASSUME ~Blocked(direction, pos), pos' = Move(direction, pos)
          PROVE  Walk!Step(direction)
      BY <1>1, <2>1, <3>2, SameGrid DEF Walk!Step
    <3> QED
      BY <1>1, <2>1, <3>1, <3>2, SameGrid DEF Walk!Next
  <2>3. CASE atTile
    <3>1. pos' = TopLeft(target)
      BY <1>4, <2>3 DEF FallInGame, PlayFrame, heldPos
    <3>2. CASE target = Corner(pos)
      <4>1. pos' = pos
        BY <2>1, <3>1, <3>2, GridArithmetic
      <4> QED
        BY <1>1, <4>1
    <3>3. CASE Corner(pos) \in Pads /\ target = Partner[Corner(pos)]
      <4>1. Walk!Teleport
        BY <1>1, <2>1, <3>1, <3>3, SameGrid DEF Walk!Teleport
      <4> QED
        BY <4>1 DEF Walk!Next
    <3>4. vs = 1 /\ ~StaleTarget
      BY <2>1 DEF StaleTarget
    <3> QED
      BY <2>3, <3>2, <3>3, <3>4 DEF atTile, HeldWhereItIs, TargetKnown
  <2> QED
    BY <2>2, <2>3
<1> QED
  BY <1>2, <1>3, <1>4

(* The rising edge begins and ends games and moves nothing.                *)
LEMMA RiseWalks ==
    ASSUME WalkInv, PosEdge
    PROVE  [Walk!Next]_(Walk!walkVars)
<1> USE DEF WalkInv, SpinInv, PosEdge, drawerVars, Walk!walkVars
<1>1. pos' = pos /\ vs = 0
  OBVIOUS
<1>2. CASE gameState = "start_screen"
  BY <1>1, <1>2 DEF GameClock, StartScreen, Fade, WalkOn, BeginStep, Turn,
                    Stand, InGame
<1>3. CASE gameState = "fade"
  <2>1. pos = StartPos
    BY <1>3 DEF FadeAtStart
  <2>2. gameState' \in {"fade", "draw_main_game"}
    BY <1>3 DEF GameClock, StartScreen, Fade, WalkOn, BeginStep, Turn, Stand, InGame
  <2> QED
    BY <1>1, <1>3, <2>1, <2>2 DEF Walk!Next, Walk!Begin
<1>4. CASE gameState = "draw_main_game"
  <2>1. gameState' \in {"start_screen", "draw_main_game"}
    BY <1>4 DEF GameClock, StartScreen, Fade, WalkOn, BeginStep, Turn, Stand, InGame
  <2> QED
    BY <1>1, <1>4, <2>1 DEF Walk!Next, Walk!Quit
<1> QED
  BY <1>2, <1>3, <1>4 DEF ScreensUsed

(* Every step of the game is one of GymWalk or none at all.                *)
LEMMA StepWalks ==
    ASSUME WalkInv, [Next]_vars
    PROVE  [Walk!Next]_(Walk!walkVars)
<1>1. CASE NegEdge
  BY <1>1, FallWalks
<1>2. CASE PosEdge
  BY <1>2, RiseWalks
<1>3. CASE ResetEdge
  <2>1. pos' = pos /\ gameState' = "start_screen"
    BY <1>3 DEF ResetEdge, GameReset, drawerVars
  <2> QED
    BY <2>1 DEF Walk!Next, Walk!Quit, Walk!walkVars
<1>4. CASE PressKey \/ PressRun \/ UNCHANGED vars
  BY <1>4 DEF PressKey, PressRun, vars, gameVars, drawerVars, Walk!walkVars
<1> QED
  BY <1>1, <1>2, <1>3, <1>4 DEF Next

(* The game keeps GymWalk's promise: outside a game the character is only  *)
(* sent home; in a game every frame moves it at most one pixel, through no *)
(* wall, or from a teleport tile to its partner.                           *)
THEOREM PokemonImplementsGymWalk ==
    ASSUME LatchOutcomes = {TRUE}, SpinLast <= FadeLast
    PROVE  Spec => WalkSpec
<1>1. Init => WalkInv
  BY WalkInvInit
<1>2. WalkInv /\ [Next]_vars => WalkInv'
  BY WalkInvStep
<1>3. Init => Walk!Init
  BY DEF Init, GamePowerUp, DrawerPowerUp, Walk!Init
<1>4. WalkInv /\ [Next]_vars => [Walk!Next]_(Walk!walkVars)
  BY StepWalks
<1> QED
  BY <1>1, <1>2, <1>3, <1>4, PTL DEF Spec, WalkSpec, Walk!Spec
-----------------------------------------------------------------------------
(* The second spin is about a tile, and in a running game each falling     *)
(* edge puts the character where it is held; this needs neither a short    *)
(* spin nor the outcome of the race in latch.                              *)
ArrivedInv ==
    /\ tileState \in {"postspin", "latch"} => target \in Pads
    /\ tileState \in {"postspin", "latch"} /\ gameState = "draw_main_game" /\ vs = 0
          => target = Corner(pos)

(* The falling edge puts a held character where it is held.                *)
LEMMA ArrivedFall ==
    ASSUME SpinInv, ArrivedInv, NegEdge
    PROVE  ArrivedInv'
<1> USE DEF NegEdge, gameVars, tileVars
<1>1. SUFFICES ASSUME tileState \in {"postspin", "latch"}, gameState = "draw_main_game"
               PROVE  target = Corner(pos)'
  BY DEF ArrivedInv
<1>2. pos' = TopLeft(target)
  BY <1>1, StateNumber
     DEF FallAtStart, FallAtFade, FallInGame, PlayFrame, atTile, heldPos
<1>3. Corner(TopLeft(target)) = target
  BY CornerOfTopLeft DEF SpinInv, TypeOK, TileTypeOK
<1> QED
  BY <1>2, <1>3 DEF Corner

(* A new target is the partner of the tile the character spins on.         *)
LEMMA ArrivedRise ==
    ASSUME SpinInv, ArrivedInv, PosEdge
    PROVE  ArrivedInv'
<1> USE DEF PosEdge
<1>1. vs' = 1
  OBVIOUS
<1>2. CASE TakePartner(Corner(pos))
  <2>1. Corner(pos) \in Pads
    BY <1>2 DEF TakePartner, SpinInv, SpinOnPad
  <2> QED
    BY <1>1, <1>2, <2>1, PartnerIsPad DEF TakePartner, ArrivedInv
<1>3. CASE Sense(Corner(pos)) \/ Prespin(Corner(pos)) \/ Postspin \/ Latch
           \/ Hold(Corner(pos))
  BY <1>1, <1>3 DEF Sense, Prespin, Postspin, Latch, Hold, ArrivedInv
<1> QED
  BY <1>2, <1>3 DEF TileClock

(* Nothing else touches the target or the character.                       *)
LEMMA ArrivedStep ==
    ASSUME SpinInv, ArrivedInv, [Next]_vars
    PROVE  ArrivedInv'
<1>1. CASE NegEdge
  BY <1>1, ArrivedFall
<1>2. CASE PosEdge
  BY <1>2, ArrivedRise
<1>3. CASE ResetEdge
  BY <1>3 DEF ResetEdge, GameReset, TileReset, ArrivedInv
<1>4. CASE PressKey \/ PressRun \/ UNCHANGED vars
  <2>1. UNCHANGED <<gameState, tileState, target, pos, vs>>
    BY <1>4 DEF PressKey, PressRun, vars, gameVars, tileVars, drawerVars
  <2> QED
    BY <2>1 DEF ArrivedInv, Corner
<1> QED
  BY <1>1, <1>2, <1>3, <1>4 DEF Next

(* When the second spin of a running game is over, the character stands on *)
(* a tile, where the tile logic put it.                                    *)
THEOREM SpinsEndOnPads == Spec => []ArrivedOnPad
<1>1. Init => ArrivedInv
  BY DEF Init, ArrivedInv
<1>2. SpinInv /\ ArrivedInv /\ [Next]_vars => ArrivedInv'
  BY ArrivedStep
<1>3. SpinInv /\ ArrivedInv => ArrivedOnPad
  <2> SUFFICES ASSUME SpinInv, ArrivedInv, tileState = "latch",
                      gameState = "draw_main_game", vs = 0
               PROVE  Corner(pos) \in Pads /\ heldPos = pos
    BY DEF ArrivedOnPad
  <2>1. target = Corner(pos) /\ target \in Pads
    BY DEF ArrivedInv
  <2>2. TopLeft(Corner(pos)) = pos
    BY GridArithmetic DEF SpinInv, TypeOK, DrawerTypeOK
  <2> QED
    BY <2>1, <2>2 DEF heldPos
<1> QED
  BY <1>1, <1>2, <1>3, SpinInvariant, PTL DEF Spec

-----------------------------------------------------------------------------
(* A walk of one pixel more, ...                                           *)
LEMMA AlongNext ==
    ASSUME NEW p \in Pos, NEW d \in 0 .. 3, NEW m \in Nat, m + 1 <= CoordRange
    PROVE  Move(d, Along(d, p, m)) = Along(d, p, m + 1)
<1>1. ASSUME NEW c \in Coord
      PROVE  /\ Plus(Plus(c, m), 1) = Plus(c, m + 1)
             /\ Minus(Minus(c, m), 1) = Minus(c, m + 1)
  BY GridAssumption DEF Coord, Plus, Minus
<1>2. p[1] \in Coord /\ p[2] \in Coord
  BY DEF Pos
<1>3. d \in {Down, Up, Left, Right}
  BY DEF Down, Up, Left, Right
<1> QED
  BY <1>1, <1>2, <1>3 DEF Move, Along, Down, Up, Left, Right

(* ... and of none at all.                                                 *)
LEMMA AlongNone ==
    ASSUME NEW p \in Pos, NEW d \in 0 .. 3
    PROVE  Along(d, p, 0) = p
<1>1. ASSUME NEW c \in Coord
      PROVE  Plus(c, 0) = c /\ Minus(c, 0) = c
  BY GridAssumption DEF Coord, Plus, Minus
<1>2. p = <<p[1], p[2]>> /\ p[1] \in Coord /\ p[2] \in Coord
  BY DEF Pos
<1>3. d \in {Down, Up, Left, Right}
  BY DEF Down, Up, Left, Right
<1> QED
  BY <1>1, <1>2, <1>3 DEF Along, Down, Up, Left, Right

(* After f frames of a free walk at least every second frame has moved the *)
(* character, and no more than that if it does not run; everyotherframe    *)
(* tells whether it is one ahead or behind.                                *)
Walked(m, f) ==
    /\ m \in Nat
    /\ pos = Along(direction, origin, m)
    /\ m <= f
    /\ IF everyotherframe THEN 2 * m >= f - 1 ELSE 2 * m >= f
    /\ ~ran => IF everyotherframe THEN 2 * m <= f ELSE 2 * m <= f + 1
Progress(f) == \E m : Walked(m, f)

(* What is measured of a walk that nothing has stopped: the falling edge   *)
(* that moves the character is one frame ahead of the counter, the rising  *)
(* edge that counts it lets the counter catch up.  A walk whose key was    *)
(* seen before its first rising edge is one more frame ahead all along.    *)
Ahead == IF inStep THEN 1 ELSE 0

LengthInv ==
    /\ origin \in Pos
    /\ InGameNow /\ clear =>
       /\ tilecounter = TileIdle /\ vs = 1 => pos = origin
       /\ tilecounter = TileIdle /\ vs = 0 => Progress(Ahead)
       /\ tilecounter # TileIdle /\ begun =>
             Progress((IF vs = 1 THEN tilecounter ELSE tilecounter + 1) + Ahead)

(* A falling edge that finds nothing in the way is a frame more, running   *)
(* or not.                                                                 *)
LEMMA FrameWalked ==
    ASSUME TypeOK, LengthInv, NEW f \in Nat, Progress(f), f < CoordRange,
           NegEdge, InGameNow, charIsMoving, ~Blocked(direction, pos), ~atTile,
           UNCHANGED origin, ran' = (IF running THEN TRUE ELSE ran)
    PROVE  Progress(f + 1)'
<1>1. PICK m \in Nat : Walked(m, f)
  BY DEF Progress, Walked
<1>2. /\ origin' = origin /\ direction' = direction /\ everyotherframe' = ~everyotherframe
      /\ pos' = (IF everyotherframe \/ running THEN Move(direction, pos) ELSE pos)
  <2>1. FallInGame
    BY StateNumber DEF NegEdge, FallAtStart, FallAtFade, InGameNow
  <2> QED
    BY <2>1 DEF NegEdge, FallInGame, PlayFrame, WalkPos, gameVars
<1>3. everyotherframe \in BOOLEAN /\ origin \in Pos /\ direction \in 0 .. 3
  BY DEF TypeOK, DrawerTypeOK, GameTypeOK, LengthInv
<1>4. CASE everyotherframe \/ running
  <2>1. m + 1 <= CoordRange /\ m + 1 \in Nat /\ m <= f
    BY <1>1, GridAssumption DEF Walked
  <2>2. pos' = Along(direction', origin', m + 1)
    BY <1>1, <1>2, <1>3, <1>4, <2>1, AlongNext DEF Walked
  <2>3. CASE everyotherframe
    <3>1. ~everyotherframe' /\ (~ran' => ~ran)
      BY Zenon, <1>2, <2>3
    <3>2. 2 * m >= f - 1 /\ (~ran => 2 * m <= f)
      BY <1>1, <2>3 DEF Walked
    <3>3. 2 * (m + 1) >= f + 1 /\ (~ran' => 2 * (m + 1) <= (f + 1) + 1) /\ m + 1 <= f + 1
      BY <2>1, <3>1, <3>2
    <3>4. Walked(m + 1, f + 1)'
      BY <2>1, <2>2, <3>1, <3>3 DEF Walked
    <3> QED
      BY <3>4 DEF Progress
  <2>4. CASE ~everyotherframe
    <3>1. everyotherframe' /\ ran'
      BY Zenon, <1>2, <1>4, <2>4
    <3>2. 2 * m >= f
      BY <1>1, <2>4 DEF Walked
    <3>3. 2 * (m + 1) >= (f + 1) - 1 /\ m + 1 <= f + 1
      BY <2>1, <3>2
    <3>4. Walked(m + 1, f + 1)'
      BY <2>1, <2>2, <3>1, <3>3 DEF Walked
    <3> QED
      BY <3>4 DEF Progress
  <2> QED
    BY <2>3, <2>4
<1>5. CASE ~(everyotherframe \/ running)
  <2>1. pos' = Along(direction', origin', m)
    BY <1>1, <1>2, <1>5 DEF Walked
  <2>2. everyotherframe' /\ (~ran' => ~ran)
    BY Zenon, <1>2, <1>5
  <2>3. m <= f /\ 2 * m >= f /\ (~ran => 2 * m <= f + 1)
    BY <1>1, <1>5 DEF Walked
  <2>4. m <= f + 1 /\ 2 * m >= (f + 1) - 1 /\ (~ran' => 2 * m <= f + 1)
    BY <2>2, <2>3
  <2>5. Walked(m, f + 1)'
    BY <2>1, <2>2, <2>4 DEF Walked
  <2> QED
    BY <2>5 DEF Progress
<1> QED
  BY <1>4, <1>5

(* Progress is not lost while only the machines or the inputs change.      *)
LEMMA ProgressKept ==
    ASSUME NEW f, Progress(f), UNCHANGED <<pos, direction, origin, everyotherframe, ran>>
    PROVE  Progress(f)'
BY DEF Progress, Walked

(* A character at rest has walked no frame.                                *)
LEMMA ProgressNone ==
    ASSUME NEW p \in Pos, NEW d \in 0 .. 3
    PROVE  pos = p /\ origin = p /\ direction = d => Progress(0)
<1>1. p = Along(d, p, 0)
  BY AlongNone
<1>2. pos = p /\ origin = p /\ direction = d => Walked(0, 0)
  BY <1>1 DEF Walked
<1> QED
  BY <1>2 DEF Progress

(* The frames of a walk bound its length from both sides.                  *)
LEMMA ProgressLength ==
    ASSUME Progress(Frames)
    PROVE  \E n \in Lengths : pos = Along(direction, origin, n)
<1>1. PICK m \in Nat : Walked(m, Frames)
  BY DEF Progress, Walked
<1>2. Frames \in Nat
  BY GameAssumption DEF Frames
<1>3. m <= Frames /\ 2 * m >= Frames - 1 /\ (~ran => 2 * m <= Frames + 1)
  BY <1>1, <1>2 DEF Walked
<1> DEFINE f == Frames
<1> HIDE DEF f
<1>4. f \in Nat /\ m <= f /\ 2 * m >= f - 1 /\ (~ran => 2 * m <= f + 1)
  BY <1>2, <1>3 DEF f
<1>5. f \div 2 <= m /\ (~ran => m <= (f + 1) \div 2)
  BY <1>4
<1>6. m \in f \div 2 .. (IF ran THEN f ELSE (f + 1) \div 2)
  BY <1>4, <1>5
<1>7. m \in Lengths
  BY <1>6 DEF f, Lengths
<1> QED
  BY <1>1, <1>7 DEF Walked

(* The falling edge moves the character, if the frame is one that moves.   *)
LEMMA LengthFall ==
    ASSUME TypeOK, LengthInv, NegEdge, Watch, TileIdle < CoordRange
    PROVE  LengthInv'
<1>1. /\ vs = 1 /\ vs' = 0 /\ origin' = origin /\ begun' = begun
      /\ clear' =
           (clear /\ ~(atTile \/ ~InGameNow \/ (charIsMoving /\ Blocked(direction, pos))))
      /\ ran' = (IF charIsMoving /\ running THEN TRUE ELSE ran)
      /\ inStep' = (IF tilecounter = TileIdle THEN charIsMoving ELSE inStep)
      /\ UNCHANGED <<gameState, tilecounter, direction>>
  <2>1. vs = 1 /\ vs' = 0 /\ UNCHANGED <<gameState, tilecounter, direction>>
    BY DEF NegEdge, gameVars
  <2>2. Falling /\ ~Rising
    BY <2>1 DEF Falling, Rising
  <2>3. origin' = origin /\ begun' = begun
    BY <2>2 DEF Watch
  <2>4. clear' =
          (clear /\ ~(atTile \/ ~InGameNow \/ (charIsMoving /\ Blocked(direction, pos))))
    BY Zenon, <2>2 DEF Watch
  <2>5. ran' = (IF charIsMoving /\ running THEN TRUE ELSE ran)
    BY Zenon, <2>2 DEF Watch
  <2>6. CASE tilecounter = TileIdle
    <3>1. inStep' = charIsMoving
      BY Zenon, <2>2, <2>6 DEF Watch
    <3> QED
      BY <2>1, <2>3, <2>4, <2>5, <2>6, <3>1
  <2>7. CASE tilecounter # TileIdle
    <3>1. inStep' = inStep
      BY Zenon, <2>2, <2>7 DEF Watch
    <3> QED
      BY <2>1, <2>3, <2>4, <2>5, <2>7, <3>1
  <2> QED
    BY <2>6, <2>7
<1>2. /\ tilecounter \in Nat /\ tilecounter <= TileIdle /\ TileIdle \in Nat \ {0}
      /\ pos \in Pos /\ direction \in 0 .. 3
  BY GameAssumption DEF TypeOK, GameTypeOK, DrawerTypeOK
<1>3. SUFFICES ASSUME InGameNow, clear'
               PROVE  /\ tilecounter = TileIdle => Progress(Ahead)'
                      /\ tilecounter # TileIdle /\ begun
                            => Progress(tilecounter + 1 + Ahead)'
  BY <1>1 DEF LengthInv, InGameNow
<1>4. clear /\ ~atTile /\ (charIsMoving => ~Blocked(direction, pos))
  BY <1>1, <1>3
<1>5. CASE tilecounter = TileIdle /\ charIsMoving
  <2>1. Progress(0)
    BY <1>1, <1>2, <1>3, <1>4, <1>5, ProgressNone DEF LengthInv
  <2>2. ran' = (IF running THEN TRUE ELSE ran)
    BY Zenon, <1>1, <1>5
  <2>3. Progress(0 + 1)'
    BY <1>1, <1>2, <1>3, <1>4, <1>5, <2>1, <2>2, FrameWalked, GridAssumption
  <2>4. Ahead' = 1
    BY <1>1, <1>5 DEF Ahead
  <2> QED
    BY <1>5, <2>3, <2>4 DEF Progress, Walked
<1>6. CASE tilecounter = TileIdle /\ ~charIsMoving
  <2>1. pos = origin
    BY <1>1, <1>3, <1>4, <1>6 DEF LengthInv
  <2>2. FallInGame
    BY <1>3, StateNumber DEF NegEdge, FallAtStart, FallAtFade, InGameNow
  <2>3. pos' = pos
    BY <1>4, <1>6, <2>2 DEF FallInGame, PlayFrame, WalkPos
  <2>4. pos' = Along(direction', origin', 0)
    BY <1>1, <1>2, <2>1, <2>3, AlongNone
  <2>5. Walked(0, 0)'
    BY <2>4 DEF Walked
  <2>6. Ahead' = 0
    BY <1>1, <1>6 DEF Ahead
  <2> QED
    BY <1>6, <2>5, <2>6 DEF Progress, Walked
<1>7. CASE tilecounter # TileIdle /\ begun
  <2>1. charIsMoving
    BY <1>3, <1>7 DEF charIsMoving, InGameNow
  <2>2. PICK f \in Nat : f = tilecounter + Ahead
    BY <1>2 DEF Ahead
  <2>3. Progress(f) /\ f < CoordRange
    BY <1>1, <1>2, <1>3, <1>4, <1>7, <2>2, GridAssumption DEF LengthInv, Ahead
  <2>4. ran' = (IF running THEN TRUE ELSE ran)
    BY Zenon, <1>1, <2>1
  <2>5. Progress(f + 1)'
    BY <1>1, <1>3, <1>4, <2>1, <2>3, <2>4, FrameWalked
  <2>6. f + 1 = tilecounter + 1 + Ahead /\ Ahead' = Ahead
    BY <1>1, <1>2, <1>7, <2>2 DEF Ahead
  <2>7. f + 1 = tilecounter' + 1 + Ahead'
    BY <1>1, <2>6
  <2> QED
    BY <1>1, <1>7, <2>5, <2>7
<1> QED
  BY <1>5, <1>6, <1>7

(* The rising edge counts the frame, starts a walk or measures anew.       *)
LEMMA LengthRise ==
    ASSUME TypeOK, LengthInv, PosEdge, Watch
    PROVE  LengthInv'
<1>1. vs = 0 /\ vs' = 1 /\ Rising /\ UNCHANGED <<pos, everyotherframe>>
  BY DEF PosEdge, Rising, drawerVars
<1>2. /\ pos \in Pos /\ origin \in Pos
      /\ tilecounter \in Nat /\ TileIdle \in Nat \ {0}
  BY GameAssumption DEF TypeOK, DrawerTypeOK, GameTypeOK, LengthInv
<1>3. CASE tilecounter' = TileIdle \/ ~InGameNow
  <2>1. origin' = pos' /\ ~begun'
    BY <1>1, <1>3 DEF Watch
  <2> QED
    BY <1>1, <1>2, <2>1 DEF LengthInv
<1>4. CASE tilecounter' # TileIdle /\ InGameNow
  <2>1. /\ origin' = origin
        /\ clear' => clear
        /\ begun' => begun \/ tilecounter = TileIdle
        /\ inStep' = inStep
        /\ ran' = ran
    <3>1. origin' = origin
      BY <1>1, <1>4 DEF Watch
    <3>2. clear' => clear
      BY <1>1, <1>4 DEF Watch
    <3>3. begun' => begun \/ tilecounter = TileIdle
      BY <1>1, <1>4 DEF Watch
    <3>4. ~Falling
      BY <1>1 DEF Falling
    <3>5. inStep' = inStep
      BY Zenon, <1>4, <3>4 DEF Watch
    <3>6. ran' = ran
      BY Zenon, <1>4, <3>4 DEF Watch
    <3> QED
      BY <3>1, <3>2, <3>3, <3>5, <3>6
  <2>2. SUFFICES ASSUME clear, begun'
                 PROVE  Progress(tilecounter + Ahead)'
    BY <1>1, <1>2, <1>4, <2>1 DEF LengthInv
  <2>3. Ahead' = Ahead /\ Ahead \in Nat
    BY <2>1 DEF Ahead
  <2>4. CASE WalkOn
    <3>1. /\ tilecounter # TileIdle /\ tilecounter' = tilecounter + 1
          /\ direction' = direction
      BY <2>4 DEF WalkOn
    <3>2. PICK n \in Nat : n = tilecounter + 1 + Ahead
      BY <1>2, <2>3
    <3>3. Progress(n)
      BY <1>1, <1>4, <2>1, <2>2, <3>1, <3>2 DEF LengthInv
    <3>4. Progress(n)'
      BY <1>1, <2>1, <3>1, <3>3, ProgressKept
    <3>5. n = tilecounter' + Ahead'
      BY <2>3, <3>1, <3>2
    <3> QED
      BY <3>4, <3>5
  <2>5. CASE BeginStep
    <3>1. /\ tilecounter = TileIdle /\ tilecounter' = 0 /\ direction' = direction
      BY <2>5 DEF BeginStep
    <3>2. PICK n \in Nat : n = Ahead
      BY <2>3
    <3>3. Progress(n)
      BY <1>1, <1>4, <2>2, <3>1, <3>2 DEF LengthInv
    <3>4. Progress(n)'
      BY <1>1, <2>1, <3>1, <3>3, ProgressKept
    <3>5. n = tilecounter' + Ahead'
      BY <2>3, <3>1, <3>2
    <3> QED
      BY <3>4, <3>5
  <2>6. CASE StartScreen \/ Fade \/ Turn \/ Stand
    BY <1>4, <2>6 DEF StartScreen, Fade, Turn, Stand, InGameNow
  <2> QED
    BY <2>4, <2>5, <2>6 DEF PosEdge, GameClock
<1> QED
  BY <1>3, <1>4

(* A Reset ends the game, and with it what is measured.                    *)
LEMMA LengthReset ==
    ASSUME TypeOK, LengthInv, ResetEdge, Watch
    PROVE  LengthInv'
<1>1. pos' = pos /\ gameState' = "start_screen" /\ pos \in Pos
  BY DEF ResetEdge, GameReset, drawerVars, TypeOK, DrawerTypeOK
<1>2. origin' \in {origin, pos'}
  BY DEF Watch
<1> QED
  BY <1>1, <1>2 DEF LengthInv, InGameNow

(* A key or KEY[1] that changes between two edges changes what the next    *)
(* edge will see and nothing of what is measured.                          *)
LEMMA LengthElse ==
    ASSUME LengthInv, ((PressKey \/ PressRun) /\ Watch) \/ UNCHANGED stepVars
    PROVE  LengthInv'
<1>1. UNCHANGED <<gameState, tilecounter, direction, pos, everyotherframe, vs>>
  BY DEF PressKey, PressRun, gameVars, drawerVars, stepVars, vars
<1>2. UNCHANGED <<origin, begun, inStep, ran>> /\ (clear' => clear)
  <2>1. CASE UNCHANGED stepVars
    BY <2>1 DEF stepVars, history
  <2>2. CASE (PressKey \/ PressRun) /\ Watch
    <3>1. vs' = vs
      BY <1>1
    <3>2. ~Rising /\ ~Falling
      BY <3>1 DEF Rising, Falling
    <3>3. origin' = origin /\ begun' = begun
      BY <2>2, <3>2 DEF Watch
    <3>4. inStep' = inStep
      BY Zenon, <2>2, <3>2 DEF Watch
    <3>5. ran' = ran /\ (clear' => clear)
      BY Zenon, <2>2, <3>2 DEF Watch
    <3> QED
      BY <3>3, <3>4, <3>5
  <2> QED
    BY <2>1, <2>2
<1> QED
  BY <1>1, <1>2 DEF LengthInv, InGameNow, Progress, Walked, Ahead

LEMMA LengthStep ==
    ASSUME TypeOK, LengthInv, [Next /\ Watch]_stepVars, TileIdle < CoordRange
    PROVE  LengthInv'
BY LengthFall, LengthRise, LengthReset, LengthElse DEF Next

(* gameFSM.sv:116, "to walk in blocks of 16": whatever keys come and go,   *)
(* between whichever edges, run button and Resets included, a walk that a  *)
(* key began and nothing stopped is as long as its frames say, half of     *)
(* them, all of them at most if the player runs, one frame less if its key *)
(* came after the falling edge, provided a walk fits in the coordinates.   *)
THEOREM WalksAreMeasured ==
    ASSUME TileIdle < CoordRange
    PROVE  StepsSpec => KeyWalkLength
<1>1. Measured => TypeOK /\ LengthInv
  <2>1. ASSUME Measured
        PROVE  TypeOK /\ LengthInv
    <3>1. TypeOK
      BY <2>1, TypeInit DEF Measured
    <3>2. pos \in Pos
      BY <3>1 DEF TypeOK, DrawerTypeOK
    <3>3. LengthInv
      BY <2>1, <3>2 DEF Measured, Init, GamePowerUp, LengthInv, InGameNow
    <3> QED
      BY <3>1, <3>3
  <2> QED
    BY <2>1
<1>2. TypeOK /\ LengthInv /\ [Next /\ Watch]_stepVars => TypeOK' /\ LengthInv'
  <2>1. [Next /\ Watch]_stepVars => [Next]_vars
    BY DEF stepVars
  <2> QED
    BY <2>1, TypeStep, LengthStep
<1>3. TypeOK /\ LengthInv /\ [Next /\ Watch]_stepVars =>
        [WalkEnds /\ clear /\ begun
           => \E n \in Lengths : pos = Along(direction, origin, n)]_stepVars
  <2> SUFFICES ASSUME TypeOK, LengthInv, WalkEnds, clear, begun
               PROVE  \E n \in Lengths : pos = Along(direction, origin, n)
    OBVIOUS
  <2>1. vs = 0 /\ InGameNow /\ tilecounter = TileIdle - 1 /\ TileIdle \in Nat
    BY GameAssumption DEF WalkEnds, Rising
  <2>2. tilecounter + 1 + Ahead = Frames /\ tilecounter # TileIdle
    BY <2>1 DEF Frames, Ahead
  <2>3. Progress(tilecounter + 1 + Ahead)
    BY <2>1, <2>2 DEF LengthInv
  <2>4. Progress(Frames)
    BY <2>2, <2>3
  <2> QED
    BY <2>4, ProgressLength
<1> QED
  BY <1>1, <1>2, <1>3, PTL DEF StepsSpec, KeyWalkLength

-----------------------------------------------------------------------------
(* The same game in the psychic gym: GymProofs knows what GymWalk's promise *)
(* amounts to between its walls.                                           *)
Map == INSTANCE GymProofs WITH playing <- gameState = "draw_main_game"

(* The constants of the design that place the walls and the tiles.         *)
InTheGym ==
    /\ CoordRange = 1024 /\ CornerX = 15 /\ CornerY = 20
    /\ StartPos = Map!GymStart /\ PowerUpPos = Map!GymPowerUp
    /\ Partner = Map!GymPartner
    /\ \A d \in Directions, p \in Pos : Blocked(d, p) <=> Map!AtBounds(d, p)

(* The grid of the gym is then this one, ...                               *)
LEMMA SameMap ==
    ASSUME InTheGym
    PROVE  /\ Map!Pads = Pads
           /\ \A p : Map!Corner(p) = Corner(p)
           /\ \A c : Map!TopLeft(c) = TopLeft(c)
           /\ \A d, p : Map!Move(d, p) = Move(d, p)
           /\ Map!Directions = Directions
<1> USE DEF InTheGym
<1>1. \A c, k : Map!Plus(c, k) = Plus(c, k) /\ Map!Minus(c, k) = Minus(c, k)
  BY DEF Map!Plus, Plus, Map!Minus, Minus
<1>2. Map!Pads = Pads
  BY DEF Map!Pads, Pads
<1>3. Map!Directions = Directions
  BY DEF Directions, Map!Directions, Down, Up, Left, Right, Map!Down, Map!Up, Map!Left,
         Map!Right
<1>4. \A p : Map!Corner(p) = Corner(p)
  BY <1>1, Zenon DEF Map!Corner, Corner
<1>5. \A c : Map!TopLeft(c) = TopLeft(c)
  BY <1>1, Zenon DEF Map!TopLeft, TopLeft
<1>6. \A d, p : Map!Move(d, p) = Move(d, p)
  BY <1>1, Zenon
     DEF Map!Move, Move, Down, Up, Left, Right, Map!Down, Map!Up, Map!Left, Map!Right
<1> QED
  BY <1>2, <1>3, <1>4, <1>5, <1>6

(* ... and a step that GymWalk allows here it allows there.                *)
LEMMA GymWalkIsInMap ==
    ASSUME InTheGym, TypeOK, [Walk!Next]_(Walk!walkVars)
    PROVE  [Map!Next]_(Map!walkVars)
<1>1. pos \in Pos
  BY DEF TypeOK, DrawerTypeOK
<1>2. CASE UNCHANGED Walk!walkVars
  BY <1>2 DEF Walk!walkVars, Map!walkVars
<1>3. CASE Walk!GoHome \/ Walk!Begin \/ Walk!Quit
  BY <1>3
     DEF Walk!GoHome, Walk!Begin, Walk!Quit, Map!Next, Map!GoHome, Map!Begin, Map!Quit,
         InTheGym
<1>4. ASSUME NEW d \in Directions, Walk!Step(d)
      PROVE  Map!Next
  <2>1. Map!Step(d)
    BY <1>1, <1>4, SameMap, SameGrid DEF Walk!Step, Map!Step, InTheGym
  <2> QED
    BY <2>1, SameMap DEF Map!Next
<1>5. CASE Walk!Teleport
  BY <1>1, <1>5, SameMap, SameGrid DEF Walk!Teleport, Map!Teleport, Map!Next, InTheGym
<1>6. Walk!Directions = Directions
  BY SameGrid DEF Directions, Down, Up, Left, Right
<1> QED
  BY <1>2, <1>3, <1>4, <1>5, <1>6 DEF Walk!Next

(* The game implements GymWalk in the psychic gym.                         *)
LEMMA GameIsInMap ==
    ASSUME InTheGym, LatchOutcomes = {TRUE}, SpinLast <= FadeLast
    PROVE  Spec => Map!Spec
<1>1. Walk!Init => Map!Init
  BY DEF Walk!Init, Map!Init, InTheGym
<1>2. TypeOK /\ [Walk!Next]_(Walk!walkVars) => [Map!Next]_(Map!walkVars)
  BY GymWalkIsInMap
<1>3. Spec => WalkSpec
  BY PokemonImplementsGymWalk
<1> QED
  BY <1>1, <1>2, <1>3, TypeCorrect, PTL DEF WalkSpec, Walk!Spec, Map!Spec

(* README.md:10, as far as the design keeps it: whatever is pressed on     *)
(* which edge, the character of a running game is within the walls that    *)
(* gymBoundsChecker.sv puts around the rooms.                              *)
THEOREM GameStaysInWalls ==
    ASSUME InTheGym, LatchOutcomes = {TRUE}, SpinLast <= FadeLast
    PROVE  Spec => []Map!InWalls
<1>1. Map!Spec => []Map!InWalls
  BY Map!AlwaysInWalls
<1> QED
  BY <1>1, GameIsInMap

(* The centre room, where the gym is won, is entered over one tile only,   *)
(* gymTileLogic.sv:83-84, by no walk, no restart and no other spin.        *)
THEOREM GoalByTileOnly ==
    ASSUME InTheGym, LatchOutcomes = {TRUE}, SpinLast <= FadeLast
    PROVE  Spec => Map!FinishByTile
<1>1. Map!Spec => Map!FinishByTile
  BY Map!CentreRoomByTileOnly
<1> QED
  BY <1>1, GameIsInMap
-----------------------------------------------------------------------------
(* How many rising edges a spin has left.  The first spin begins with any  *)
(* spinCounter, runs through the wrap-around if that is past SpinLast, and *)
(* leaves 0 to the second.                                                 *)
EdgesToSpinLast == IF spinCounter <= SpinLast THEN SpinLast - spinCounter
                   ELSE SpinRange - spinCounter + SpinLast

SpinLeft ==
    CASE tileState = "prespin"  -> EdgesToSpinLast + SpinLast + 4
      [] tileState = "teleport" -> SpinLast + 3
      [] tileState = "postspin" -> SpinLast - spinCounter + 2
      [] tileState = "latch"    -> 1
      [] OTHER                  -> 0

SecondSpinCounts ==
    /\ tileState = "teleport" => spinCounter = 0
    /\ tileState = "postspin" => spinCounter <= SpinLast

CountInv == TileTypeOK /\ SecondSpinCounts

(* A rising edge of the tile logic takes one edge off what is left.        *)
LEMMA SpinEdge ==
    ASSUME CountInv, LatchOutcomes = {TRUE}, NEW c \in Pos, TileClock(c)
    PROVE  SecondSpinCounts' /\ (atTile => SpinLeft' = SpinLeft - 1)
<1>1. /\ spinCounter \in Nat /\ spinCounter < SpinRange
      /\ SpinLast \in Nat /\ PostspinWrap \in Nat /\ SpinRange \in Nat
      /\ SpinLast < PostspinWrap /\ SpinLast + 1 < SpinRange
  BY TileAssumption DEF CountInv, TileTypeOK
<1>2. CASE Sense(c) \/ Hold(c)
  BY <1>2 DEF Sense, Hold, SecondSpinCounts, atTile
<1>3. CASE Prespin(c)
  <2>1. CASE spinCounter = SpinLast
    <3>1. tileState = "prespin" /\ tileState' = "teleport" /\ spinCounter' = 0
      BY <1>3, <2>1 DEF Prespin
    <3>2. EdgesToSpinLast = 0
      BY <1>1, <2>1 DEF EdgesToSpinLast
    <3> QED
      BY <1>1, <3>1, <3>2 DEF SecondSpinCounts, SpinLeft
  <2>2. CASE spinCounter # SpinLast
    <3>1. tileState = "prespin" /\ tileState' = "prespin" /\ spinCounter' = SpinUp
      BY <1>3, <2>2 DEF Prespin
    <3>2. EdgesToSpinLast' = EdgesToSpinLast - 1 /\ EdgesToSpinLast \in Nat
      BY <1>1, <2>2, <3>1 DEF EdgesToSpinLast, SpinUp
    <3> QED
      BY <1>1, <3>1, <3>2 DEF SecondSpinCounts, SpinLeft
  <2> QED
    BY <2>1, <2>2
<1>4. CASE TakePartner(c)
  <2>1. /\ tileState = "teleport" /\ tileState' = "postspin"
        /\ spinCounter = 0 /\ spinCounter' = 0
    BY <1>4 DEF TakePartner, CountInv, SecondSpinCounts
  <2> QED
    BY <1>1, <2>1 DEF SecondSpinCounts, SpinLeft
<1>5. CASE Postspin
  <2>1. tileState = "postspin" /\ spinCounter <= SpinLast
    BY <1>5 DEF Postspin, CountInv, SecondSpinCounts
  <2>2. spinCounter' = spinCounter + 1
    BY <1>1, <1>5, <2>1 DEF Postspin, SpinUp
  <2>3. CASE spinCounter = SpinLast
    <3>1. tileState' = "latch"
      BY <1>5, <2>3 DEF Postspin
    <3> QED
      BY <1>1, <2>1, <2>3, <3>1 DEF SecondSpinCounts, SpinLeft
  <2>4. CASE spinCounter # SpinLast
    <3>1. tileState' = "postspin"
      BY <1>5, <2>4 DEF Postspin
    <3> QED
      BY <1>1, <2>1, <2>2, <2>4, <3>1 DEF SecondSpinCounts, SpinLeft
  <2> QED
    BY <2>3, <2>4
<1>6. CASE Latch
  <2>1. tileState = "latch" /\ tileState' = "hold"
    BY <1>6 DEF Latch
  <2> QED
    BY <2>1 DEF SecondSpinCounts, SpinLeft
<1> QED
  BY <1>2, <1>3, <1>4, <1>5, <1>6 DEF TileClock

(* No spin is longer than one run through the counter and the second spin. *)
LEMMA SpinLeftBound ==
    ASSUME CountInv
    PROVE  /\ SpinLeft \in 0 .. SpinRange + SpinLast + 3
           /\ SpinLeft = 0 <=> ~atTile
<1>1. /\ spinCounter \in Nat /\ spinCounter < SpinRange
      /\ SpinLast \in Nat /\ SpinRange \in Nat /\ SpinLast + 1 < SpinRange
  BY TileAssumption DEF CountInv, TileTypeOK
<1>2. EdgesToSpinLast \in 0 .. SpinRange - 1
  BY <1>1 DEF EdgesToSpinLast
<1>3. CASE tileState = "prespin"
  BY <1>1, <1>2, <1>3 DEF SpinLeft, atTile
<1>4. CASE tileState = "teleport"
  BY <1>1, <1>4 DEF SpinLeft, atTile
<1>5. CASE tileState = "postspin"
  <2>1. spinCounter <= SpinLast
    BY <1>5 DEF CountInv, SecondSpinCounts
  <2> QED
    BY <1>1, <1>5, <2>1 DEF SpinLeft, atTile
<1>6. CASE tileState = "latch"
  BY <1>1, <1>6 DEF SpinLeft, atTile
<1>7. CASE tileState \in {"notTile", "hold"}
  BY <1>1, <1>7 DEF SpinLeft, atTile
<1> QED
  BY <1>3, <1>4, <1>5, <1>6, <1>7 DEF CountInv, TileTypeOK, TileStates

(* Each frame of a spin brings its end nearer, and nothing puts it off.    *)
SpinStep ==
    /\ SpinLeft \in 0 .. SpinRange + SpinLast + 3
    /\ SpinLeft = 0 <=> ~atTile
    /\ PosEdge /\ atTile => SpinLeft' = SpinLeft - 1
    /\ ~PosEdge => SpinLeft' \in {0, SpinLeft}

(* Every step of the game, on whichever edge, keeps the measure.           *)
LEMMA CountStep ==
    ASSUME TypeOK, SecondSpinCounts, LatchOutcomes = {TRUE}, [Next]_vars
    PROVE  SecondSpinCounts' /\ [SpinStep]_vars
<1>1. CountInv
  BY DEF CountInv, TypeOK
<1>2. SpinLeft \in 0 .. SpinRange + SpinLast + 3 /\ (SpinLeft = 0 <=> ~atTile)
  BY <1>1, SpinLeftBound
<1>3. CASE PosEdge
  <2>1. Corner(pos) \in Pos /\ TileClock(Corner(pos))
    BY <1>3, GridArithmetic DEF PosEdge, TypeOK, DrawerTypeOK
  <2> QED
    BY <1>1, <1>2, <1>3, <2>1, SpinEdge DEF SpinStep
<1>4. CASE ResetEdge
  <2>1. tileState' = "notTile"
    BY <1>4 DEF ResetEdge, TileReset
  <2>2. SecondSpinCounts' /\ SpinLeft' = 0
    BY <2>1 DEF SecondSpinCounts, SpinLeft
  <2>3. ~PosEdge \/ ~atTile \/ SpinLeft' = SpinLeft - 1
    BY <1>1, <2>2, SpinEdge, GridArithmetic DEF PosEdge, TypeOK, DrawerTypeOK
  <2> QED
    BY <1>2, <2>2, <2>3 DEF SpinStep
<1>5. CASE NegEdge \/ PressKey \/ PressRun \/ UNCHANGED vars
  <2>1. tileState' = tileState /\ spinCounter' = spinCounter
    BY <1>5 DEF NegEdge, PressKey, PressRun, vars, tileVars
  <2>2. SecondSpinCounts' /\ SpinLeft' = SpinLeft
    BY <2>1 DEF CountInv, SecondSpinCounts, SpinLeft, EdgesToSpinLast
  <2>3. ~PosEdge
    BY <1>5 DEF PosEdge, NegEdge, PressKey, PressRun, vars
  <2> QED
    BY <1>2, <2>2, <2>3 DEF SpinStep
<1> QED
  BY <1>3, <1>4, <1>5 DEF Next

(* gymTileLogic.sv:7, the character is not held for ever: the tile logic   *)
(* holds it for at most SpinRange + SpinLast + 3 rising edges, 74 in the   *)
(* design, whatever spinCounter was left at and whatever is pressed; each  *)
(* edge counts, and only a Reset cuts a spin short.                        *)
THEOREM SpinsAreBounded ==
    ASSUME LatchOutcomes = {TRUE}
    PROVE  Spec => [][SpinStep]_vars
<1>1. Init => SecondSpinCounts
  BY DEF Init, SecondSpinCounts
<1>2. TypeOK /\ SecondSpinCounts /\ [Next]_vars => SecondSpinCounts' /\ [SpinStep]_vars
  BY CountStep
<1> QED
  BY <1>1, <1>2, TypeCorrect, PTL DEF Spec
=============================================================================
