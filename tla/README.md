# A TLA+ verification of Pokemon-SystemVerilog-Edition

The repository is a game on an FPGA: a character walks through the nine rooms
of a gym, driven by a USB keyboard, and teleport tiles lead from room to room
until the player reaches the centre room.  SystemVerilog holds the game and the
VGA picture; C on a Nios II talks to the USB chip and hands the game one
keycode; under it is the runtime the C is linked with, of which the program uses
the console, and which is complete with its device driver.  This directory models
that system in TLA+, checks the models with TLC and proves the main results with
TLAPS.

Line numbers below refer to the files of the repository.

## 1. Inventory

### How the parts interact

    keyboard -- USB chip -- HPI bus -- Nios II (main.c, usb.c, io_handler.c)
                                           | keycode port, written at any time
    KEY[1] run ----------------------+     v
    KEY[0] reset -- Reset_h ---+---> gameFSM ---- charIsMoving, direction,
                               |       ^            state_num
                        VGA_controller |              |
                               | VGA_VS (clock)       v
                               +-----> frameDrawer: position <--> gymTileLogic
                               |            |  \-- gymBoundsChecker (atBounds)
                               | pixels     v
                               +---------> frame buffer -> VGA

    main.c, printf -- write() -- file descriptors -- console driver -- JTAG UART
                                                        ^    ^            |
                        alt_tick: alarms, clock --------+    +-- interrupts

There is one clock for the game: the vertical sync pulse VGA_VS.  Each frame
has a falling edge, at which the position registers move
(`framebuffer.sv:70-74`), and then a rising edge, at which the state machines
of `gameFSM.sv:39-55` and `gymTileLogic.sv:30-43` advance.  What the falling
edge uses of gameFSM is combinational in the keycode (`charIsMoving`), and the
keycode, KEY[0] and KEY[1] are asynchronous: they may change between any two
edges.  This is where most of the hard behaviour of the game comes from.

The runtime has no threads.  Its concurrency is interrupts: the routine of the
JTAG UART runs between any two instructions of a write or read that waits, and
the system clock's tick calls the alarms' callbacks, which may start and stop
alarms, the console driver's time limit among them.  They share rings, an
interrupt mask, and a doubly linked list, protected by turning interrupts off.

### Components

| component | state | operations | what makes it correct |
|---|---|---|---|
| game state machine, `gameFSM.sv` | screen, fade counter, direction, walking and animation counters | one step per frame by screen and key; Reset | a game begins on the start tile; a walk is a block of 16 pixels in one direction |
| tile logic, `gymTileLogic.sv` | spin state, spin counter, target corner | detect, first spin, look up the partner, second spin, latch, wait for the character to leave | the partner is always found; a spin ends; the target is never stale |
| position logic, `framebuffer.sv:70-171` | position, half-speed bit | send home, keep, walk one pixel, be held | one pixel per frame, never through a wall; otherwise only tile to partner |
| gym, `gymBoundsChecker.sv` and the tile table | none | combinational | the rooms are closed except for the tiles |
| VGA timing and reset, `VGA_controller.sv`, `lab8.sv:62-65` | counters, sync pulses, reset register | pixel clock, button | frames keep coming; pictures do not mix two positions; the button resets |
| pixel pipeline, `framebuffer.sv:54-66, 76-96, 118-217`, `ram.sv` | frame buffer, write enable and data registers | write the next picture at the end of a line, read it at double size | each picture element is written with its own pixel |
| HPI bus, `hpi_io_intf.sv`, `io_handler.c` | bus registers | read, write, reset | a strobe sees stable address and data |
| USB host software, `main.c`, `usb.c` | enumeration step, data toggle, transfer list, keycode port | nine enumeration transfers, polling, retries, hot plug | each completion is matched with its own transfer; the key port follows the keyboard; the software recovers |
| console driver, `altera_avalon_jtag_uart_*.c` | two rings, interrupt mask, seconds without a host | write, read, close, ioctl; interrupt routine; alarm | both rings lose and repeat nothing; no interrupt is left off with work to do; calls return |
| file descriptors, `alt_fd*.c`, `alt_open.c`, `alt_ioctl.c`, ... | pool of descriptors, high-water mark, device lists | open, close, lock, flags, read, write, ...; redirection before main | nothing leaks; a device has one holder; the mark bounds what is open |
| interrupts, `alt_irq*.c`, `alt_iic*.c` | handlers and contexts, masks | register, enable, disable, disable and enable all; dispatch | a handler runs alone, with its own context |
| alarms and clock, `alt_tick.c`, `alt_alarm_start.c`, `alt_settod.c`, `alt_gettod.c` | count of ticks, alarm list, offset of the wall clock | start, stop, tick, callbacks; set and get the time | alarms go off in their tick, over the roll-over too; the list stays a ring; the clock follows the ticks |
| audio, `state_audio.sv`, `audio_interface.vhd` | I2C and sample state machines | configure the codec, send samples | commented out of `lab8.sv` |

Not part of the game: `ball.sv` and `Color_Mapper.sv` (left over from a course
lab, instantiated nowhere), `HexDriver.sv` (a truth table), the test benches,
`Audio_Controller/` and `lab8_soc/` (vendored or generated), and of the board
support package what is named under "Not modelled" below.

### What is hard here

`PROJECT.json` lists every hazard at its line.  The main ones: two state
machines and a position that see the same asynchronous key at different edges;
a partner tile latched at one edge and used some edges later, with quits and
restarts between; a spin counter that is compared with a constant too wide for
it and never cleared; a register that is read on the very edge that changes it
(`gymTileLogic.sv:123`); walls that are equality tests; a reset button that
stops the clock of what it resets.  On the software's side: a message register
for one word, read and then cleared while the chip may write it; lists sent
again while the first may still run; answers that do not say what they answer;
words that are read though the transfer failed.  In the runtime: indices of a
ring that a routine moves between two reads of them; a mask that both sides
read, change and write; a count that rolls over under alarms that wait for it;
a list changed by the callbacks of the walk along it; a descriptor taken before
it is known whether open succeeds.

## 2. Modules

| module | models |
|---|---|
| `Grid` | coordinates, directions, corners and the CONSTANTS of a gym |
| `GymWalk` | abstract specification: what may happen to the character |
| `GameFSM` | `gameFSM.sv`, one action per state and branch |
| `TileLogic` | `gymTileLogic.sv`, one action per state |
| `FrameDrawer` | the position logic of `framebuffer.sv` |
| `Pokemon` | the three wired together, their clock edges and their inputs |
| `PokemonSteps` | Pokemon with history variables that measure walks |
| `GymMap` | walls, statues and tiles with the real coordinates |
| `Gym` | GymWalk in the real gym |
| `VGAController` | `VGA_controller.sv` and the reset register of `lab8.sv` |
| `PixelPipeline` | VGAController with the frame buffer of `framebuffer.sv` and `ram.sv` |
| `USBChip` | the USB chip and the keyboard, external, as the program uses them |
| `USBHost` | `main.c` and `usb.c` against USBChip |
| `HPIBus` | `io_handler.c` and `hpi_io_intf.sv`, signal by signal |
| `CharStream` | abstract specification: a bounded stream of characters |
| `JtagUart` | the console driver, its interrupt routine and its alarm, against the device and a host |
| `FileTable` | the pool of file descriptors, the device lists, the system calls, `alt_main` |
| `Alarms` | abstract specification: countdown timers |
| `Interrupts` | registration, masks, dispatch, the disable and enable pairs |
| `TimeOfDay` | the arithmetic of settimeofday and gettimeofday |
| `Ticks` | Interrupts with the system clock: alarms, their list, alt_tick, the time of day |
| `MCPokemon`, `MCPokemonGym`, `MCJtagUart`, `MCFileTable`, `MCTicks` | values of the CONSTANTS for TLC |
| `PokemonProofs`, `GymProofs`, `PixelPipelineProofs`, `USBHostProofs`, `HPIBusProofs`, `JtagUartProofs`, `FileTableProofs`, `TicksProofs` | theorems |

`GameFSM`, `TileLogic` and `FrameDrawer` define the steps of their component as
actions with the other components' signals as parameters; `Pokemon` conjoins
them on the edges that clock them.  A position is the pair of the two position
registers; a tile is named by its corner, as in the source (`xright, ybottom`).
The register pair that the source calls `xleft, ytop` is the variable `target`:
it holds a corner, and 15 and 20 are subtracted on its way out.  Keycodes are
four walking keys, Enter, Esc and "other", the classes the code distinguishes.

Modelling decisions:

* **Power-up.**  No register has an initial value in the source; configuration
  clears them.  The Reset branches are seldom taken (see `vga_reset` below), so
  `Init` has direction 0 and tilecounter 0, not 1 and 31.  The first rising edge
  comes with the first pixel clock, long before any key; behaviours start after it.
* **Truncated constants.**  `5'd39` is 7.  `SpinLast` is that 7.  The synthesis
  warns of it (`output_files/Pokemon-SVE.map.rpt:192-195`).
* **The latch race.**  `~VGA_VS` is evaluated on the rising edge of VGA_VS.
  `LatchOutcomes` holds what it may evaluate to; `{TRUE, FALSE}` lets every
  edge choose, `{TRUE}` is the build in which the register samples the level
  before the edge.  In a build that always samples FALSE no spin ends.
* **Reset.**  `ResetSampled` lets a rising edge take the Reset branches, which
  needs Reset_h to rise on the same 50 MHz edge as VGA_VS.
* **Bounds.**  `Blocked` is the atBounds signal.  At this commit the checker is
  commented out of `framebuffer.sv` (lines 243-273) and the signal is 0; the
  repository's full build had the checker wired, which is what the runs take
  (`AtBounds`).  The theorems about Pokemon hold for any `Blocked`.
* **Left out.**  `charMoveFrame` and `spin_direction`, which only choose a
  sprite; `PLAY`, a constant; gameFSM's own `charIsRunning`, unused there.
  The states flash_press_enter (entered by no transition) shares the action of
  start_screen; gameFSM never enters its state hold.
* **Atomicity of the program.**  An action of `USBHost` is the code from one
  access of the chip to the next that another party can influence.  A list is
  always written to 0x0500, over the one before, and its address is stored by
  the last word; the first sending is followed by a look at the flag at once,
  each further one by 10 ms of sleep.  The three steps of `UsbWaitTDListDone`
  and of `UsbGetRetryCnt` are apart, because the chip writes the same register.
* **The chip.**  It is not in the repository.  `USBChip` assumes what the
  program relies on: a list whose address is stored is run once and answered
  with HUSB_TDListDone, done or failed; a device's coming and going is a
  message in the same register; COMM_RESET stops what is running; a keyboard
  has something to report only when its key has changed.  What the chip makes
  of the words at 0x0576 is left open.  `Prompt` says that sleeps are long
  enough, `Slow` that no list is done between two stores of the program,
  `Quiet` that the keyboard is pulled out between polls and put back once its
  absence was noticed.  Each is a constant, so that each run says what it needs.
* **Left out of USB.**  The data toggle of a poll (the chip delivers the report
  either way, and the toggle repeats nothing), packet lengths, the contents of
  descriptors, the printed messages and `UsbPrintMem`, which nothing calls.
* **The HPI bus.**  A store of the program changes a port at once, the registers
  of `hpi_io_intf` at the next clock.  An undriven bus keeps what it carried:
  the driver lets go one clock before the strobe ends.  `MinGap` is 2 clocks; a
  Nios II/e takes at least six for an instruction.  Where design and chip drive
  the bus together, the design is taken to win; NoContention says that this does
  not happen after IO_init.  It does before: the ports power up as zeros, which
  select, read and write at once, and IO_init's first stores raise them.
* **Pixels.**  A pixel is its row, its column and a tag for the position and
  direction it was drawn with; a fade's are black (see "Findings").  The
  memories are wired as in the full build: their instances, like the bounds
  checker, are in the comment of `framebuffer.sv:243-273`.  A write outside the
  memory is lost.  The sprites' memories and the decoding of colours are one
  register that holds the pixel asked for one edge before.
* **The console.**  An action of `JtagUart` is what lies between two accesses of
  something the interrupt routine or the device may change.  The device is its
  two FIFOs, with the clock between RVALID and RAVAIL (`CharStream` is the
  promise for each direction); a host takes, types, leaves and comes back.
  Characters have positions, not values.  Both builds of the driver are in the
  run: with a system clock, and without one as in this BSP (`system.h` has no
  system clock timer), where alt_alarm_start fails and the limit is INT_MAX.
* **File descriptors.**  There are no threads, so a system call is one action; a
  driver's open, close and the rest succeed or fail as they like.  A path is the
  sequence of its components.  Descriptors that are not open and not negative
  are not passed: no call checks for them.
* **Interrupts and the clock.**  The program's calls are cut where interrupts
  may come: before the disable, between disable and enable, at the enable.  A
  callback may start and stop alarms and ask for any next interval that the
  program may ask for (`Intervals`, without 0xFFFFFFFF, see "Findings").  The
  count of ticks is taken modulo a constant, `TickRange`.  Starting an alarm
  that is on the list is against the documented use and left out.  Stopping, in
  a callback, the alarm that the walk goes to next makes alt_tick go round a
  list it is not on: `Astray` marks that, and it is a finding.

## 3. Runs

| run | question | result |
|---|---|---|
| `pokemon` | in a build that leaves latch, with inputs at any moment and sampled resets: does Pokemon implement GymWalk; the invariants of its proof; arrival on the partner; is a key's walk as long as its frames say; does every spin end | hold |
| `gym` | InWalls, WalksStayInside, FinishByTile over all pixels of the real gym | hold |
| `vga` | is the window drawn from this frame only; edges outside the drawing lines; frames keep coming | hold |
| `vga_reset` | does the button reset the game | violated |
| `usb_order` | are the requests made in order, and does the port show only reported keys, with a prompt chip, failures, and removals at any moment | hold |
| `usb_live` | does a key held reach the port, after failures and removals between polls | holds |
| `usb_removal` | is a removal at any moment noticed | violated: the message waited for was erased |
| `hpi_bus` | do IO_write and IO_read do what they say; is the bus driven once | holds |
| `jtag_uart` | are both rings streams; is no interrupt left off with work to do; do calls return | hold |
| `files` | does nothing leak; has a device one holder; does a lock keep out new descriptors; does the mark bound what is open | hold |
| `files_lock` | is whoever is granted a lock alone on the device | violated: the descriptor at the mark is overlooked |
| `ticks` | do handlers run alone and with their context; does the list stay a ring; do alarms implement countdown timers, over the roll-over; does the clock follow the ticks | hold |

Two more configurations are kept for their counterexamples: `StepsBlocks.cfg`
(MCPokemon) violates `WalksInBlocks`, the comment of `gameFSM.sv:116` taken by
itself, with a walk one pixel short, and `GymLeftWall.cfg` (MCPokemonGym) walks
out of the first column of rooms.

What the less obvious properties say:

* **FadeAtStart**: frameDrawer resets the position on the other edge than the
  one on which gameFSM leaves the start screen.  A game quit anywhere, and
  restarted with a key already held, still begins at home.
* **SpinOnPad**: the partner is looked up with the position at the end of the
  first spin.  Whatever happens meanwhile, quitting and restarting included, the
  position is a tile; that home is a tile (A1) is part of why.
* **WalkSpec** (refinement): in particular no target latched before a restart
  moves the restarted character.  It needs the fade to outlast the second spin,
  and fails in a build where latch lingers.
* **KeyWalkLength**: measured by history variables from rest to rest, for
  walks that nothing held, blocked or interrupted, with keys, run button and
  Reset at any moment.  A walk moves in the 31 frames that tilecounter counts,
  and in one more if its key was there at the falling edge before; every second
  frame is a pixel, and each while the player runs.  So a walk is one block of
  16 if both edges saw its key, 15 or 16 pixels if the key came between them,
  as `everyotherframe` happens to stand, and with running 32 at most.
* **InWalls, WalksStayInside, FinishByTile**: equality-test walls do enclose
  the rooms, for a character that moves one pixel at a time and arrives only on
  tiles; the first column is enclosed together with the strip of coordinates
  480 to 1023 that its missing left wall opens (`WalledColumn`).  The
  centre room is entered over M1 and nowhere else, which is the game's puzzle.
* **EnumeratedInOrder**: the keyboard took every request before the current
  one.  Lists are sent twice, HUSB_TDListDone does not say of which list, and
  the control byte is overwritten by each; the property holds because sleeping
  after each further sending outlasts the list (`Prompt`).  With a chip that is
  arbitrarily late it fails, which no comment of the source excludes or claims.
* **PortShowsReports**: the word at 0x051e is read after failed polls too.  It
  then holds an earlier report or a word of a list; that the enumeration lists
  happen to write the word is why a key of the keyboard before never returns.
* **KeyReachesGame**: the only promise of the software as a whole.
* **WritesArrive, ReadsReturn**: the bus reads the charge of a released bus and
  a port behind two registers.
* **ShowsThisFrame**: row r is written at the end of line 80 + r and read on the
  lines 80 + 2r and 81 + 2r, so that the reading beam is never ahead after its
  first line, and no frame shows two positions, whatever the button does.  It
  says column for column what is shown, which is one to the right of what the
  addresses say; the first column and part of column 160 are excepted, see
  "Findings".
* **TxArmed, RxArmed**: an interrupt is off only while somebody is about to turn
  it on, or there is nothing for it to do.  The routine and the program both
  change the mask; that the routine looks at the ring again before it turns the
  transmit interrupt off, and that write turns it on after each chunk, are why.
* **TxStream, RxStream** (refinements): each ring with its FIFO is a bounded
  stream, although room is computed from an index that moves meanwhile.  RxStream
  also says that the characters arrive in the order they were typed.
* **WriteReturns, ReadReturns**: a blocking write, or a close, ends if the host
  stays, or if there is a clock that finds out that it does not; a read that
  waits returns once the host types.
* **PoolInv, OneHolder, LocksExclude, LockNeedsSole**: two loops stop at the
  mark, one of them one short.  What open looks at is enough: a locked device
  gets no new descriptor.  What alt_fd_lock looks at is not: LockNeedsSole, the
  comment's condition for a lock, is violated, and yet no device ever has two
  holders.
* **OnTime, TimeComes**: `Ticks` implements `Alarms`, in which an alarm counts
  down: going off in the tick it was set for, not one later and not at once
  when its time lies beyond the roll-over; and every alarm's time comes.
* **WallClock**: what settimeofday() was given is what is read in the same tick,
  and each tick moves the clock on by its length, carries included.

### Bounds

`MCPokemon` is a gym of four rooms on an 8 by 8 torus with two pairs of tiles
and walls of the same kind as the real ones, one missing.  The counters are
scaled so that their order is kept: a walk of 4 frames, a fade of 4, a second
spin of 2, a first spin of 2 from power-up and of 4 later with a wrap-around,
and a whole later spin longer than the fade, so that a game may begin held on
the start tile, as in the hardware (74 frames against 51).  Every action
happens, and quitting, restarting, running and turning happen in every phase of
a spin.  A walk is 1 to 4 pixels, half of the torus at most, so that its lengths
differ; the history variables of `PokemonSteps` only watch, and take nothing
from the other properties.  The animation counter counts to 1: no output
modelled reads it.  `MCPokemonGym` uses the real numbers throughout, with five
keys, which change only while VGA_VS is high (`KeysAnyTime`), and the run button
untouched: its run looks for a behaviour of the hardware, and the bounds only
limit the search.
`Gym` has no bounds.

`VGA.cfg` scales the screen to 10 by 14 pixels and the picture to 3 by 5, with
the arithmetic between the two kept (`PictureAssumption`): five rows are needed
for a stray write that is seen.  Two presses of the button, at any moments, may
interrupt a picture and the one after it.  The USB runs use the program's own
six and eight reads of the device register and two keys.  Two failures and three
or four removals and returns reach every restart from every request, and a
restart within a restart.  `hpi_bus` has two addresses and two words, enough to
tell the arguments of one call from those of the next.

`jtag_uart` has rings of three, so that room and used part wrap and lie in one
or two pieces, and FIFOs of two with a threshold between; counts of up to three
characters overfill a ring, and `IntMax` is 4, so that the seconds without a
host reach it.  Each of the six setups fixes a build and the calls of the
program; between them every pair of calls that share state is in one.  `files`
has six descriptors, three of them standard, /dev/null, the console and a file
system: three free descriptors are needed to close the middle one and to leave
the mark above what is open.  `ticks` has a count that rolls over at 4, two
alarms with intervals up to 2 and periods up to 3, two interrupts, the timer the
lower, and a second of six microseconds and two ticks; every action happens in
every position of the count.

No run disables the deadlock check.

### Fairness

`Pokemon!FairSpec` is weakly fair to the two edges of VGA_VS: the VGA counters
run on an oscillator.  `VGAController!FramesKeepComing` checks that this is what
the controller provides once the button is left alone, from fairness of the
50 MHz edges alone.  Nothing is assumed of keys and buttons.  `USBHost!Spec` is
weakly fair to the program, which runs for ever, and to the chip, which answers
every command and list; it is not fair to the player, and nothing is assumed of
failures but that there are finitely many.

`JtagUart!Spec` is weakly fair to the program inside a call, to the interrupt
routine and to the clock, if the build has one: the processor runs, and an
interrupt that is pending and on is taken.  It is strongly fair to a connected
host's taking characters and to its poll, because the routine's accesses to the
device alternate with the host's.  Nothing is assumed of the host's staying.
`Ticks!FairSpec` is weakly fair to what runs with interrupts off, to the dispatch,
and to the timer, an oscillator.  The dispatch serves the lowest number first;
in this instance the timer has it, and with a higher number TimeComes would need
the other interrupt to pause.

### Findings

Three runs show a disagreement between the code and what the repository says of
it; `PROJECT.json` quotes both sides.  In short: the reset button does not reset
the game; a removal of the keyboard during a poll hangs the program; a lock is
granted although the descriptor at the mark references the device too
(`alt_fd_lock.c:61` against 43-44).  The two configurations kept beside the runs
show two more: a walk can be 15 pixels when a key arrives between the edges; the
first column of rooms has no left wall.

Read off the code on the way, and not given a run:

* At this commit the bounds checker is commented out of `framebuffer.sv:243-273`,
  so that no wall stops the character.
* From power-up tilecounter is 0, and the first game begins with a walk of 15
  pixels that no key began.  The character is then off the 16 pixel grid, and so
  it is after an upper wall; the four comparisons of a statue are written for
  the grid (`gymBoundsChecker.sv:29`).
* `UsbGetRetryCnt` may take the answer to a list that was sent twice for an older
  list's and wait for one more (`usb.c:565-570`).  This needs a list that is done
  between two stores of the program; `usb_live` assumes `Slow` for this reason.
* The picture is one column to the right of where it belongs, because an address
  and the pixel it asks for are a clock apart (`framebuffer.sv:63,78,121`); the
  first column shows what the sprites' memory says of no address in the picture.
* After the last pixel of a line the write enable is still on: rows 0 to 157 of
  column 160 get the last pixel of the row two below (`framebuffer.sv:61-66,78`,
  whose comment says writing is between 560 and 799).  The two rows that are
  shown before it happens to them are right.
* A fade is a cut: the colours are lowered by one while the beam's own is 5 or
  more, but pixels are written where the beam is black (`framebuffer.sv:91-95`,
  114-117).
* In this build `printf` in the endless loop of `main.c:553` waits for ever when
  no host is connected and the ring is full: there is no system clock,
  alt_alarm_start fails, and the driver takes its limit to be INT_MAX.
* With a clock, a write gives up after one second in which the ring stays full
  (`altera_avalon_jtag_uart_write.c:187`), and writing nothing returns -EIO.
* RAVAIL is read a clock after RVALID (`altera_avalon_jtag_uart_init.c:146-156`);
  a character that arrives between the two is only read by the next interrupt.
* Closing a standard descriptor does nothing to the pool
  (`alt_release_fd.c:46`); it can be closed again and again.  Before the
  redirection the standard descriptors are open for reading, so that a write to
  them is refused, not ineffectual (`alt_dev.c:81-86`).
* An alarm that is to go off after 0xFFFFFFFF ticks goes off at once: one more
  is the present tick (`alt_alarm_start.c:89`).  A callback that stops the alarm
  after its own makes alt_tick loop (`alt_tick.c:102`).  settimeofday() is 2^32
  microseconds, 71 minutes, away from what it was given when the count has come
  that far (`alt_settod.c:84`).  Rates that do not divide a million make the
  clock step back when a second ends; `Units` excludes them.
* alt_irq_handler with no interrupt pending would not end; its caller checks.
* IO_init's reset of the chip is not connected: `hpi_io_intf.sv:36` drives
  OTG_RST_N with 1 and `from_sw_reset` is unused.

## 4. Proofs

All theorems hold for every value of the CONSTANTS that meets the named
assumptions: `GridAssumption`, `StartOnPad`, `GameAssumption`, `TileAssumption`,
`PokemonAssumption` (types, the order of a few counters, that home is a tile),
`TimingAssumption` of VGAController and `PictureAssumption` (the order of the beam's
places, that picture, window and line fit together), `BusAssumption` (two clocks from one
access of the program to the next, less than any instruction takes),
`TimingAssumption` and `ReadsAssumption` of USBHost (types), `KeysAssumption` (0 and
0x20, the words that a list leaves where the keycode is read, are no keys of the game),
`JtagAssumption` (sizes), `FileAssumption` (that no node is in both lists),
`InterruptAssumption` and the others of `Ticks` (types, a rate that divides a second).
TLC evaluates each of them on the instances it
checks, the real gym among them.

* `PokemonProofs`: **TypeCorrect**; then the inductive invariant `SpinInv`,
  which gives **FadeShowsStart** and **PartnerAlwaysFound**.  FadeAtStart and
  SpinOnPad are not inductive by themselves.  SpinInv adds `HomeAtStart` (with
  VGA_VS low, a start screen has already put the character home) and
  `HeldWhereItIs` (with VGA_VS high, the target of a first spin is where the
  character stands, so that holding it there does not move it).  The proof goes
  edge by edge and, within an edge, state by state.
* The refinement in `PokemonProofs`: **StaleTargetsAreHarmless** and
  **PokemonImplementsGymWalk**, under `LatchOutcomes = {TRUE}` and `SpinLast <=
  FadeLast` (7 and 50 in the design).  `WalkInv` adds `TargetKnown`: in a second
  spin the target is the character's tile, or that tile's partner, or stale; and
  if stale, no game is running, and the fade counter is behind the spin counter,
  so that the spin is over before a game begins.  Each step then maps to a step
  of GymWalk or to a stutter.  **SpinsEndOnPads** (`ArrivedOnPad`) needs neither
  assumption: a second spin's target is a tile from the look-up on, and in a
  running game each falling edge puts the character there.
* Walks in `PokemonProofs`: **WalksAreMeasured** (`KeyWalkLength`) for every
  length of a walk shorter than the torus, with nothing assumed of keys, run
  button and Reset.  The invariant `LengthInv` counts frames: after f of them the
  character is m pixels from where it was at rest, where 2m is f, or one more or
  less as `everyotherframe` says, or m is anything up to f once the player has
  run.  With VGA_VS low the falling edge is one frame ahead of tilecounter, and
  the rising edge lets the counter catch up; a walk whose key was seen before its
  first rising edge is one more frame ahead all along (`Ahead`).  That a walk is one block, always, is not a
  theorem: it needs a key that both edges see, see `StepsBlocks.cfg`.
* Spins in `PokemonProofs`: **SpinsAreBounded**, under `LatchOutcomes = {TRUE}`.
  `SpinLeft` counts the rising edges a spin has left: the run of spinCounter
  to SpinLast, through the wrap-around if it begins past it (`EdgesToSpinLast`),
  then the look-up, the second spin and the latch.  It is at most `SpinRange +
  SpinLast + 3`, 74 in the design, and 0 exactly when nothing is held; each rising
  edge takes one off and only a Reset cuts it short.  `SecondSpinCounts`, that the
  second spin begins at 0, is what makes the bound hold.  This is all of `SpinEnds`
  but that the edges keep coming.
* `GymProofs`: **AlwaysInWalls**, **WalkingStaysInside** and
  **CentreRoomByTileOnly** for the real gym, from two lemmas (an unblocked pixel
  keeps the column and the row) and the tile table.
* The composition, at the end of `PokemonProofs`: with the walls, tiles and sizes
  of the design (`InTheGym`) the refinement carries two of them over to the game,
  **GameStaysInWalls** and **GoalByTileOnly**: no interleaving of keys, edges,
  spins and restarts leads anywhere else.  `GymLeftWall.cfg` has these constants.
* `USBHostProofs`: **TypesHold** and **PortTheorem** (`PortShowsReports`) for any
  chip, **OrderTheorem** and **NothingOutstandingTheorem** for one that is through
  with a list before the program wakes from its 10 ms of sleep (`Prompt`, which
  only Sleep's step uses).  `KnownWord` says that the word at 0x051e is a key only
  if it was reported; it is exempt between UsbSoftReset and the first list, whose
  words clear it.  `ListInv` says whose list may be in the chip's hands: that of
  the request being made (`ListsAreRequests`), at most one of them, and none once
  the control byte was accepted (`NoneLeftOver`, request by request from the first
  sending to the check).  The poll is excepted: it goes on whatever the control
  byte says, and a list of one poll may well be run in the next.
* `PixelPipelineProofs`: **PictureTypeCorrect**, **ThisFrameOnly** and
  **EdgesStayOutside**, for screens and pictures of every size.  The invariant
  follows a pixel through the registers: the write enable says where the beam was
  an edge ago (`EnableOK`), the data register holds the pixel left of the beam
  (`DataOK`), and each place the beam has passed holds its pixel (`MemOK`) unless
  the write that comes too late has gone there (`Strayed`).  That late write is
  the hard case: in the first two lines its address is negative and, in the width
  of the address, outside the memory; then it is three rows up, at one column.
  **FramesAreRegular** counts the beam through a frame (`BeamAt`): each pixel clock
  takes it one on, modulo H_TOTAL * V_TOTAL, and VGA_VS is low on a fixed range of
  the count.  So no state of the counters, and no press of the button, puts off
  an edge of VGA_VS for longer than a frame, which is `FramesKeepComing` but for
  the clock.
* `HPIBusProofs`: **BusTypeCorrect**, **WritesAlwaysArrive**,
  **ReadsAlwaysReturn** and **NeverContention**, at every pace.  The invariant
  says what the ports hold after each access of a call, that the pins follow a
  clock later unless the button is seen, and, for the contention, that both
  strobes are high wherever the program has raised them, reset or not.
* `FileTableProofs`: **PoolCorrect**, **NothingLeaks**, **OneHolderOnly** and
  **LocksKeepOut**.  OneHolder is not inductive: `LockAt` adds that whoever
  shares a locked device is the descriptor that was the mark when the lock was
  granted, so that the loop which stops one short can never be fooled twice.
  That the lowest free descriptor exists comes from the well-foundedness of `<`.
* `JtagUartProofs`: **ConsoleTypeCorrect** (no index leaves a ring, no FIFO is
  written when full), **TransmitAlwaysArmed**, **ReceiveAlwaysArmed**,
  **WritesWithoutClockAreWhole**, and the refinements **WritesComeOutInOrder**
  and **ReadsComeInInOrder**, for rings and FIFOs of every size.  The invariant
  adds to the types what a call and the routine remember from an earlier read:
  the room or the used part they have seen is still there, since only the other
  side's index has moved, and it moves away.  For the streams `TxInv` adds that
  the places write fills are free and, once filled, hold the next characters,
  and `RxInv` that those read has copied are the first of the ring.  A ring is
  turned into a sequence by lemmas on what putting into free places, moving the
  inner end and moving the outer end do to it (`RingOther`, `RingPut`,
  `RingTake`); a character that goes from ring to FIFO or back changes nothing
  of the two taken together (`PassOver`).
* `TicksProofs`: **TicksTypeCorrect**, **HandlersRunAlone**,
  **HandlersAreRight**, **ListIsRing**, **AlarmsOnTime** and
  **WallClockFollowsTicks**.  The
  invariant relates the master switch to who has turned it off: it is off inside
  a handler, and the value a disable has returned is what the matching enable
  gives back.  Insertion and removal keep the list a ring, in which an alarm that
  is not started is a ring by itself.  That `Ticks` implements `Alarms` rests on
  `CountInv`: the alarms in the list can be numbered so that the numbers rise
  along the pointers (`Sorted`, which stands for the induction over the list),
  and each alarm that is at its time, or whose flag has to be cleared, has a
  number no smaller than the cursor's (`Ahead`).  So none is left when the walk
  comes back to the head, and the next tick takes one from each.  A walk led
  astray has everything ahead of it, and only a callback that starts its own
  alarm again brings it back, at the head.  The clock's theorem is arithmetic: the
  sum of seconds and microseconds is linear in the ticks if the rate divides a
  second.

Only model-checked: `SpinEnds`, `FramesKeepComing`, `KeyReachesGame`,
`WriteReturns`, `ReadReturns` and `TimeComes`, which are liveness under fairness
and beyond the prover.  For the first two the theorems above prove the measure, so
that only the fairness of the clocks is left to TLC.  Every safety property, action property and refinement
that a run checks has a theorem.

## 5. Plan

Done, in this order: the game with its refinement and confinement theorems; VGA
timing and reset; the HPI bus; the USB host software against an external chip;
the console driver; the file descriptors; interrupts, alarms and clock; the
pixel pipeline.  Left, most important first:

1. The keycode path: the polled key against the frame clock of Pokemon, with the
   port as the abstract specification of USBHost.
2. The chip's reset by KEY[0] under a program that goes on.
3. Proofs: what the liveness properties of USB host, console and alarms decrease,
   as SpinsAreBounded and FramesAreRegular do for game and screen.

### Not modelled, and why

* **Audio** (`state_audio.sv`, `audio_interface.vhd`): commented out of
  `lab8.sv`.
* **Hexadecimal displays**: a truth table.  **Leftovers of the lab** and **test
  benches**: instantiated nowhere, or stimulus.
* **Register and system definitions**: `cy7c67200.h` (3300 lines), `system.h`,
  `nios2.h`, `io.h`, `alt_dma.h`, `alt_flash.h` and others define addresses,
  masks, types and macros.  There is nothing in them that happens; the models
  use the few that matter by name.
* **Logging and profiling** (`alt_log_printf.c`, `alt_gmon.c`, `alt_mcount.S`):
  off in this build.  **Start-up, heap and caches** (`crt0.S`, `alt_load.c`,
  `alt_sbrk.c`, cache flushes): straight-line code.  The instruction emulation
  and exception entry in assembler are the processor's business.
* **Stubs** (`alt_kill.c`, `alt_rename.c`, `alt_link.c`, ...): they return an
  error.

A fifth of the C is modelled for this reason; of the hardware description, which
is the game, everything but sprites and audio.
