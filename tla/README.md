# Verification of the Vector-06C emulator for the PSP

This directory holds TLA+ models of the PSP port of the Vector-06C emulator
(`src/psp/`), the TLC configurations that check them, and TLAPS proofs about
them. The desktop emulator in `src/src/` and its other front ends share
ancestors with the port but are not the subject here. All source paths below
are relative to `src/psp/` and line numbers refer to the sources beside this
project.

What can go wrong in a program like this is seldom in one function. Three
threads share a framebuffer pool, a sound ring, a few flags and the window
objects; a user with ten buttons drives a dozen windows over a machine that is
frozen and thawed on the way; and saves go to a memory stick that can be pulled
out. Under them runs a machine whose timing is a web of carries: T-states carried
over the end of a frame, interrupt requests over the end of an instruction,
fractions of a clock over the end of a sample. That is what the models are about.
The AY chip, the mixing of samples and the painting of pixels are functions of
their inputs, tested by looking and listening, and are left out.

## 1. Inventory

### Threads

| thread | code | period |
|---|---|---|
| worker (emulation) | `Emulator::worker_loop`, `src/emulator.cpp` 98-238 | one machine frame, 20 ms, paced by `sceKernelDelayThread` |
| display (main) | the main loop, `src/main.cpp` 1272-1400, which calls `TV::render` | the vblank of the panel |
| audio | `Soundnik::callback`, `src/sound.cpp` 114-352 | 1024 frames of the hardware, 23 ms |

The user interface runs on the worker: `handle_input` is called once per turn of
`worker_loop`, before the machine frame, and keeps being called while the
machine is paused.

### Components

| component | state | operations | talks to |
|---|---|---|---|
| Framebuffer handoff (`src/tv.cpp`, `tv.h`) | state of each of 3 buffers, slots `ready_idx`, `old_ready_idx`, `displaying_idx`, `pending`, flags `render_suspended`, `render_paused` | `acquire_write_buffer`, `publish_frame` (worker); `acquire_ready_frame`, `render` (display); `suspend_render`, `resume_render` (worker) | atomics between worker and display; the GE reads the buffer by DMA |
| Emulation worker (`src/emulator.cpp`) | `paused`, four keydown and four keyup slots, deadline, `worker_running` | `worker_loop`, `execute_frame`, `pause`/`resume`, `keydown`/`keyup`, `load_rom`, `save_state`/`restore_state`, thread start and stop | calls the UI poll, the Board, the TV and the sound |
| Pad input and windows (`src/main.cpp` 174-850) | `oldButtons`, `old_mapped`, each window's `is_open` | `handle_input` in every window | the worker's slots, the VKBD, KeyMap, save states, Game Center |
| Virtual keyboard (`gui/vkbd.cpp`) | visible, finger, keys down, latched modifiers | `show`, `hide`, `update`, `release_all` | the worker's slots; in Map Keys it feeds the key picker |
| Menu, browser, config, states, map keys, about, message (`gui/*.cpp`) | open flag, selection, last pad | `open`, `update`, `close` | `handle_input` |
| Game Center (`gui/gamecenter.cpp`) | catalog, preview, message dialog, downloaded ROM | `open` (with the system's network dialog), `update`, `close` | NetMan; brackets the dialog with `suspend_render`/`resume_render` |
| Key mapping (`src/keymap.cpp`) | table of the effective key of each button, `.key` file per ROM | `assign`, `disable`, `load_file`, `save_or_cleanup` | Map Keys, `apply_rom_mapping` |
| Key matrix (`src/keyboard.h`) | pressed keys | `apply_key` | drained from the slots |
| Save states (`src/statefile.cpp`, `src/util.cpp`, `main.cpp` 239-317) | `stateN.bin`, `stateN.png`, temporary file, backups | `StateFile::save`, `load`, `read_header`; `state_save_action`, `state_load_action` | Board's chunks (`serialize.h`), memory stick |
| Sound ring (`src/sound.cpp` 20-383) | writer position, reader position, PI controller, target | `sample` (worker), `callback` (audio), `set_buffer_ms`, `pause` | worker and audio thread |
| Sound events (`src/sound_events.h`, `sound.cpp` 385-417 and 673-903) | clock-stamped event queue, sample clock, mirrors of the chips | `push_event`, `advance_clock`, `process_frame`, `reset` | the Board's port writes; fills the sound ring |
| 8253 timer and its mirror (`8253.h`, `sound.cpp` 419-613) | three counters, three channels | `write`, `read`, `Count`; `apply_timer_write`, `integrate_timer` | port writes; the sound events |
| AY (`ay.h`) | chip registers | `write`, `step_int` | the sound events |
| Board and filler (`board.cpp`, `filler.cpp`) | the frame loop, `instr_time`, `between`, `inte`, `irq`, `irq_carry`, the raster counters | `execute_frame`, `single_step`, `check_interrupt`, `reset`, `serialize`/`deserialize`, `fill` | CPU, sound clock; loads and saves between two frames |
| CPU and memory (`i8080.cpp`, `memory.h`, `hal.cpp`) | registers, flags, `iff`, `ei_pending`; 320 KB in five pages, boot ROM | `i8080_execute`; `read`, `write`, `control_write` | the Board; ports |
| I/O ports (`vio.h`) | port registers, palette | `input`, `output`, `commit`, `reset` | filler, timer, keyboard |
| Floppy (`src/fd1793.h`, `fsimage.cpp`) | controller registers, images | commands, DRQ | no disk is ever attached by this program |
| Configuration (`src/config.cpp`, `options.cpp`) | `Options`, `config.ini` | `config_load`, `config_set_value` | Config window |
| NetMan (`src/netman.cpp`) | `infra_ready`, `connected` | `init`, `connect`, `http_download`, `disconnect`, `shutdown` | Game Center, on the worker |
| Debugger, recorder, fonts, images, vendored files | | | |

`PROJECT.json` lists them all with what is modelled of each.

### What is hard here, and what makes each part correct

* **Handoff.** Lock-free exchange of buffer indices between two threads and a
  DMA engine. Correct: one owner per buffer; the GE never reads what the worker
  draws; frames reach the screen whole, newest first, never backwards; no buffer
  gets lost; a system dialog has the GE for itself; everybody makes progress.
* **Input.** A press crosses the pad, one of a dozen UI states, a slot array
  that drops, and a machine that may be frozen. Correct: no key sticks, no edge
  is lost, virtual keys reach the matrix exactly, one window at a time, and a
  window is open exactly when the machine is frozen.
* **Save states.** Several file operations, each of which can fail, with power
  loss between any two. Correct: an acknowledged save is in the slot, a failed
  one leaves the old state, a power loss never takes the last good copy, a load
  restores a whole state or nothing.
* **Sound ring.** Two clocks and a controller; the fill is steered, not bounded.
  Correct: the derived block indices follow the counters; the callback never
  reads what the writer has overwritten; a worker in time is heard without gaps.
* **Machine.** Any program, in any phase to the beam. Correct: CPU and beam agree
  on the time over the end of every line and frame; one interrupt and one scroll
  load a frame; a request is neither lost nor doubled nor late; an interrupt
  returns to where it came.
* **CPU and memory.** 256 opcodes with flags from tables, and a stack that may lie
  on another page than the data. Correct: flags are those of the arithmetic, and
  what goes onto the stack comes back.
* **Timer and sound events.** The program writes now, the sound is made at the end
  of the frame. Correct: the mirror follows the program, each write is heard within
  a sample, the samples do not drift, and the closed form plays the counter's tone.
* **Configuration.** One file, written over in place. Correct: it always reads back
  as the settings in use.
* **Windows on the screen.** The worker changes a window while the display thread
  paints it and the GE reads its textures by DMA. Correct: no change is lost between
  two paintings, the user's last step is shown in the end, the GE reads pictures that
  are in main memory and still allocated.
* **Network session.** Six layers that come up one by one, a dialog the user may
  cancel, downloads that break. Correct: the session lasts as long as the window, what
  came up goes down, and only whole downloads are used.

The "hazards" of `PROJECT.json` list these one by one at the line where they
bite, with the properties that would catch them, and the ones no property covers.

## 2. Modules

| module | role | about |
|---|---|---|
| `FrameMailbox` | abstract | a mailbox with the newest unshown frame |
| `FrameHandoff` | detailed | `tv.cpp`'s pool, one action per atomic operation, worker and display, with the suspend handshake |
| `FrameHandoffProofs` | proofs | inductive invariant, refinement of the mailbox, what a dialog may cost |
| `PadInput`, `MCPadInput` | detailed | one poll of `handle_input` in every UI state, VKBD, slots, drain, matrix |
| `PadInputProofs` | proofs | one window at a time, open exactly when the machine is frozen; types of slots, latches and key map; which keys are down in the machine |
| `SaveSlot` | abstract | a slot that is empty or holds one whole state |
| `StateFile` | detailed | every file operation of save and load, faults and power losses |
| `StateFileProofs` | proofs | what is on the stick after any faults and power losses; refinement of the slot |
| `SoundRing`, `MCSoundRing` | detailed | writer, callback and pacing in the code's integers |
| `SoundRingProofs` | proofs | positions, controller and step for every size of the ring |
| `InstructionTimes` | data | the lengths of instructions, shared by `Machine` and `Cpu` |
| `Machine` | detailed | the frame loop, the beam's counters and the interrupt latch |
| `MachineProofs` | proofs | the interrupt latch, the CPU's side of it and the beam, for every geometry of the frame; then all of `Cpu`'s properties, for every state of registers and memory |
| `NumberLemmas` | lemmas | quotient and remainder by a variable, induction and recursion over naturals, shared by the proofs |
| `Cpu` | detailed | all opcodes over paged memory |
| `Timer` | detailed, with its reference | one counter clock by clock, and its mirror |
| `SoundEvents` | detailed | event queue, replay and sample clock |
| `SoundEventsProofs` | proofs | no write lost, late or out of order, for all rates and queues that fit each other; the mirror of a counter never drifts from it |
| `ConfigFile` | detailed | `config.ini` under in-place updates |
| `Popup` | detailed | the ROM Browser between worker, display thread and GE |
| `NetSession` | detailed | NetMan under the Game Center, with failures anywhere |
| `WindowProofs` | proofs | what the Config window sets lasts, for any keys, values and files that fit; a panel that counts as painted is current, in every interleaving; the session ends with its window |
| `MCParts` | instance | `Cpu`, `Timer`, `SoundEvents`, `ConfigFile`, `NetSession` and `Popup` for one run |

Definitions that end the name of another with what is wrong with it
(`PublishOldNoDrop`, `OpenMenuUnreleased`, `RequestAfterDI`, ...) are slips:
plausible wrong forms of the code, used to show that each property can fail.

### FrameHandoff and FrameMailbox

`buf_state`, `ready_idx`, `old_ready_idx`, `displaying_idx`, `pending`,
`render_suspended` and `render_paused` are the members of `TV` with their names.
`wpc` and `dpc` are the places in `worker_loop`/`acquire_write_buffer`/
`publish_frame`/`suspend_render` and in `render`/`acquire_ready_frame`; `wbuf`,
`wold`, `didx`, `dolder` are the locals that hold an index. One action is one
atomic load, store, exchange or compare-and-swap, or the GE call it stands for:

| code | actions |
|---|---|
| `acquire_write_buffer` 344-367 | `ScanHit`, `ScanMiss`, `TakeOld`, `TakeReady`, `MarkWriting` |
| drawing in `execute_frame` | `BeginDraw`, `EndDraw` (START may pause here) |
| `publish_frame` 369-392 | `PublishState`, `PublishReady`, `PublishOld`, `PublishFree` |
| `GameCenter::open` around the dialog | `OpenDialog`, `SuspendRender`, `WaitAck`, `DialogDone`, `ResumeClearPaused`, `ResumeClearSuspended` |
| `render` 531-737 | `CheckSuspended` ... `FinishList` |

A picture is the number of the machine frame in it; `Torn` is one being drawn.
`ge_reads` is the buffer the GE may be sampling, from `sceGuStart` until the
next `sceGuSync`. Memory is taken to be sequentially consistent: the PSP has one
core, so a thread switch orders everything.

`FrameMailbox` keeps only which frame was published last, which one waits and
which one was shown last. `MailboxSpec` is the claim that the handoff, seen
through `Latest` and `Shown`, behaves like it.

### PadInput

One action is one call of `handle_input` in one UI state, or the drain of the
slots, or the machine frame. `Focus` is the dispatch order of `handle_input`.
`open` is the set of windows whose `is_open()` holds, so two windows at once are
representable. The slots are sequences because they fill from the front and are
emptied all at once. Which list entry is selected, what a file contains and
whether a download succeeds are nondeterministic. `MaxChanges` is an assumption
about the user: how many buttons change between two polls of 20 ms.

### StateFile and SaveSlot

`files` maps the names of the slot's directory to their content, a sequence of
units that remember which state they are part of: a header, the MEMORY chunk
(longer when a boot ROM is attached) and the rest of the chunks. `pc` walks
through `state_save_action`, `StateFile::save`, `save_binfile` and
`careful_rename`. Every operation may fail (`Fault`, at most `MaxFaults`), a
write may stop anywhere, and the power may go between any two operations or
inside a write (`Crash`). `rename()` over an existing file may replace it or be
refused, because the code is written for both.

The picture comes last. `SaveShot` is `img_save` up to the end of `stbi_write_png`,
which notices that the file cannot be opened but not that `fwrite` wrote less than it
was given (`stb_image_write.h` 1215-1228); `DropShot` is the removal of the old picture
after the first, which may fail as well. `overdue` remembers that it did.

`SaveSlot` has one number for the slot and one for the machine; `SlotSpec` says
that only a save changes the slot, to the state of the frozen machine or to
nothing, and that a load brings back one whole state.

### SoundRing

The counters and the controller are those of `sound.cpp`, full size, with its
shifts rounding towards minus infinity and its clamps. A call of the callback is
one action: the loop over 1024 output frames is replaced by a closed form, and
`MCSoundRing` checks the closed form against the loop (`ClosedForm`). Time is
counted in hardware frames of 1/44100 s, 882 of which are one machine frame, so
that `Worker` and `Callback` come in the order their times dictate. `Pace` is
the end of `worker_loop`, `Park` its paused branch: while a window is open nothing is
written, and the callback, which nobody tells, goes on integrating. A machine frame is a
block of samples long, or a few more with the fast filler, whose frames are longer
(`frame_samples`, `filler.cpp:148`). `stopped` remembers how long the worker was held up
or parked.

### Machine

`BeginFrame`, `NoInterrupt`/`Acknowledge` and `SingleStep` are the parts of
`Board::execute_frame`: the top of a frame, `check_interrupt` and `single_step`.
The program is any sequence of instructions of any length in `InstructionTimes`,
told apart only by what they do to the interrupt logic (EI, DI, HLT, OUT or
other). `Fill` is the filler's call for a whole instruction: where its clocks take
the beam, and whether they met the interrupt's pixel or the scroll load's on the
way; `Advance` has the jump of the fast filler with its loss of clocks. `Request`
and `Threshold` are the latch and its late requests. Between two frames come
`Reset` (the keys BLKVVOD and BLKSBR, and the reset of a ROM load), `RestoreState`
with every state a file may hold, and the switch to the fast filler. The other
effects of these on memory and ports are in `StateFile` and `Cpu` or left out.
`ghost` is what the properties remember.

### Cpu

A state is one record and an instruction a function of it (`Execute`), which is
what allows the properties to run two instructions after each other. Opcodes are
decoded by their octal digits, as in the data sheet, instead of case by case; the
flag macros keep their tables. ANA, XRA and ORA are set operations on the ones of a
byte (`Ones`, `Octet`). Every access goes through `Bank` and `ToBank`,
which are `bigram_select` and `tobank`. An OUT to port 0x10 changes the paging
within its instruction: `commit_time` lies before its end. `ValuesFit` says what the
constants are; the run checks it of its instance, the proofs assume it.

### Timer and SoundEvents

`Timer` holds one `CounterUnit` (`chip`) and one `TimerChannel` (`mirror`) that get
the same writes. With `Clocked` the chip is counted clock by clock next to the
mirror's closed form, which is what `test/test_8253.cpp` does for some waveforms;
without it, the chip is as in the PSP program, where nothing clocks it. `exact` is
set by a control word and lost by what the mirror is known not to reproduce
(`Reproduced` lists it, each with a reason in section 4). `CountersFit` says what the
constants are; the run checks it of its instance, the proofs assume it.

`SoundEvents` has the queue, the stamps, `process_frame`'s loop with its budget and
skip, and the sample clock. The program may use any instruction, OUTs included, in
any order; a chip is the last two values written to it, so `Played` is the state a queue
of writes leaves. `QueueSuffices` names what the numbers of the code have in common; the
run checks it of its instance, the proofs assume it.

### ConfigFile

A file is a sequence of cells; a line is a key, "=" and as many cells as its value,
so that a new value may be shorter or longer than the old one and leave the end of
the old text behind. `Misprinted` are the keys whose line in the default text says
something else than the default (`fast_framebuffer`). `Cards` is what a start may find:
no file, or one of the user's, with or without the last end of line. `SettingsFit` names
what the keys, the values and those files must be for the settings to last; the run checks
it of its instance, the proof assumes it (section 5).

### Popup

The members of `Popup` and `RomBrowser` have their names; `wpc` and `dpc` are the
places of the two threads, `seq`, `row` and `upload` the display thread's locals. An
action is what a thread does between two places where the other may see a difference:
the sequence number and the background, one row, each of the plain fields
`preview_w`, `preview_upload` and `preview_tex`. A row is a ROM and whether it is
highlighted, a picture the ROM it belongs to. `shown` is what the last writeback
brought to main memory, and `sampling` holds from `draw_preview` to the next
`sceGuSync`. Either thread may be preempted anywhere, because the Config window sets
the priority of both. The other windows use the same handshake without a preview; the
Game Center has the preview, too.

### NetSession

`up` counts the initialisations of each of the six layers `NetMan::init` brings up
that were not terminated, `http` those of the HTTP library. Which call fails is open;
a second initialisation of a layer may be accepted or refused. The actions are the
ways `GameCenter::open` can end, a preview, a ROM, the poll that takes the ROM, and
`close`. A body is whole, cut by an error, filled up to the size of the buffer, or
empty.

## 3. What the runs check

| run | question | result |
|---|---|---|
| `handoff` | does the pipeline keep its discipline in every interleaving? | 8 properties hold, 30 000 states |
| `leak` | is a displayed buffer always handed back (`tv.h` 35-37)? | violated: finding |
| `feed` | do keys, VKBD and all the windows stay consistent, one button at a time? | 6 properties hold, 492 000 states |
| `stuck_key` | does that survive two buttons changing in one poll? | violated: finding |
| `state` | does a slot survive failures and power losses? | 5 properties hold, 807 000 states |
| `state_lost` | does a failed save leave the previous state (`statefile.h` 55-57)? | violated: finding |
| `sound` | is the ring safe and continuous at its usual settings, when the worker stops for two seconds at most? | 4 properties hold, 4.9 million states |
| `sound_overrun` | is it when a window is open for longer (`sound.h` 28-31)? | violated: finding |
| `board` | do CPU, beam and interrupt latch agree under any program? | 6 properties hold, 49 000 states |
| `fast_raster` | does the fast filler keep the beam like the other (`filler.cpp` 263-267)? | violated: finding |
| `parts` | are the CPU, the timer's mirror, the sound events, `config.ini`, the network session and a window on the screen right? | 11 properties hold, 250 000 states |
| `timer_frozen` | does the timer the program reads follow time (`sound.h` 126-128)? | violated: finding |

### Bounds, and why they are enough

* `handoff`: the code's three buffers. Five frames are two more than there are
  buffers, so every buffer is reused and both slots fill, overflow and are
  recycled. One dialog, because with two `DialogExclusion` does not hold
  (section 4, observations); `leak` needs three frames.
  What is independent of the numbers is proved (section 5).
* `feed`: a direction and X, two modifiers and two ordinary keys, the code's
  four slots, and three entries for latched modifiers instead of sixteen: two
  modifiers never fill three, even latched twice (section 4). A ROM from the Game
  Center disables the direction. One button changes per poll: the slots then never
  overflow and the key matrix follows. `stuck_key` shows what the second button
  does. `FreezeKept` lets the poll that takes a downloaded ROM leave the menu open over the
  running machine, which it does (section 4, observations), and no other step.
  All windows are open to the user, with one more bound, `BriefVisits`: Exit and the
  windows other than the menu and the Game Center, of which only Map Keys touches the
  keyboard and the slots, are explored from a machine at rest, an edited map until Map
  Keys is left, and Exit until the menu is left. Without it the edited maps alone multiply
  the states by nine. With Map Keys in place of the Game Center, and no menu that opens by
  itself, the same properties hold without it (541 000 states).
  It also has the menu open by itself over a machine at rest, and before a visit to the
  Game Center: otherwise a key held then stays down, and the menu opens over another
  window (section 4, observations). Section 5 proves `OneWindow` and
  `FreezeKept` for the menu that opens by itself at any time, without the Game Center.
  `CHECK_DEADLOCK FALSE`: Exit stops the worker.
* `state`: three states of the machine, so that the slot's old content, the new
  state and the one after are distinct; two failing operations and two power losses
  anywhere, the second to hit the recovery from the first (the picture and its removal,
  say); five backup names, so that one is always free, with symmetry (they are only
  compared for equality). In this run F11/F12 do not change the length of a state
  (`BootSwaps = FALSE`, section 4).
* `sound`: 700 callbacks, sixteen seconds. The controller swings with a period of
  about 24 s, and the fill peaks some 420 callbacks after a stop. The worst stops are those
  that meet the swing after the start, in the first 290 callbacks: the highest fill of all,
  6475 of 7056, follows a window opened at callback 110, with longer frames and 60 ms.
  Stops may begin in the first 330. (The same arithmetic run outside TLC, with stops
  anywhere in the first 37 seconds, finds no higher fill after a later one.) Buffers of
  40 and 60 ms, a machine frame of half its period, frames of a block or of eight samples
  more, and one stall of 40 frames, one window open for two seconds or one change of the
  buffer, at any moment. `Done` stutters at the bound, so a deadlock before it would be
  reported. `BriefStopHarmless` speaks of stops of two seconds in all and of these two
  buffers, and not of more: longer stops or buffers, longer frames or a second stop can
  overrun the ring, and section 4 says when.
* `sound_overrun`: one window open for twelve seconds, opened in the first 60 callbacks,
  among them the one at which the menu opens by itself.
* `board`, `fast_raster`: lines of 768 clocks, the pixels of the interrupt and of the
  scroll load as in the code, all instruction lengths, any number of frames. Four
  lines instead of 312: line 0, an ordinary one, the scroll line and the last, each
  of which the code treats differently; a second ordinary line is like the first.
  Nothing counts frames, so the state space is finite without a bound.
* `parts`: each part alone, as they share nothing. `Cpu`: one instruction (two or
  three inside `StackRoundTrip` and `DecimalAddition`) of every opcode, with six
  corner values of A and of the operand and both carries, and with four pagings,
  with and without a boot ROM, four stacks, the ends of memory and of a window among
  them. `DecimalAddition` takes every second operand from 0 to 99. `Timer`: bytes of
  two bits, so that a count wraps at 16 and a sample of 4 or 5 clocks holds several
  periods of a short one and a fraction of a long one; four port accesses, that is a
  control word, a two-byte count and one more (or three one-byte counts), with any
  number of samples between them, for which the state repeats (five accesses hold as
  well and take three times as long). `SoundEvents`: frames of 6 clocks with up to
  three OUTs, samples of 3.4 and 2.75 clocks, so that a sample boundary falls on every
  phase of a frame, and two to three frames. The queue is 8 long: 3 OUTs never fill it, as
  4992, the most a frame can hold, never fill 8191. `ConfigFile`: two keys, values of
  one to three cells, a comment at the end, a setting commented out, each file with and
  without its last end of line, and files of up to 16 cells with what earlier writes have
  left behind.
  `NetSession`: four windows opened and downloads made, enough for a failed
  initialisation, a second attempt and a download in it. `Popup`: two rows, so that a
  list of three scrolls and an empty one shows nothing; a ROM without a picture between
  two with one; three openings or steps, as two in the middle of one painting are like
  one, and a third comes after a close. (A list of one ROM holds as well.)
* `timer_frozen`: the `Timer` of `parts` without its clocks.

`CHECK_DEADLOCK FALSE` in `parts` and `timer_frozen`: the bounded parts stop at
their bounds.

### Fairness

`FairSpec` of `FrameHandoff` assumes weak fairness of the worker's own steps
and of the display's. Both threads block regularly, the worker in
`sceKernelDelayThread` after every frame and after every failed acquire
(`emulator.cpp` 143-152, 222-234), the display in the vblank wait, so neither
can starve the other however their priorities are set. The user's choices
(`MenuStep`) are not fair: he may leave the menu open for ever. The system
dialog is taken to end. `FairSpec` of `Popup` is weak fairness of what the worker has
begun (`Worker`) and of the display's steps, for the same reason, and the `FairSpec` of
`MCParts` repeats it; what the user does (`User`) is not fair. The other modules have no liveness properties: one
thread, or time that is part of the state.

## 4. Findings

1. `tv.cpp:607` (`leak`): `render` returns the previous buffer only if this very call
   found `pending` set. A list synced by the suspended branch has cleared it, so
   that buffer stays DISPLAYING for ever: one buffer per dialog (`NoBufferLost`
   bounds the damage), and after two the worker starves.
2. `main.cpp:793` (`stuck_key`): a source let go in the very poll that sees START is
   not released, its key stays pressed in the machine.
3. `util.cpp:217` (`state_lost`): `careful_rename` unlinks the backup although the
   second rename failed: old and new state are both gone.
4. `filler.cpp:148` (`fast_raster`): the fast filler, the default of `config_load`,
   drops the clocks of an instruction that run over the end of a line it jumps over.
   Its frames take more machine time than the raster filler's, so timing loops and
   music tuned to the frame drift from it.
5. `8253.h:359` (`timer_frozen`): nothing clocks the real timer any more. A program
   that reads a counter, for random numbers or to measure time, reads a constant.
6. `sound.cpp:130` (`sound_overrun`): a window parks the worker (`emulator.cpp` 115-128),
   the callback is not told (`Soundnik::pause` has no caller) and sums up the whole target
   as the error of every call, until a clamp that is more than a minute away; not even
   `Soundnik::reset` clears the sum. After twelve seconds the reader is then so slow that
   the writer laps it about five seconds after the window is closed, at the default buffer,
   against `sound.h` 28-31 and `sound.cpp` 270-271. Everybody meets it who reads the
   menu that opens by itself for a while.

### Observations without a run

Met while modelling, and not turned into runs because a finding above says much the
same, they are bound to rarer settings, concern looks rather than state, or would need
a run of their own in a set kept small. Those that name a property can be reproduced
with the models.

* `tv.cpp:111`: `resume_render` clears the acknowledgement before the request. A
  `render` between the two stores acknowledges again, and the next dialog starts
  without waiting (`FrameHandoff_handoff.cfg` with `MaxSuspends = 2` violates
  `DialogExclusion`).
* `util.cpp:115`: `save_binfile` does not truncate; a longer temporary file left by a
  power loss (F11 attached a boot ROM, which makes a state longer) puts a tail on the
  next state, and LOAD refuses it (`StateFile_state.cfg` with `BootSwaps = TRUE` and
  no faults violates `SlotSpec`).
* `sound.cpp:130`, beyond the finding. How long a window may be open before the ring is
  overrun depends on the buffer: about ten seconds at 40 ms, three to four at 60 ms. From
  100 ms on it needs no window: the swing after the start alone passes the ring's capacity
  of 7056, up to 7461 at 100 ms and 11626 at 150 ms, the longest the code accepts
  (`MCSoundRing` with `Targets <- Longest` violates `HeadInRing`). Machine frames longer
  than a block, as the fast filler makes them, add to it: about 23 samples more overrun
  the ring after the start at 60 ms. In the other half of the swing the ring runs
  empty: with eight samples more, `Continuous` without its condition on `frame_samples`
  is violated at the default buffer, about fourteen seconds after the start.
* `config.cpp:205` and `:165`: the first start uses `fast_framebuffer = true`, the file
  it writes as "the defaults" says false, so the second start uses the other filler
  (`SettingsLast` without its exception for `Misprinted`).
* `config.cpp:287`, with the same `save_binfile`: a user's line much longer than what a
  change writes for it ("sound_mode" with many blanks before its value) shortens the file
  by more than a short last line has, `fps=1` say. What is left behind is then a second
  line of that option, which the next start obeys and a change does not reach
  (`SettingsLast` with `<<Line("a", 9), Line("b", 1)>>` among the `Files`, which
  `SettingsFit` excludes).
* `vkbd.cpp:270`: a free entry of the modifier table in front of the latched one wins.
  Latch SS, latch US, unlatch SS, and US pressed again is latched a second time
  instead of released. `VkbdExact` still holds: the keyboard shows what the matrix has.
* `vio.h:117`: `IO::reset` sets the ports without telling their listeners. After a ROM
  load the filler keeps the 512-pixel mode and the border of the ROM before, until the
  program writes port 2, although `board.cpp` 106-110 wants "a fresh start like the
  very first boot"; PB = 0xff then restores from a saved state as 512-pixel mode
  (`vio.h` 528-529). `i8080_init` leaves `iff` and `ei_pending` as they were, too.
* An RST 7 pushed in before the first instruction of a frame loses its 16 T-states:
  `single_step` (`board.cpp` 253-256) takes them for time carried over.
* `last_opcode` is not saved: a state saved in a HLT returns from its next interrupt
  to the HLT.
* An OUT to 0x0d-0x0f commits its palette entry as a register one step later than one
  to 0x0c (`vio.h` 401-418). POP takes 11 clocks and POP PSW 10; both are 12 on the
  Vector, and the two differ in the latest clock at which they take an interrupt.
* Sound events carry the clock their OUT began at, not the one it commits at.
* The skip of `process_frame` is out of reach at the code's rates: its budget is
  eight frames.
* 8253: a read of a counter flips the same `write_state` as a write, so reading one
  half shifts the next load; a count of 1 in mode 3 lets the value drift below zero
  for ever, and one of 0 in mode 0 ends at once; the constructor leaves `out` and
  `latch_mode` indeterminate. The mirror counts the clocks of a write delay as low
  and a square wave's edges one clock late, and does not know that a latch command
  cuts a write delay, nor that the low byte of a count starts the delay of a pending
  one again.
* `config_set_value` changes the first line of a key and `parse` takes the last, so a
  key given twice in the file cannot be changed. CR LF files shrink when they are
  written, and keep a tail. A shortened value leaves lines of rubbish at the end that
  do no harm but grow. A failed or short write is reported as saved.
* The key picker of Map Keys queues keyups while the machine is frozen
  (`main.cpp` 1177-1180); they meet the first keydown of the same slot after it.
* `main.cpp:808`/`:831`: what `stuck_key` shows for START also holds for SELECT:
  the poll that shows the VKBD forgets `old_mapped`, too.
* The auto-opened menu (`main.cpp` 1198-1206) does not hide the VKBD, nor release
  what the pad holds; `emulator.cpp:169` opens it whatever ROM was loaded
  meanwhile. With `main.cpp:618` below this makes two windows: the menu opened by
  START just before, the Game Center, a downloaded ROM taken in the very poll that
  sees O, which leaves the menu open over the running machine, another window chosen
  in it, and the automatic menu on top (`MCPadInput_feed.cfg` with
  `Windows = {"gc", "cfg"}`, `OneWindow` alone and without the last line of
  `BriefVisits` violates it in 12 steps).
* `emulator.h` 124-126 describes the pause as happening before the frame; the
  poll is inside it, so one more frame runs (`emulator.cpp:94`).
* `main.cpp:618`: after loading a downloaded ROM the Game Center branch resumes the
  machine and falls through to the O/START test of the same poll, which opens the
  menu over a running machine (as an invariant, `WindowFreezes` is violated in 9 steps).
* `get_rom_org` (`emulator.cpp` 347-366) says NAME0.ROM and looks at the second
  last character of the path.
* The gains of the sound controller make a loop of about 0.26 rad/s with a
  damping of about 0.04, not "critically damped, ~10 rad/s" (`sound.cpp:128`);
  a machine two percent slow pads about a quarter of the callbacks for many
  seconds at the default 40 ms.
* `rombrowser.h:134`: the preview's upload flag is plain, read and then cleared by the
  display thread. If the worker sets it in between, for the next picture, that picture
  is not written back, and the GE shows old pixels of it as long as the window stays,
  against `rombrowser.h` 132-133 ("the GE must see the texture in main memory before
  sampling"). The panels avoid this with a sequence number, and say why (`popup.h` 136).
  `PictureArrives` of `Popup` is violated with the constants of `MCParts`.
* `rombrowser.cpp:87`: `close` frees the preview texture without waiting for the GE's list
  or for a `draw_preview` under way, against `rombrowser.h` 157-158 (`SamplesTexture` of
  `Popup` is violated). `GameCenter::close` (246) and `StateWindow::close` (132) do it, too.
* `main.cpp:1305`: `paint` rasterizes into the panel's texture before `render` has synced
  the list that reads it, so that one frame may show a panel half painted.
* `netman.cpp:278`: an error in the middle of a body ends the loop like its end. The first
  part of a ROM is saved, and loaded, against `netman.h` 47-49 ("or -1 on any error")
  (`BrokenRomRefused` of `NetSession` is violated with three calls).
* `netman.cpp:81`: after an `init` that failed half way `shutdown` does nothing, what came
  up stays up, and the next attempt initialises it again, against `netman.h` 16 ("unload
  modules, free resources") (`ShutdownFrees` of `NetSession` is violated).
* `http_download` returns from its errors without `sceHttpEnd` and `sceHttpsEnd`
  (`netman.cpp` 207-263); `NetSession` counts them in `http`. A body longer than the
  buffer is cut without notice: the reading stops at `buf_size`.
* `gamecenter.cpp:499` does not look at what `sceIoWrite` returns: on a full stick a short
  ROM is loaded like a whole one (`rom` "short" in `NetSession`).
* The messages of `GameCenter::open` ("Connecting...", "Downloading catalog...") are
  never seen: the window counts as open only after all of it (`gamecenter.cpp:233`).
  "Failed to load ROM" is not either: with a catalog the header shows the title
  (`gamecenter.cpp:591`), where `gamecenter.h` promises a status line.
* Complete copies left as backups by a power loss are never looked for: the slot
  shows as empty. A picture may remain older than the state after one.
* `imgload.cpp:197` wants "never leave a truncated screenshot", but `stbi_write_png` does
  not look at what its `fwrite` returns: a picture cut short by a full stick stays, and
  `img_save` reports it as written. A failing `std::remove` leaves the picture of the
  state before (`ShotMatches` without `~overdue` is violated with two faults).
* The boot screen's SAVE goes to a directory `boot`.

## 5. What is proved

All of it for every value of the constants that meets the assumption named, so for
any number of buffers, frames, lines, faults, rows or buttons. Each invariant below
was checked by TLC on the instance of a run before it was proved.

### The framebuffer handoff (`FrameHandoffProofs`)

From `HandoffAssumption` (at least one buffer, bounds that are naturals):

| theorem | statement |
|---|---|
| `HandoffInvariant` | `Spec => []HandoffInv` |
| `TypeCorrect` | `Spec => []TypeOK` |
| `OwnershipDiscipline` | `Spec => []Ownership` |
| `NoTornFrame` | `Spec => []NoTearing` |
| `HandoffImplementsMailbox` | `Spec => MailboxSpec` |
| `ScreenNeverGoesBack` | `Spec => []Mailbox!MailboxInv` |
| `DialogsCostOneBuffer` | `Spec => []NoBufferLost` |
| `FirstDialogExclusive` | `Spec => [](suspends <= 1 => DialogExclusion)` |

`HandoffInv` is the conjunction of four parts.
`TypeOK` also says that a thread about to use an index holds one.
`Ownership` puts an index in one hand or slot at a time and says it is not FREE
there; that second half is what makes the compare-and-swap of the scan unable to
steal a buffer somebody holds. It would be inductive with `TypeOK` alone.
`NoTearing` is not: it needs `GESynced`, that the GE reads at most the displayed
buffer and nothing between a sync and the next list, because only then does
handing back a buffer make it safe to draw in. The refinement needs `ContentOK`:
only the buffer being drawn is torn, and the newest ready slot holds the last
frame published, which is why taking it is the mailbox's `Show`.
`StepInv` has one step per action, and `StepMailbox` maps `PublishReady`,
`TakeReady` and `AcquireReady` to `Publish`, `Recycle` and `Show` and every other
action to a stutter. Dialogs do not weaken any of this: a buffer they leak stays
unowned, it is never in two hands.

How many they leak is `NoBufferLost`. It is not inductive, as a buffer is lost long
after the dialog that causes it. `LossBound` makes the account complete: buffers lost,
plus one if the buffer on display has been synced and forgotten (`AtRisk`), plus one if
a dialog is open that `render` may yet answer by syncing a list (`Unseen`), are never
more than the dialogs so far. `HandsEmpty`, that an index not in use is `None`, keeps
an index left in a variable from hiding a lost buffer.

`DialogExclusion` is false from the second dialog on (`tv.cpp:111`, section 4), so the
theorem says what is true: it holds until a second dialog is opened. The run `handoff`
has one dialog, for which the two are the same. `FirstDialog` says that before
`resume_render` has run once, an acknowledgement is an answer to this dialog.

### The machine (`MachineProofs`)

From `MachineAssumption` (a line longer than an RST 7 and the
longest instruction together, the scroll line neither the first nor the last, the
interrupt at least as many clocks into the frame), so for any number of lines, any
length of a line and any position of the two events:

| theorem | statement |
|---|---|
| `Invariant`, `CpuInvariant` | `Spec => []IInv`, `Spec => [](IInv /\ CpuInv)` |
| `TypeCorrect` | `Spec => []TypeOK` |
| `RequestLatchHolds` | `Spec => []RequestLatch` |
| `ServedPromptly` | `Spec => []PromptService` |
| `ReturnsBehind` | `Spec => ReturnAddress` |
| `BeamInvariant` | `Spec => [](IInv /\ Counted /\ Drawn)` |
| `EventsOncePerFrame` | `Spec => []OncePerFrame` |
| `BeamKeepsUp` | `Spec => []BeamFollowsCpu` |

`RequestLatch` alone is not inductive: `BeginFrame` clears `irq_carry`,
and would lose a request still in it. `IInv` therefore joins `Latched`, which says how
`irq`, `irq_carry`, INTE and the memory of the properties hang together and that
nothing is carried when a frame ends, to `Position`, which says where the beam is and
how much time is carried. A request is only carried after an instruction that met the
interrupt's pixel, on line 0; for it to be carried over the end of the frame that
instruction would have to reach the end from line 0, or meet the pixel in the next
frame. `Position` bounds its clocks by an RST 7 and the longest instruction, 160
(`OpTime`, `StepFill`), which is less than a line, and `IrqPixel >= 160` puts the pixel
of the next frame out of its reach (`FillFacts`). `PositionStep` and `LatchedStep` are
the two halves for an instruction, `FrameSteps` and `IdleSteps` the other actions.

`CpuInv` adds the CPU's side. `Enabled` ties INTE to `iff` and the delay of EI: INTE is
up only if interrupts are enabled or will be after the next instruction. `Returned` says
where PC stands between two instructions, which is `ReturnAddress` at the moment of an
acknowledge. `Served` counts the instructions a request has waited: one that has waited
for one is in `irq` or `irq_carry`, one that has waited for two is in `irq`, so that
`check_interrupt` takes it, and none has waited for two when an instruction begins.

For the beam, `Counted` replaces the counting of events by geometry: inside a frame, the
interrupt and the scroll load have come if and only if their clock is not ahead of the
beam. `FillMeets` proves the step that matters for both fillers: `Fill` reports a clock
exactly if the beam was before it and is not any more, also when the fast filler jumps to
the end of a line (`JumpBounds`: no event lies where it jumps). `FillLands` proves where
the beam ends up, modulo the frame. `OncePerFrame` follows because line 0 holds the
interrupt and the scroll load lies on its line. `Drawn` is `BeamFollowsCpu` with the types
it needs. `NumberLemmas` has what the proofs need about quotients by a variable,
which the provers cannot do without help.

### The CPU (`MachineProofs`, second part)

From `ValuesFit` (the constants are bytes, words and sizes), for any first state, any
number of instructions and any program, as `Cpu` lets every opcode stand at PC:

| theorem | statement |
|---|---|
| `CpuKeepsTypes` | `C!Spec => []CpuTyped` |
| `CpuTypes` | `C!Spec => []C!TypeOK` |
| `CpuFlags` | `C!Spec => C!FlagsAreArithmetic` |
| `CpuAddsDecimally` | `C!Spec => [](C!DecimalAddition /\ C!AddsDecimally(cpu))` |
| `CpuStackComesBack` | `C!Spec => [](C!StackRoundTrip /\ C!StackComesBack(cpu))` |

The run `parts` looks at corners; here the states are all of `Machines`: every value of
the registers and flags, every paging, every memory. `CpuTyped` is inductive as every
operator of the model that yields a machine keeps to `Machines`, from `Write` and
`SetPair` up to the rows of opcodes (`...IsMachine`, `...IsDone`); the flags that come out
of the tables and the times need no more. `TypeOK` alone would not do: it says nothing of
the paging, whose page numbers bound the addresses.

`CpuFlags`: the bits 3 of A, of the operand and of the result tell the carry into bit 3
and with it the one out of it, which is what the tables hold (`HalfCarry`, `HalfBorrow`); `SumTells` and
`CompareTells` say so of the two macros, `AluTells` of the eight operations, and
`ExecuteAlu` that the rest of an instruction leaves the flags alone.
`CpuAddsDecimally`: the digits DAA adjusts are those whose sum went past nine
(`Adjusted`), although it sees them only in sixteens, with the carries.

`CpuStackComesBack`: `tobank` is one to one over all five pages (`PlanesOneToOne`) and
`bigram_select` keeps the lower 16 bits of an address (`BankAddress`), so a byte is read
back unless the boot ROM covers it or a later write went to the same address of the same
page (`ReadAfterWrite`), and the two bytes of a word do not meet, SP wrapping included
(`ReadAfterWriteWord`, `PushTells`). `SetPairBack`, `SetPswBack` and `XthlTwice` do the
registers. `DecimalAddition` and `StackRoundTrip` speak of the first state, which is what
keeps the run short; the theorems add the same of every later one.

### Save states (`StateFileProofs`)

From `StateFileAssumption` and `BootSwaps = FALSE`, for any number of runs, faults,
power losses and backup names:

| theorem | statement |
|---|---|
| `Invariant` | `Spec => []IInv` |
| `TypeCorrect` | `Spec => []TypeOK` |
| `AcknowledgedIsStored` | `Spec => []AckedIsStored` |
| `LastCopySurvives` | `Spec => []CopySurvives` |
| `PictureMatches` | `Spec => []ShotMatches` |
| `SlotImplemented` | `Spec => SlotSpec` |

The hypothesis means that all states are of one length. It is needed: with two lengths a
temporary file left by a power loss puts its tail on the next state, and the refinement
fails (`util.cpp:115`, section 4). With one length a complete write covers whatever was
there, which is the core of the argument: `Files` says that every file but the temporary
one is absent or complete, and `Saving` that from the rename on the temporary one is the
frozen machine's state, however a write before it ended (`OverFacts`). `Copies` says, for
runs without faults, that a complete copy of the last acknowledged state or a newer one is
under a name other than the temporary one; it needs to know that a backup is only unlinked
after the rename that replaced it (`pc = "unlink" => ok`), which is the very thing a fault
breaks (`state_lost`). `Picture` says when the picture may lag: while a save
is under way, after a power loss, and after a save that could neither write its picture
nor remove the old one, which is what `ShotMatches` exempts. In the refinement,
the rename into place is `SaveSlot`'s `Store`, the rename of the old state to a backup its
`Lose`, a power loss its `Restart`, and the steps on the way, failed operations included,
stutter.

### Pad input (`PadInputProofs`)

From `PadAssumption`, for any keys, slots, ROM mappings and any number of buttons
that change between two polls:

| theorem | hypothesis | statement |
|---|---|---|
| `WindowsReplaceEachOther` | `~AutoMenu \/ "gc" \notin Windows` | `Spec => []OneWindow` |
| `WindowsFreeze` | `"gc" \notin Windows` | `Spec => []WindowFreezes` |
| `FreezeIsKept` | `~AutoMenu \/ "gc" \notin Windows` | `Spec => FreezeKept` |
| `TypeCorrect` | none | `Spec => []TypeOK` |
| `NothingSticks` | `~AutoMenu \/ "gc" \notin Windows` | `Spec /\ []Roomy /\ [][Careful]_vars => []NoStuckKey` |
| `KeyboardIsExact` | the same | `Spec /\ []Roomy /\ [][Careful]_vars => []VkbdExact` |
| `EdgesArrive` | the same | `Spec /\ []Roomy /\ [][Careful]_vars => EdgesQueued` |

Both hypotheses about the windows are needed: with the Game Center a ROM is loaded while the menu is asked for
(`main.cpp:618`), and with the menu that opens by itself there are then two windows
(`emulator.cpp:169`, section 4). `WindowInv` adds to the two properties that X is not held
in `gc_prev` while the dialog is up or a ROM is ready, without which the poll that loads a
ROM could put the dialog of the next one over the running machine, and that between the poll
and the frame of a running machine only the menu may be open. `FocusIsOpen` reduces the
dispatch order of `handle_input` to the one open window.

`TypeOK` is not inductive: a release queues the key of a source fed in the last poll, and the
key map may have changed since. `FedType` adds that such a source still has a key, which holds
because every poll of a window forgets what was fed. The slots and the picks are recursive
functions over the keys released, whose types follow from `RecursionHasFunction` and
`SetInduction` of `NumberLemmas`.

The last three theorems are about the keys the machine sees. They are conditional because
the program is: without the conditions keys do stick.

* `Roomy`: each slot array has an entry left or already holds every key, so that nothing
  was dropped at its end (`emulator.cpp` 310-334). The entries of an array differ from each
  other, so this is always so when there are at most `NSlots` keys, as in the run `feed`;
  the code has four entries (`emulator.h:11`) and more keys, and drops the fifth.
* `Careful`, first part: nothing is held and the virtual keyboard is closed when the menu
  opens by itself, which forgets both (`main.cpp` 1198-1206, section 4).
* `Careful`, second part: the poll that sees START or SELECT pressed sees no button
  released, for it forgets what the pad fed and releases only what the pad still holds. The
  run `stuck_key` is what happens otherwise. With `MaxChanges = 1`, a poll for each button
  that moves, this part always holds.

`KeysInv` is the invariant. `SlotInv` says that a key which is down in the machine, but
which the program does not believe down (`Believed`: fed in the last poll or shown down by
the virtual keyboard), is on its way up in `keyups`, and that only what is believed down is
on its way down; `Exact` that over the game the virtual keyboard and the matrix differ only
by what waits in the slots, which never hold presses and releases at once; and
`KeyboardInv` that a closed keyboard holds nothing. `DrainedHolds` is what a drain does to
the matrix, `UpdateHolds` what an update of the keyboard does to the keys it shows and to
the slots, and `QueueAllHolds` that queueing loses nothing where there was room afterwards.
`KeysInv` was checked with TLC first, over the states of `feed`, and with `AutoMenu`
and four buttons at once where only careful steps are taken.

### Sound ring (`SoundRingProofs`)

From `SoundRingAssumption`, for any size of the ring, of the blocks and of a callback, any
worker speed, any length of a machine frame, any stalls and pauses and any target:

| theorem | statement |
|---|---|
| `Invariant` | `Spec => []RingInv` |
| `TypeCorrect` | `Spec => []TypeOK` |
| `PositionsFollow` | `Spec => []PositionsDerived` |

`BlockMove` of `NumberLemmas` is the heart: a block index and an offset that are those of
a position stay so when all three move on by any number of cells, modulo the ring.
`ConsumedType` shows that the closed form of the callback's loop never leaves the reader
before the start nor more than one frame ahead of the writer's, through any number of
paddings (`ReadsPadded`) and re-anchorings (`AnchorPosition`), and `StepType` that the
clamps hold whatever the controller has summed up.

### Sound events (`SoundEventsProofs`)

From `QueueSuffices`: a sample is longer than a clock and not longer than a frame, and the
OUTs that fit in a frame and the sample before it do not fill the queue. The code's numbers
meet it (29952 clocks a frame, at least 6 an OUT, samples of 34 and a bit, 8192 slots), and
so do a slower sample rate or a smaller queue:

| theorem | statement |
|---|---|
| `EventInvariant` | `Spec => []EventInv` |
| `MirrorsFollow` | `Spec => []MirrorFollows` |
| `HeardWithoutDrift` | `Spec => []HeardOnTime` |
| `TypeCorrect` | `Spec => []TypeOK` |

`EventInv` places the queue in time. `OnGrid` is the sample clock: the next boundary and the
carried fraction make up exactly the samples rendered so far, so nothing is rounded away.
`Ordered` says that events are sorted and that from each on there was an OUT's time for
every one after it; `Waiting` that none is so old that it should have been heard. Together
they bound the queue (`QueueHasRoom`): the oldest event is at most a sample older than the
frame, and the others fit after it. `PlayedTwice` and `PlayedAppend` say that a queue may be
replayed in parts. `DueIsHead` finds what a boundary replays, `RenderKeeps` is a turn of
`process_frame`'s loop, and `LoopCatchesUp` shows by induction over the turns that the
budget of eight frames' samples always reaches the end of a frame of instructions, however
the last one overshoots: the skip ahead, which would break the grid, is never taken.
The loop is a recursive function, which `NumberLemmas` shows to exist (`RecursionHasFunction`)
and to be open to induction (`SetInduction`): the library's theorems for both take an
operator, which the provers cannot instantiate; these take a set and a function.

### The counters and their mirror (`SoundEventsProofs`, second part)

`MirrorStaysInStep`: from `CountersFit` (a byte is one of `Base` values, a sample takes a
clock at least) and a counter that gets its clocks (`Clocked = TRUE`, as it is about the
reference), `T!Spec => []T!MirrorInStep`: for any number of writes, reads and latch
commands, any counts up to 65535 and beyond, and samples of any lengths. Like the
property, it speaks of programs that keep to what the mirror reproduces (`exact`, which
the next control word restores).

The counter goes clock by clock, the mirror a sample at a time. `Counted` and the half
waves of `IntegrateSquare` are recursive functions, which `NumberLemmas` opens to induction
(`CountedRecursion`, `SquareRecursion`). What n clocks do follows by induction over n:

* a delay passes and nothing else changes (`DelayClocks`), and `ClocksAdd` joins it to
  what comes after;
* a counter that waits, one of modes 1 and 2 and a mode 0 that has ended keep their
  level (`FlatClocks`);
* a mode 0 is high from the clock that reaches zero on, the closed form of the mirror
  (`OnceClocks`, `OnceInStep`);
* a mode 3 keeps its level until its half wave ends, which is the clock the mirror
  reckons (`WaveClock`, `HalfClocks`, `HalfEnds`). The two count an odd wave differently:
  the counter takes 1 or 3 off once, the mirror rounds up; `Wave` says which pairs of
  values they are at. `HalfWaveStaysAbreast` is a turn of the mirror's loop, and
  `SquareInStep` the whole sample.

`TimerInv` couples the two between samples. `Agreed` compares what the mode makes matter:
the value of a mode 1 is not the counter's, that of a mode 0 that has ended counts on
below zero. It is not inductive by itself, as a latch command takes a clock ahead; after
one the counter is `Ahead`: where it would be a clock later, with a delay of one clock
before it goes on. The sample that follows gives that clock back (`AheadClock`).

### The settings, the panel and the session (`WindowProofs`)

`SettingsSurvive`: under `SettingsFit`, `Spec => []SettingsLast` for `ConfigFile`: however
often options are changed, lines get shorter and the program is started again, the file
reads back as the options in use. `save_binfile` leaves the end of a longer file behind
(`util.cpp:115`), and what is left becomes lines of the file at the next change. `Calm` says
what keeps that harmless: no end of the file as short as the shortest line of an option
reads as one. It lasts because a change reaches such an end only with a part of its own
line that has lost the key (`LineEnds`), and what it leaves of the old file is such an end
(`ChangedLines`, `OverEnd`). With it every key keeps its one line (`ChangedOneEach`), so
the first line of a key, which a change replaces, is the last, which a start obeys.
`Lines(Text(L) \o t) = L \o Lines(t)` (`LinesConcat`), by induction over the cells, joins
the two. `SettingsFit` asks that

* no key is given twice, and no value is written with the cell of an end of line;
* a change shortens a line by no more than the shortest line of an option has cells.
  The code's changes do so by four characters at most ("gaussian" to "none"), and its
  shortest line, `fps=1`, has five and the end of the line. A line the user spread out
  with blanks, which a change writes with one on each side of "=", may lose more;
* the user's file does not end in a short comment that hides a setting (`#fps=1`): cut off
  in the right place it is one, but only a change that shortens the file by exactly the
  rest of it does that.

`PaintedPanelIsCurrent`: for a positive number of rows and lists of any lengths,
`Spec => []PaintedIsCurrent`. The painter reads the rows one by one while the worker may
change the list, the selection and the scroll position in between. `Painting` is the
argument: if the sequence number taken before the first row is still the current one and
no change is half way, then every row painted so far is the row as it is now; a change
raises the number only at its end, so a painting that overlapped it is either outdated
already or will be when the number is raised, which is what `HalfWay` is for.

`SessionsNest`: `Net!Spec => []Net!SessionNests`, for any number of windows and downloads.
`SessionInv` adds what `up` counts: never below zero, and one per layer as long as no
initialisation has failed. After a failure nothing more can be said, as the layers that did
come up stay up (`netman.cpp:81`, section 4).

### Only model-checked

* Liveness, out of the prover's reach: `WorkerGetsBuffer`, `FrameReachesScreen`,
  `SuspendReturns`, `SettledIsShown`.
* `BriefStopHarmless` and `Continuous` of `SoundRing`: they are about the controller's numbers
  over hundreds of callbacks and false for other settings (`sound.cpp:130`, section 4).

`HandoffInv` and `TypeOK` of the handoff, on the other hand, are only proved: no run
repeats them.

## 6. What is not modelled

Inside the modelled parts: `copy_latest_rgb` (a preview read without
synchronisation), the overlays and meters of `render`; the start and stop of the
worker thread and its unused command slots; the boot sequence; the file side of
key mappings; lists and painting of the windows other than the ROM Browser; the directory scan and
the previews of the State Browser; the audio samples, the interpolation kernels,
`Soundnik::pause` and the statistics. In `StateFile` a rename is atomic across a
power loss and a directory survives it. In `SoundRing` the worker's clock and the
audio clock agree, and a machine frame's samples arrive at once. In `Machine` the
pixels, the palette, the delayed commits of an OUT (other than that it keeps the fast
filler from jumping) and the debugger's stops; in `Cpu` the ports other than 0x10,
an interrupt between two instructions (it is in `Machine`), and what the DEBUG build
adds; in `Timer` BCD counting, the values that reads return, and port writes inside a
sample, which the code moves to its start; in `SoundEvents` the mixing, the events of the
tape input (`board.cpp` 340-347) and the switch that turns the sound off; in
`ConfigFile` faults of the medium, which `StateFile` has for the same functions; in
`Popup` the messages, and the dialog that suspends `render`, which is in `FrameHandoff`;
in `NetSession` the time limits, the parsing of the catalog, and a loss of the
connection that nobody reports.

Whole components, each with its reason, are in `PROJECT.json` under
`not_modelled`: signal processing and rasterisation (functions of their input), the
debugger, recorder and vendored code, and those the plan below still has.

## 7. Plan

Done, in this order because a broken handoff or a stuck key is what every user
meets, and a lost save what hurts most: `FrameMailbox`, `FrameHandoff` and proofs;
`PadInput`; `SaveSlot` and `StateFile`; `SoundRing`; then the machine from the
inside out: `Machine` and proofs, `Cpu`, `Timer`, `SoundEvents`; `ConfigFile`; `Popup`
and `NetSession`; then the proofs of section 5.

Next, most valuable first:

1. `Ports`: the delayed commits of `vio.h` with the palette, and what a reset and a
   saved state do to them; with it the finding about `IO::reset` becomes a run.
2. `WorkerLifecycle`: start, stop and its three-second timeout against a download of
   `NetSession`.
3. The `.key` files of the key mapping over `save_binfile`, with the faults of
   `StateFile`.
4. `FloppyController`: the command, DRQ and INTRQ protocol of `fd1793.h`.

Limits that shape the plan: few enough runs that each answers a question of its
own; related violations are folded into observations when new components need
their place.
