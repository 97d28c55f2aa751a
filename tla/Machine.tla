------------------------------- MODULE Machine -------------------------------
(***************************************************************************)
(* One machine frame of the emulator: Board::execute_frame runs the CPU    *)
(* instruction by instruction, the pixel filler advances the beam by the   *)
(* clocks of each, and the beam raises the interrupt request.  Time that   *)
(* does not fit into a frame is carried into the next one (instr_time), a  *)
(* request that comes in the last clocks of an instruction is carried to   *)
(* the next one (irq_carry), EI takes effect one instruction later         *)
(* (ei_pending), and between two frames the worker may load a ROM or a     *)
(* saved state.  The program is arbitrary: any instruction may come next.  *)
(*                                                                         *)
(* Times are the code's: T-states of the CPU for instr_time, 12 MHz clocks *)
(* (four per T-state) for the beam.                                        *)
(***************************************************************************)
EXTENDS InstructionTimes

CONSTANTS
  Lines,        \* lines of a frame, 312 in the code
  ScrollLine,   \* line that loads the scroll register, 22 + 18 in the code
  LineClocks,   \* clocks of a line, 768
  ScrollPixel,  \* pixel at which that line loads it, 150
  IrqPixel      \* pixel of line 0 at which the frame interrupt comes, 174

ASSUME MachineAssumption ==
  /\ Lines \in Nat /\ ScrollLine \in 1..(Lines - 2)
  /\ LineClocks \in Nat /\ LineClocks > 4 * (24 + 16)  \* an RST 7 and the longest instruction
  /\ {ScrollPixel, IrqPixel} \subseteq 1..(LineClocks - 1)
  /\ IrqPixel >= 4 * (24 + 16)   \* out of reach from the frame before

VARIABLES
  phase,         \* "idle" between frames, "check", "step": the place in the loop
  fast,          \* PixelFiller::fast
  raster_line, raster_pixel,
  between0,      \* Board::between is 0: no instruction of this frame has run
  instr_time,    \* T-states carried over the end of a frame, or of an RST 7
  inte, irq, irq_carry,
  iff, ei_pending,   \* of the CPU
  last_opcode,   \* class of Board::last_opcode
  halted,        \* PC points at a HLT that has been executed
  ghost          \* what the properties remember, never read by the code

machine == <<raster_line, raster_pixel, between0, instr_time>>
latch == <<inte, irq, irq_carry, iff, ei_pending>>
vars == <<phase, fast, machine, latch, last_opcode, halted, ghost>>

Frame == Lines * LineClocks
IrqClock == IrqPixel
ScrollClock == ScrollLine * LineClocks + ScrollPixel
Beam == raster_line * LineClocks + raster_pixel

\* Instructions by their length and by what they do to the interrupt logic.
Op(name, t) == [name |-> name, cyc |-> t[1], v |-> t[2]]
Instructions == {Op("other", t) : t \in Timings}
                \cup {Op(n, <<4, 4>>) : n \in {"ei", "di", "hlt"}}
                \cup {Op("out", <<10, 12>>)}

Rst7Time == 16

Least(S) == CHOOSE x \in S : \A y \in S : x <= y

NoGhost == [lag |-> 0, lostAck |-> FALSE, vsyncs |-> 0, scrolls |-> 0,
            raised |-> FALSE, owed |-> FALSE, waited |-> 0]

Init ==
  /\ phase = "idle"
  /\ fast \in BOOLEAN
  /\ raster_line = 0 /\ raster_pixel = 0
  /\ between0 = TRUE
  /\ instr_time \in {0, 4}      \* indeterminate: the Board's constructor leaves it
  /\ inte = FALSE /\ irq = FALSE /\ irq_carry = FALSE
  /\ iff = FALSE /\ ei_pending = 0
  /\ last_opcode = "none"
  /\ halted = FALSE
  /\ ghost = NoGhost

-----------------------------------------------------------------------------
(* The pixel filler *)

\* The beam meets clock e of this frame or of the next on its next n clocks.
Passes(e, n) == \E k \in {0, Frame} : Beam < e + k /\ e + k <= Beam + n

\* Slip: the line of the scroll register is taken for an ordinary one.
EventLineUnscrolled == raster_line \in {0, Lines - 1}

\* The lines on which something happens at a certain pixel.
EventLine == raster_line \in {0, ScrollLine, Lines - 1}

\* The fast filler moves the counters in one go where nothing can happen: no
\* OUT to commit, no event line.
Jumps(out) == fast /\ ~out /\ ~EventLine

\* Where n clocks take the beam.  advanceLine() starts the new line at pixel 0,
\* where the filler that goes pixel by pixel always is, and a jump is not.
Advance(n, out) ==
  IF Jumps(out) /\ raster_pixel + n >= LineClocks
  THEN (raster_line + 1) * LineClocks
  ELSE Beam + n

\* The fill() of a whole instruction: the counters, the clocks past the end of
\* the frame and what the beam met.
Fill(n, out) ==
  LET to == Advance(n, out)
      meets(e) == ~Jumps(out) /\ Passes(e, to - Beam) IN
  [line     |-> (to % Frame) \div LineClocks,
   pixel    |-> to % LineClocks,
   brk      |-> to >= Frame,
   afterbrk |-> IF to >= Frame THEN to - Frame ELSE 0,
   moved    |-> to - Beam,
   irq      |-> meets(IrqClock),
   irq_clk  |-> ((IrqClock - Beam) % Frame) - 2,
   scroll   |-> meets(ScrollClock)]

-----------------------------------------------------------------------------
(* The CPU's side of an interrupt *)

\* Slip: EI takes effect at once.
EIDelayLost == 1

\* What EI sets ei_pending to.
EIDelay == 2

\* The tail of i8080_execute(): EI takes effect after the next instruction.
AfterEI(pending) == IF pending = 0 THEN 0 ELSE pending - 1

\* iff, inte and ei_pending after an instruction, with i8080_hal_iff().
Execute(name) ==
  LET p == CASE name = "ei" -> EIDelay [] name = "di" -> 0 [] OTHER -> ei_pending
      i == IF name \in {"ei", "di"} THEN FALSE ELSE iff
      e == CASE name = "ei" -> TRUE [] name = "di" -> FALSE [] OTHER -> inte IN
  [ei_pending |-> AfterEI(p),
   iff        |-> i \/ p = 1,
   inte       |-> e \/ p = 1]

\* Clocks of the instruction up to which a request is taken at its end.
Threshold(cyc) ==
  4 * (CASE cyc = 11 -> 15 [] cyc = 13 -> 15 [] cyc = 17 -> 23 [] cyc = 18 -> 21
         [] OTHER -> cyc)

\* Slip: the request carried from the last instruction is dropped.
RequestUncarried(met, late, enabled) == enabled /\ (irq \/ (met /\ ~late))

\* Slip: a request survives a DI.
RequestAfterDI(met, late, enabled) ==
  irq \/ (enabled /\ IF met THEN ~late ELSE irq_carry)

\* irq after an instruction that met the frame interrupt or not, too late for
\* its own end or not, with INTE as the instruction leaves it.
Request(met, late, enabled) ==
  enabled /\ (irq \/ IF met THEN ~late ELSE irq_carry)

-----------------------------------------------------------------------------
(* Board::execute_frame *)

BeginFrame ==
  /\ phase = "idle"
  /\ phase' = "check"
  /\ raster_line' = 0          \* raster_pixel stays, it carries the beam
  /\ between0' = TRUE
  /\ irq_carry' = FALSE
  /\ ghost' = [ghost EXCEPT !.lag = 0, !.lostAck = FALSE, !.vsyncs = 0, !.scrolls = 0]
  /\ UNCHANGED <<fast, raster_pixel, instr_time, inte, irq, iff, ei_pending,
                 last_opcode, halted>>

\* check_interrupt() has nothing to do.
NoInterrupt ==
  /\ phase = "check"
  /\ ~(irq /\ iff)
  /\ phase' = "step"
  /\ UNCHANGED <<fast, machine, latch, last_opcode, halted, ghost>>

\* check_interrupt() pushes an RST 7 in: INTE goes low, and so does the request.
Acknowledge ==
  /\ phase = "check"
  /\ irq /\ iff
  /\ phase' = "step"
  /\ instr_time' = instr_time + Rst7Time
  /\ irq' = FALSE
  /\ LET x == [Execute("rst7") EXCEPT !.inte = (ei_pending = 1)] IN
     iff' = x.iff /\ inte' = x.inte /\ ei_pending' = x.ei_pending
  /\ halted' = FALSE
  /\ ghost' = [ghost EXCEPT !.raised = irq_carry, !.owed = FALSE, !.waited = 0,
                            !.lag = @ + 4 * Rst7Time, !.lostAck = @ \/ between0]
  /\ UNCHANGED <<fast, raster_line, raster_pixel, between0, irq_carry,
                 last_opcode>>

\* Slip: the carried time is added in every frame's first instruction, too.
StepTimeCarries(v) == v + instr_time

\* The T-states the filler is given: the instruction's and those of an RST 7
\* before it.  Before the first instruction of a frame instr_time is what the
\* last frame carried over, which the beam has already drawn.
StepTime(v) == v + IF between0 THEN 0 ELSE instr_time

\* single_step(): one instruction, the beam, and the interrupt logic.
SingleStep(op) ==
  LET f    == Fill(4 * StepTime(op.v), op.name = "out")
      x    == Execute(op.name)
      late == f.irq_clk > Threshold(op.cyc) IN
  /\ phase = "step"
  /\ halted => op.name = "hlt"
  /\ phase' = IF f.brk THEN "idle" ELSE "check"
  /\ raster_line' = f.line /\ raster_pixel' = f.pixel
  /\ between0' = FALSE
  /\ instr_time' = f.afterbrk \div 4
  /\ iff' = x.iff /\ inte' = x.inte /\ ei_pending' = x.ei_pending
  /\ irq_carry' = IF f.irq THEN irq_carry \/ late ELSE FALSE
  /\ irq' = Request(f.irq, late, x.inte)
  /\ last_opcode' = op.name
  /\ halted' = (op.name = "hlt")
  /\ ghost' = [ghost EXCEPT
       !.lag = Least({@ + 4 * op.v - f.moved, 16}),    \* more is as bad
       !.vsyncs = IF f.irq THEN @ + 1 ELSE @,
       !.scrolls = IF f.scroll THEN @ + 1 ELSE @,
       !.raised = @ \/ f.irq,
       !.owed = op.name # "di" /\ (@ \/ (f.irq /\ x.inte)),
       !.waited = IF op.name \in {"ei", "di"} THEN 0
                  ELSE IF f.irq THEN (IF x.inte /\ x.iff THEN 1 ELSE 0)
                  ELSE IF @ > 0 THEN @ + 1 ELSE 0]
  /\ UNCHANGED fast

-----------------------------------------------------------------------------
(* Between two frames: the worker's commands and the windows *)

\* Slip: the request outlives the reset.
ResetBoardKeepsRequest ==
  /\ inte' = FALSE /\ irq' = irq
  /\ last_opcode' = "none"
  /\ halted' = FALSE
  /\ UNCHANGED <<phase, fast, machine, irq_carry, iff, ei_pending>>

\* What Board::reset() does to the interrupt logic in every mode.  i8080_init()
\* sets PC and the flags, nothing else of the CPU.
ResetBoard ==
  /\ inte' = FALSE /\ irq' = FALSE
  /\ last_opcode' = "none"
  /\ halted' = FALSE
  /\ UNCHANGED <<phase, fast, machine, irq_carry, iff, ei_pending>>

\* BLKVVOD and BLKSBR, the machine's own reset keys, and LOADROM.
Reset ==
  /\ phase = "idle"
  /\ ResetBoard
  /\ ghost' = [ghost EXCEPT !.raised = FALSE, !.owed = FALSE, !.waited = 0]

\* What a state file carries of the machine modelled here.
SavedStates ==
  {s \in [inte : BOOLEAN, irq : BOOLEAN, irq_carry : {FALSE}, iff : BOOLEAN,
          ei_pending : {0, 1}, halted : BOOLEAN] :
     /\ s.irq => s.inte
     /\ s.iff => s.ei_pending = 0
     /\ s.inte => s.iff \/ s.ei_pending = 1}

State == [inte |-> inte, irq |-> irq, irq_carry |-> irq_carry, iff |-> iff,
          ei_pending |-> ei_pending, halted |-> halted]

\* restore_state(): a reset, then the chunks.  The beam, instr_time and
\* last_opcode are those of the machine that loads, not of the one that saved.
RestoreState(s) ==
  /\ phase = "idle"
  /\ inte' = s.inte /\ irq' = s.irq /\ irq_carry' = s.irq_carry
  /\ iff' = s.iff /\ ei_pending' = s.ei_pending
  /\ halted' = s.halted
  /\ last_opcode' = "none"
  /\ ghost' = [ghost EXCEPT !.raised = s.irq, !.owed = s.irq, !.waited = 0]
  /\ UNCHANGED <<phase, fast, machine>>

\* The Config window pushes the switch live.
SetFastMode ==
  /\ phase = "idle"
  /\ fast' = ~fast
  /\ ghost' = [ghost EXCEPT !.lag = 0]
  /\ UNCHANGED <<phase, machine, latch, last_opcode, halted>>

Next ==
  \/ BeginFrame
  \/ NoInterrupt
  \/ Acknowledge
  \/ \E op \in Instructions : SingleStep(op)
  \/ Reset
  \/ \E s \in SavedStates : RestoreState(s)
  \/ SetFastMode

Spec == Init /\ [][Next]_vars

-----------------------------------------------------------------------------
(* Properties *)

(* Types, and what joins the variables: the beam stands on line 0 by the       *)
(* clocks that instr_time carries, an enabled CPU has no EI pending, and what  *)
(* a state file must be able to carry is all there is between two frames.      *)
TypeOK ==
  /\ phase \in {"idle", "check", "step"} /\ fast \in BOOLEAN
  /\ raster_line \in 0..(Lines - 1) /\ raster_pixel \in 0..(LineClocks - 1)
  /\ between0 \in BOOLEAN /\ instr_time \in Nat
  /\ {inte, irq, irq_carry, iff, halted} \subseteq BOOLEAN
  /\ ei_pending \in 0..2
  /\ last_opcode \in {"none", "other", "ei", "di", "hlt", "out"}
  /\ iff => ei_pending = 0
  /\ phase = "idle" => State \in SavedStates

(* The raster filler draws exactly the clocks the CPU executes, however        *)
(* instructions fall over line ends and frame ends (board.cpp 349-355: the     *)
(* clocks past the end are remembered for the next frame).  The one exception  *)
(* is an RST 7 pushed in before the first instruction of a frame: single_step  *)
(* takes its time for carried time and drops it.                               *)
BeamFollowsCpu ==
  ~fast /\ ~ghost.lostAck =>
    ghost.lag = IF phase = "step" /\ ~between0 THEN 4 * instr_time ELSE 0

(* In either mode a frame raises one interrupt request and loads the scroll    *)
(* register once, no instruction steps over those pixels and none meets them   *)
(* twice, and irq_carry is never left over to the next frame.                  *)
OncePerFrame ==
  /\ ghost.vsyncs <= 1 /\ ghost.scrolls <= 1
  /\ raster_line > 0 => ghost.vsyncs = 1
  /\ raster_line > ScrollLine => ghost.scrolls = 1

(* The request latch D65.2: a request needs INTE high and a frame interrupt    *)
(* since the last acknowledge (so none is taken twice, nor after a DI), and    *)
(* one that came while INTE was high is not lost before it is acknowledged.    *)
RequestLatch ==
  /\ irq => inte /\ ghost.raised
  /\ ghost.owed => irq \/ irq_carry

(* With interrupts enabled a request waits for the end of the instruction it   *)
(* came in, or of the next one if it came in the last wait states (board.cpp   *)
(* 300-304), and no longer.                                                    *)
PromptService == ghost.waited <= 2

(* The instruction after EI always runs before an interrupt does, and an       *)
(* interrupt taken in a HLT returns behind it: check_interrupt() steps PC      *)
(* over exactly the HLT that PC stands at.  A state restored since then has    *)
(* last_opcode 0 and is left out.                                              *)
ReturnAddress ==
  [][Acknowledge => /\ last_opcode # "ei"
                    /\ last_opcode # "none" => (halted <=> last_opcode = "hlt")]_vars

(* filler.cpp 263-267: the fast filler drives the counters exactly like        *)
(* fill1.                                                                      *)
FastBeamFollowsCpu ==
  fast /\ ~ghost.lostAck /\ phase # "step" => ghost.lag = 0

=============================================================================
