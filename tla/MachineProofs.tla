---------------------------- MODULE MachineProofs ----------------------------
(***************************************************************************)
(* The interrupt logic for every number of lines, length of a line and     *)
(* place of the interrupt: RequestLatch, then, with CpuInv in addition,    *)
(* PromptService and ReturnAddress; and the beam: OncePerFrame and         *)
(* BeamFollowsCpu.  Then the CPU that steps it, below.                     *)
(*                                                                         *)
(* IInv has two parts.  Position says where the beam may be and that the   *)
(* only time carried inside a frame is that of one RST 7, so an            *)
(* instruction moves the beam by 160 clocks at most and cannot both end a  *)
(* frame and meet the next frame's interrupt.  Latched says how irq,       *)
(* irq_carry, INTE and the promised request hang together; the step that   *)
(* needs Position is BeginFrame, which forgets irq_carry.                  *)
(***************************************************************************)
EXTENDS Machine, NumberLemmas, TLAPS

Position ==
  /\ phase \in {"idle", "check", "step"}
  /\ raster_line \in 0..(Lines - 1) /\ raster_pixel \in 0..(LineClocks - 1)
  /\ between0 \in BOOLEAN /\ instr_time \in Nat
  /\ ~between0 /\ phase = "check" => instr_time = 0
  /\ ~between0 /\ phase = "step" => instr_time \in {0, Rst7Time}

Latched ==
  /\ {irq, irq_carry, inte} \subseteq BOOLEAN
  /\ DOMAIN ghost = DOMAIN NoGhost
  /\ {ghost.raised, ghost.owed} \subseteq BOOLEAN
  /\ irq => inte /\ ghost.raised
  /\ irq_carry => ghost.raised
  /\ ghost.owed => inte /\ (irq \/ irq_carry)
  /\ phase = "idle" => ~irq_carry

IInv == Position /\ Latched

-----------------------------------------------------------------------------
(* Arithmetic of lines and frames *)

LEMMA FrameSize == Frame \in Nat /\ Frame >= 3 * LineClocks
<1>1. Lines \in Nat /\ LineClocks \in Nat /\ Lines >= 3
  BY MachineAssumption
<1> QED BY <1>1 DEF Frame

LEMMA BeamInFrame ==
  ASSUME Position
  PROVE  Beam \in Nat /\ Beam < Frame
<1>1. /\ Lines \in Nat /\ LineClocks \in Nat /\ LineClocks > 0
      /\ raster_line \in Nat /\ raster_pixel \in Nat
      /\ raster_line + 1 <= Lines /\ raster_pixel < LineClocks
  BY MachineAssumption DEF Position
<1>2. PICK d \in Nat : Lines = raster_line + 1 + d
  BY <1>1
<1>3. Lines * LineClocks = raster_line * LineClocks + LineClocks + d * LineClocks
  BY <1>1, <1>2
<1>4. d * LineClocks \in Nat /\ raster_line * LineClocks \in Nat
  BY <1>1, <1>2
<1> QED BY <1>1, <1>3, <1>4 DEF Beam, Frame

-----------------------------------------------------------------------------
(* The beam of one instruction *)

\* What fill() promises of n clocks, at most MaxFill when it meets the interrupt.
MaxFill == 4 * (24 + Rst7Time)

LEMMA FillFacts ==
  ASSUME Position, NEW n \in Nat, NEW out \in BOOLEAN
  PROVE  LET f == Fill(n, out) IN
         /\ f.line \in 0..(Lines - 1) /\ f.pixel \in 0..(LineClocks - 1)
         /\ f.brk \in BOOLEAN /\ f.irq \in BOOLEAN
         /\ f.afterbrk \in Nat /\ (~f.brk => f.afterbrk = 0)
         /\ n <= MaxFill /\ f.irq => ~f.brk
<1> DEFINE to == Advance(n, out)
           f  == Fill(n, out)
<1>1. /\ Lines \in Nat /\ LineClocks \in Nat /\ LineClocks > MaxFill
      /\ IrqClock \in Nat /\ IrqClock < LineClocks /\ IrqClock >= MaxFill
      /\ MaxFill \in Nat
  BY MachineAssumption DEF IrqClock, MaxFill, Rst7Time
<1>2. Beam \in Nat /\ Beam < Frame /\ Frame \in Nat /\ Frame >= 3 * LineClocks
  BY BeamInFrame, FrameSize
<1>3. to \in Nat
  <2>1. raster_line \in Nat
    BY <1>1 DEF Position
  <2>2. (raster_line + 1) * LineClocks \in Nat
    BY <2>1, <1>1
  <2>3. Beam + n \in Nat
    BY <1>2
  <2> QED BY <2>2, <2>3 DEF Advance
<1>4. to % Frame \in Nat /\ to % Frame < Frame
  BY <1>1, <1>2, <1>3
<1>5. (to % Frame) \div LineClocks \in 0..(Lines - 1)
  BY <1>1, <1>4, DivBelow DEF Frame
<1>6. (to % LineClocks) \in 0..(LineClocks - 1)
  BY <1>1, <1>3
<1>7. /\ f.line = (to % Frame) \div LineClocks /\ f.pixel = to % LineClocks
      /\ f.afterbrk = IF to >= Frame THEN to - Frame ELSE 0
  BY DEF Fill
<1>8. f.brk = (to >= Frame)
  BY DEF Fill
<1>9. f.irq = (~Jumps(out) /\ Passes(IrqClock, to - Beam))
  BY Zenon DEF Fill
<1> HIDE DEF f
<1>10. f.brk \in BOOLEAN /\ f.irq \in BOOLEAN
  <2>1. f.brk \in BOOLEAN
    BY <1>2, <1>3, <1>8
  <2>2. f.irq \in BOOLEAN
    BY <1>9, Zenon
  <2> QED BY <2>1, <2>2
<1>11. f.brk <=> to >= Frame
  BY <1>8, <1>10
<1>12. ASSUME n <= MaxFill, f.irq PROVE ~f.brk
  <2>1. ~Jumps(out) /\ Passes(IrqClock, to - Beam)
    BY <1>9, <1>12, Zenon
  <2>2. to = Beam + n
    BY <2>1 DEF Advance
  <2>3. Passes(IrqClock, n)
    BY <2>1, <2>2, <1>2
  <2>4. \/ Beam < IrqClock /\ IrqClock <= Beam + n
        \/ Beam < IrqClock + Frame /\ IrqClock + Frame <= Beam + n
    BY <2>3, <1>1, <1>2 DEF Passes
  <2>5. to < Frame
    BY <2>2, <2>4, <1>1, <1>2, <1>12
  <2> QED BY <2>5, <1>2, <1>3, <1>11
<1>13. f.afterbrk \in Nat /\ (~f.brk => f.afterbrk = 0)
  <2> HIDE DEF to
  <2> QED BY <1>2, <1>3, <1>7, <1>11
<1> QED
  <2> HIDE DEF to
  <2> QED BY <1>5, <1>6, <1>7, <1>10, <1>12, <1>13 DEF f

-----------------------------------------------------------------------------
(* The CPU and one instruction *)

LEMMA OpTime ==
  ASSUME NEW op \in Instructions
  PROVE  op.v \in 0..24
BY DEF Instructions, Op, Timings

LEMMA InteKept ==
  ASSUME inte \in BOOLEAN, NEW name
  PROVE  /\ Execute(name).inte \in BOOLEAN
         /\ name # "di" /\ inte => Execute(name).inte
BY DEF Execute

LEMMA StepFill ==
  ASSUME Position, phase = "step", NEW op \in Instructions
  PROVE  4 * StepTime(op.v) \in Nat /\ 4 * StepTime(op.v) <= MaxFill
BY OpTime DEF Position, StepTime, MaxFill, Rst7Time

-----------------------------------------------------------------------------
LEMMA InitInv == Init => IInv
<1> SUFFICES ASSUME Init PROVE IInv
  OBVIOUS
<1>1. Position
  BY MachineAssumption DEF Init, Position
<1>2. Latched
  BY DEF Init, Latched, NoGhost
<1> QED BY <1>1, <1>2 DEF IInv

LEMMA PositionStep ==
  ASSUME IInv, NEW op \in Instructions, SingleStep(op)
  PROVE  Position'
<1> DEFINE f == Fill(4 * StepTime(op.v), op.name = "out")
<1>1. /\ f.line \in 0..(Lines - 1) /\ f.pixel \in 0..(LineClocks - 1)
      /\ f.brk \in BOOLEAN /\ f.afterbrk \in Nat /\ (~f.brk => f.afterbrk = 0)
  BY StepFill, FillFacts DEF IInv, SingleStep
<1>2. /\ phase' = IF f.brk THEN "idle" ELSE "check"
      /\ raster_line' = f.line /\ raster_pixel' = f.pixel
      /\ between0' = FALSE /\ instr_time' = f.afterbrk \div 4
  BY DEF SingleStep
<1> HIDE DEF f
<1>3. instr_time' \in Nat /\ (~f.brk => instr_time' = 0)
  BY <1>1, <1>2
<1>4. phase' \in {"idle", "check"} /\ (phase' = "check" => ~f.brk)
  BY <1>1, <1>2
<1>5. between0' \in BOOLEAN
  BY <1>2
<1> QED BY <1>1, <1>2, <1>3, <1>4, <1>5 DEF Position

LEMMA LatchedStep ==
  ASSUME IInv, NEW op \in Instructions, SingleStep(op)
  PROVE  Latched'
<1> DEFINE f    == Fill(4 * StepTime(op.v), op.name = "out")
           x    == Execute(op.name)
           late == f.irq_clk > Threshold(op.cyc)
<1>1. f.irq \in BOOLEAN /\ f.brk \in BOOLEAN /\ (f.irq => ~f.brk)
  BY StepFill, FillFacts DEF IInv, SingleStep
<1>2. x.inte \in BOOLEAN /\ (op.name # "di" /\ inte => x.inte)
  BY InteKept DEF IInv, Latched
<1>3. /\ phase' = IF f.brk THEN "idle" ELSE "check"
      /\ inte' = x.inte
      /\ irq_carry' = IF f.irq THEN irq_carry \/ late ELSE FALSE
      /\ irq' = (x.inte /\ (irq \/ IF f.irq THEN ~late ELSE irq_carry))
  BY DEF SingleStep, Request
<1>4. /\ DOMAIN ghost' = DOMAIN NoGhost
      /\ ghost'.raised = (ghost.raised \/ f.irq)
      /\ ghost'.owed = (op.name # "di" /\ (ghost.owed \/ (f.irq /\ x.inte)))
  BY DEF SingleStep, IInv, Latched, NoGhost
<1> HIDE DEF f, x, late
<1>5. /\ irq \in BOOLEAN /\ irq_carry \in BOOLEAN
      /\ ghost.raised \in BOOLEAN /\ ghost.owed \in BOOLEAN
      /\ irq => inte /\ ghost.raised
      /\ irq_carry => ghost.raised
      /\ ghost.owed => inte /\ (irq \/ irq_carry)
  BY DEF IInv, Latched
<1>6. {irq, irq_carry, inte}' \subseteq BOOLEAN /\ {ghost.raised, ghost.owed}' \subseteq BOOLEAN
  BY <1>1, <1>2, <1>3, <1>4, <1>5, Zenon
<1>7. irq' => inte' /\ ghost'.raised
  BY <1>3, <1>4, <1>5, Zenon
<1>8. irq_carry' => ghost'.raised
  BY <1>3, <1>4, Zenon
<1>9. ghost'.owed => inte' /\ (irq' \/ irq_carry')
  BY <1>2, <1>3, <1>4, <1>5, Zenon
<1>10. phase' = "idle" => ~irq_carry'
  BY <1>1, <1>3
<1> QED BY <1>4, <1>6, <1>7, <1>8, <1>9, <1>10 DEF Latched

-----------------------------------------------------------------------------
(* One step per action *)

LEMMA FrameSteps ==
  ASSUME IInv, BeginFrame \/ NoInterrupt \/ Acknowledge
  PROVE  IInv'
<1>1. CASE BeginFrame
  <2>1. Position'
    BY <1>1, MachineAssumption DEF IInv, Position, BeginFrame
  <2>2. /\ ghost'.owed = ghost.owed /\ ghost'.raised = ghost.raised
        /\ DOMAIN ghost' = DOMAIN NoGhost
    BY <1>1 DEF BeginFrame, IInv, Latched, NoGhost
  <2>3. Latched'
    BY <1>1, <2>2 DEF IInv, Latched, BeginFrame
  <2> QED BY <2>1, <2>3 DEF IInv
<1>2. CASE NoInterrupt
  BY <1>2 DEF IInv, Position, Latched, NoInterrupt, machine, latch
<1>3. CASE Acknowledge
  <2>1. Position'
    BY <1>3, MachineAssumption DEF IInv, Position, Acknowledge, Rst7Time
  <2>2. /\ ghost'.owed = FALSE /\ ghost'.raised = irq_carry
        /\ DOMAIN ghost' = DOMAIN NoGhost
    BY <1>3 DEF Acknowledge, IInv, Latched, NoGhost
  <2>3. inte' \in BOOLEAN
    <3>1. inte' = [Execute("rst7") EXCEPT !.inte = (ei_pending = 1)].inte
      BY <1>3 DEF Acknowledge
    <3> QED BY <3>1 DEF Execute
  <2>4. irq' = FALSE /\ irq_carry' = irq_carry /\ phase' = "step"
    BY <1>3 DEF Acknowledge
  <2>5. Latched'
    BY <2>2, <2>3, <2>4 DEF IInv, Latched
  <2> QED BY <2>1, <2>5 DEF IInv
<1> QED BY <1>1, <1>2, <1>3

LEMMA IdleSteps ==
  ASSUME IInv, Reset \/ (\E s \in SavedStates : RestoreState(s)) \/ SetFastMode
  PROVE  IInv'
<1>1. phase = "idle" /\ phase' = phase /\ machine' = machine
  BY DEF Reset, RestoreState, SetFastMode, ResetBoard
<1>2. Position'
  BY <1>1 DEF IInv, Position, machine
<1>3. CASE Reset
  <2>1. /\ ghost'.owed = FALSE /\ ghost'.raised = FALSE
        /\ DOMAIN ghost' = DOMAIN NoGhost
    BY <1>3 DEF Reset, IInv, Latched, NoGhost
  <2>2. irq' = FALSE /\ inte' = FALSE /\ irq_carry' = irq_carry
    BY <1>3 DEF Reset, ResetBoard
  <2> QED BY <1>1, <1>2, <2>1, <2>2 DEF IInv, Latched
<1>4. ASSUME NEW s \in SavedStates, RestoreState(s) PROVE IInv'
  <2>1. /\ ghost'.owed = s.irq /\ ghost'.raised = s.irq
        /\ DOMAIN ghost' = DOMAIN NoGhost
    BY <1>4 DEF RestoreState, IInv, Latched, NoGhost
  <2>2. /\ s.irq \in BOOLEAN /\ s.inte \in BOOLEAN /\ s.irq_carry = FALSE
        /\ s.irq => s.inte
    BY DEF SavedStates
  <2>3. irq' = s.irq /\ inte' = s.inte /\ irq_carry' = s.irq_carry
    BY <1>4 DEF RestoreState
  <2> QED BY <1>1, <1>2, <2>1, <2>2, <2>3 DEF IInv, Latched
<1>5. CASE SetFastMode
  <2>1. /\ ghost'.owed = ghost.owed /\ ghost'.raised = ghost.raised
        /\ DOMAIN ghost' = DOMAIN NoGhost
    BY <1>5 DEF SetFastMode, IInv, Latched, NoGhost
  <2>2. irq' = irq /\ inte' = inte /\ irq_carry' = irq_carry
    BY <1>5 DEF SetFastMode, latch
  <2> QED BY <1>1, <1>2, <2>1, <2>2 DEF IInv, Latched
<1> QED BY <1>3, <1>4, <1>5

LEMMA NextInv == IInv /\ [Next]_vars => IInv'
<1> SUFFICES ASSUME IInv, [Next]_vars PROVE IInv'
  OBVIOUS
<1>1. ASSUME NEW op \in Instructions, SingleStep(op)
      PROVE  IInv'
  BY <1>1, PositionStep, LatchedStep DEF IInv
<1>2. CASE BeginFrame \/ NoInterrupt \/ Acknowledge
  BY <1>2, FrameSteps
<1>3. CASE Reset \/ (\E s \in SavedStates : RestoreState(s)) \/ SetFastMode
  BY <1>3, IdleSteps
<1>4. CASE UNCHANGED vars
  BY <1>4 DEF vars, machine, latch, IInv, Position, Latched
<1> QED BY <1>1, <1>2, <1>3, <1>4 DEF Next

(* The invariant holds whatever the machine's geometry: in particular no       *)
(* request is carried over the end of a frame, where BeginFrame would lose it. *)
THEOREM Invariant == Spec => []IInv
BY InitInv, NextInv, PTL DEF Spec

(* D65.2 for every geometry: a request needs INTE high and a frame interrupt   *)
(* since the last acknowledge, and one that came with INTE high stays until it *)
(* is acknowledged, withdrawn by a DI or reset away.                           *)
THEOREM RequestLatchHolds == Spec => []RequestLatch
<1>1. IInv => RequestLatch
  BY DEF IInv, Latched, RequestLatch
<1> QED BY <1>1, Invariant, PTL

-----------------------------------------------------------------------------
(* The CPU's part: INTE, EI's delay and HLT, relative to IInv *)

\* An enabled CPU has no EI pending, and INTE is high only when the CPU is
\* enabled or the EI that raised it still pends.
Enabled ==
  /\ iff \in BOOLEAN /\ ei_pending \in {0, 1}
  /\ iff => ei_pending = 0
  /\ inte => iff \/ ei_pending = 1

\* Where PC stands, between two instructions.
Returned ==
  /\ halted \in BOOLEAN
  /\ last_opcode \in {"none", "other", "ei", "di", "hlt", "out"}
  /\ last_opcode = "ei" => ei_pending = 1
  /\ phase # "step" /\ last_opcode # "none" => (halted <=> last_opcode = "hlt")

\* A request that waits is in irq at the latest after the next instruction.
Served ==
  /\ ghost.waited \in 0..2
  /\ ghost.waited > 0 => inte /\ iff
  /\ ghost.waited = 1 => irq \/ irq_carry
  /\ ghost.waited = 2 => irq
  /\ phase = "step" => ghost.waited # 2

CpuInv == Enabled /\ Returned /\ Served /\ fast \in BOOLEAN

LEMMA ExecuteFacts ==
  ASSUME Enabled, inte \in BOOLEAN, NEW name
  PROVE  LET x == Execute(name) IN
         /\ x.iff \in BOOLEAN /\ x.ei_pending \in {0, 1}
         /\ x.iff => x.ei_pending = 0
         /\ x.inte => x.iff \/ x.ei_pending = 1
         /\ name = "ei" => x.ei_pending = 1
         /\ name \notin {"ei", "di"} /\ inte /\ iff => x.inte /\ x.iff
<1> DEFINE x == Execute(name)
<1>1. CASE name = "ei"
  <2>1. x.iff = (FALSE \/ EIDelay = 1)
    BY <1>1, Zenon DEF Execute
  <2>2. x.inte = (TRUE \/ EIDelay = 1)
    BY <1>1, Zenon DEF Execute
  <2>3. x.ei_pending = 1
    BY <1>1 DEF Execute, AfterEI, EIDelay
  <2>4. EIDelay # 1
    BY DEF EIDelay
  <2> HIDE DEF x
  <2>5. x.iff = FALSE /\ x.inte = TRUE
    BY <2>1, <2>2, <2>4, Zenon
  <2> QED BY <1>1, <2>3, <2>5, Zenon DEF x
<1>2. CASE name = "di"
  <2>1. x.iff = (FALSE \/ 0 = 1) /\ x.inte = (FALSE \/ 0 = 1)
    <3>1. name # "ei"
      BY <1>2
    <3> QED BY <1>2, <3>1, Zenon DEF Execute
  <2>2. x.ei_pending = 0 /\ 0 # 1
    BY <1>2 DEF Execute, AfterEI
  <2> HIDE DEF x
  <2>3. x.iff = FALSE /\ x.inte = FALSE
    BY <2>1, <2>2, Zenon
  <2>4. name # "ei"
    BY <1>2
  <2> QED BY <1>2, <2>2, <2>3, <2>4, Zenon DEF x
<1>3. CASE name \notin {"ei", "di"}
  <2>1. x.iff = (iff \/ ei_pending = 1) /\ x.inte = (inte \/ ei_pending = 1)
    BY <1>3, Zenon DEF Execute
  <2>2. x.ei_pending = 0
    BY <1>3 DEF Execute, AfterEI, Enabled
  <2> HIDE DEF x
  <2>3. x.iff \in BOOLEAN /\ (x.inte => x.iff)
    <3>1. iff \in BOOLEAN /\ (inte => iff \/ ei_pending = 1)
      BY DEF Enabled
    <3> QED BY <2>1, <3>1, Zenon
  <2>4. inte /\ iff => x.inte /\ x.iff
    BY <2>1, Zenon
  <2> QED BY <1>3, <2>2, <2>3, <2>4 DEF x
<1> QED BY <1>1, <1>2, <1>3

LEMMA OpName ==
  ASSUME NEW op \in Instructions
  PROVE  op.name \in {"other", "ei", "di", "hlt", "out"}
BY DEF Instructions, Op

LEMMA InitCpu == Init => CpuInv
<1> SUFFICES ASSUME Init PROVE CpuInv
  OBVIOUS
<1>1. Enabled /\ fast \in BOOLEAN
  BY DEF Init, Enabled
<1>2. Returned
  BY DEF Init, Returned
<1>3. Served
  <2>1. ghost.waited = 0
    BY DEF Init, NoGhost
  <2> QED BY <2>1 DEF Served
<1> QED BY <1>1, <1>2, <1>3 DEF CpuInv

LEMMA EnabledStep ==
  ASSUME IInv, CpuInv, NEW op \in Instructions, SingleStep(op)
  PROVE  Enabled' /\ Returned'
<1> DEFINE x == Execute(op.name)
<1>1. /\ iff' = x.iff /\ inte' = x.inte /\ ei_pending' = x.ei_pending
      /\ last_opcode' = op.name /\ halted' = (op.name = "hlt")
  BY DEF SingleStep
<1>2. Enabled /\ inte \in BOOLEAN
  BY DEF IInv, CpuInv, Latched
<1>3. /\ x.iff \in BOOLEAN /\ x.ei_pending \in {0, 1}
      /\ x.iff => x.ei_pending = 0
      /\ x.inte => x.iff \/ x.ei_pending = 1
      /\ op.name = "ei" => x.ei_pending = 1
  BY <1>2, ExecuteFacts
<1>4. op.name \in {"other", "ei", "di", "hlt", "out"}
  BY OpName
<1> HIDE DEF x
<1>5. Enabled'
  BY <1>1, <1>3 DEF Enabled
<1>6. halted' \in BOOLEAN /\ (halted' <=> last_opcode' = "hlt")
  BY <1>1, Zenon
<1>7. Returned'
  BY <1>1, <1>3, <1>4, <1>6 DEF Returned
<1> QED BY <1>5, <1>7

LEMMA ServedStep ==
  ASSUME IInv, CpuInv, NEW op \in Instructions, SingleStep(op)
  PROVE  Served'
<1> DEFINE f    == Fill(4 * StepTime(op.v), op.name = "out")
           x    == Execute(op.name)
           late == f.irq_clk > Threshold(op.cyc)
           w    == ghost'.waited
<1>1. f.irq \in BOOLEAN
  BY StepFill, FillFacts DEF IInv, SingleStep
<1>2. Enabled /\ inte \in BOOLEAN
  BY DEF IInv, CpuInv, Latched
<1>3. op.name \notin {"ei", "di"} /\ inte /\ iff => x.inte /\ x.iff
  BY <1>2, ExecuteFacts
<1>4. /\ phase = "step" /\ phase' \in {"idle", "check"}
      /\ inte' = x.inte /\ iff' = x.iff
      /\ irq_carry' = IF f.irq THEN irq_carry \/ late ELSE FALSE
      /\ irq' = (x.inte /\ (irq \/ IF f.irq THEN ~late ELSE irq_carry))
  BY DEF SingleStep, Request
<1>5. w = IF op.name \in {"ei", "di"} THEN 0
          ELSE IF f.irq THEN (IF x.inte /\ x.iff THEN 1 ELSE 0)
          ELSE IF ghost.waited > 0 THEN ghost.waited + 1 ELSE 0
  BY DEF SingleStep, IInv, Latched, NoGhost
<1>6. /\ ghost.waited \in {0, 1}
      /\ ghost.waited = 1 => inte /\ iff /\ (irq \/ irq_carry)
  BY <1>4 DEF CpuInv, Served
<1>7. irq \in BOOLEAN /\ irq_carry \in BOOLEAN
  BY DEF IInv, Latched
<1> HIDE DEF f, x, late, w
<1>8. CASE op.name \in {"ei", "di"} \/ (~f.irq /\ ghost.waited = 0)
  <2>1. w = 0
    BY <1>5, <1>6, <1>8
  <2> QED BY <2>1, <1>4 DEF Served, w
<1>9. CASE op.name \notin {"ei", "di"} /\ f.irq
  <2>1. w = IF x.inte /\ x.iff THEN 1 ELSE 0
    BY <1>5, <1>9
  <2>2. x.inte => irq' \/ irq_carry'
    BY <1>4, <1>9, Zenon
  <2>3. CASE x.inte /\ x.iff
    <3>1. w = 1 /\ inte' /\ iff' /\ (irq' \/ irq_carry')
      BY <1>4, <2>1, <2>2, <2>3
    <3> QED BY <3>1, <1>4 DEF Served, w
  <2>4. CASE ~(x.inte /\ x.iff)
    <3>1. w = 0
      BY <2>1, <2>4
    <3> QED BY <3>1, <1>4 DEF Served, w
  <2> QED BY <2>3, <2>4
<1>10. CASE op.name \notin {"ei", "di"} /\ ~f.irq /\ ghost.waited = 1
  <2>1. w = 2
    BY <1>5, <1>10
  <2>2. x.inte /\ x.iff /\ (irq \/ irq_carry)
    BY <1>3, <1>6, <1>10
  <2>3. inte' /\ iff' /\ irq'
    BY <1>4, <1>10, <2>2, Zenon
  <2> QED BY <2>1, <2>3, <1>4 DEF Served, w
<1>11. CASE op.name \notin {"ei", "di"} /\ ~f.irq
  <2>1. ghost.waited = 0 \/ ghost.waited = 1
    BY <1>6
  <2> QED BY <1>8, <1>10, <1>11, <2>1
<1> QED BY <1>8, <1>9, <1>11

LEMMA CpuStep == IInv /\ CpuInv /\ [Next]_vars => CpuInv'
<1> SUFFICES ASSUME IInv, CpuInv, [Next]_vars PROVE CpuInv'
  OBVIOUS
<1>1. CASE BeginFrame
  <2>1. ghost'.waited = ghost.waited
    BY <1>1 DEF BeginFrame, IInv, Latched, NoGhost
  <2> QED BY <1>1, <2>1 DEF BeginFrame, CpuInv, Enabled, Returned, Served, IInv, Latched
<1>2. CASE NoInterrupt
  BY <1>2 DEF NoInterrupt, CpuInv, Enabled, Returned, Served, machine, latch
<1>3. CASE Acknowledge
  <2> DEFINE x == Execute("rst7")
  <2>1. ghost'.waited = 0
    BY <1>3 DEF Acknowledge, IInv, Latched, NoGhost
  <2>2. /\ iff /\ ei_pending = 0
        /\ phase' = "step" /\ halted' = FALSE /\ last_opcode' = last_opcode
        /\ iff' = x.iff /\ inte' = (ei_pending = 1) /\ ei_pending' = x.ei_pending
        /\ fast' = fast
    BY <1>3 DEF Acknowledge, CpuInv, Enabled, Execute
  <2>3. x.iff \in BOOLEAN /\ x.ei_pending \in {0, 1} /\ (x.iff => x.ei_pending = 0)
    BY ExecuteFacts DEF CpuInv, IInv, Latched
  <2> HIDE DEF x
  <2>4. inte' = FALSE
    <3>1. 0 # 1
      OBVIOUS
    <3> QED BY <2>2, <3>1, Zenon
  <2>5. Enabled'
    BY <2>2, <2>3, <2>4 DEF Enabled
  <2>6. Returned'
    <3>1. last_opcode # "ei" /\ last_opcode \in {"none", "other", "ei", "di", "hlt", "out"}
      BY <2>2 DEF CpuInv, Returned
    <3> QED BY <2>2, <3>1 DEF Returned
  <2>7. Served'
    BY <2>1 DEF Served
  <2> QED BY <2>2, <2>5, <2>6, <2>7 DEF CpuInv
<1>4. ASSUME NEW op \in Instructions, SingleStep(op) PROVE CpuInv'
  BY <1>4, EnabledStep, ServedStep DEF CpuInv, SingleStep
<1>5. CASE Reset
  <2>1. ghost'.waited = 0
    BY <1>5 DEF Reset, IInv, Latched, NoGhost
  <2>2. Enabled' /\ Served'
    BY <1>5, <2>1 DEF Reset, ResetBoard, CpuInv, Enabled, Served
  <2>3. Returned'
    BY <1>5 DEF Reset, ResetBoard, Returned
  <2> QED BY <1>5, <2>2, <2>3 DEF Reset, ResetBoard, CpuInv
<1>6. ASSUME NEW s \in SavedStates, RestoreState(s) PROVE CpuInv'
  <2>1. ghost'.waited = 0
    BY <1>6 DEF RestoreState, IInv, Latched, NoGhost
  <2>2. /\ s.iff \in BOOLEAN /\ s.ei_pending \in {0, 1} /\ s.halted \in BOOLEAN
        /\ s.iff => s.ei_pending = 0
        /\ s.inte => s.iff \/ s.ei_pending = 1
    BY DEF SavedStates
  <2> QED BY <1>6, <2>1, <2>2 DEF RestoreState, CpuInv, Enabled, Returned, Served
<1>7. CASE SetFastMode
  <2>1. ghost'.waited = ghost.waited
    BY <1>7 DEF SetFastMode, IInv, Latched, NoGhost
  <2> QED BY <1>7, <2>1 DEF SetFastMode, CpuInv, Enabled, Returned, Served, latch
<1>8. CASE UNCHANGED vars
  BY <1>8 DEF vars, machine, latch, CpuInv, Enabled, Returned, Served
<1> QED BY <1>1, <1>2, <1>3, <1>4, <1>5, <1>6, <1>7, <1>8 DEF Next

(* What INTE, EI's delay and a HLT leave behind holds at every step.           *)
THEOREM CpuInvariant == Spec => [](IInv /\ CpuInv)
BY InitInv, NextInv, InitCpu, CpuStep, PTL DEF Spec

(* Every variable keeps its range, the beam stands within the frame, and what  *)
(* a frame leaves to the worker is always a state a state file can carry:      *)
(* nothing of irq_carry or of an EI about to take effect is cut off.           *)
THEOREM TypeCorrect == Spec => []TypeOK
<1>1. IInv /\ CpuInv => TypeOK
  <2> SUFFICES ASSUME IInv, CpuInv PROVE TypeOK
    OBVIOUS
  <2>1. ASSUME phase = "idle" PROVE State \in SavedStates
    BY <2>1 DEF IInv, CpuInv, Latched, Enabled, Returned, State, SavedStates
  <2> QED BY <2>1 DEF IInv, CpuInv, Position, Latched, Enabled, Returned, TypeOK
<1> QED BY <1>1, CpuInvariant, PTL

(* A request is taken at the end of the instruction it came in or of the next  *)
(* one, for every geometry of the frame and wherever a frame ends in between.  *)
THEOREM ServedPromptly == Spec => []PromptService
<1>1. CpuInv => PromptService
  BY DEF CpuInv, Served, PromptService
<1> QED BY <1>1, CpuInvariant, PTL

(* No interrupt comes between EI and the instruction behind it, and one taken  *)
(* in a HLT, and only in a HLT, returns behind it.                             *)
THEOREM ReturnsBehind == Spec => ReturnAddress
<1>1. CpuInv /\ Acknowledge =>
        /\ last_opcode # "ei"
        /\ last_opcode # "none" => (halted <=> last_opcode = "hlt")
  BY DEF CpuInv, Enabled, Returned, Acknowledge
<1> QED BY <1>1, CpuInvariant, PTL DEF ReturnAddress

-----------------------------------------------------------------------------
(* The beam, in both modes of the filler.  Counted says that inside a frame    *)
(* the events met are exactly those behind the beam, and that between two      *)
(* frames the beam stands in the first MaxFill clocks of line 0.  The step     *)
(* that matters is SingleStep: whether the filler goes pixel by pixel or jumps *)
(* to the end of a line, it reports a clock if and only if the beam was before *)
(* it and is not any more (FillMeets).  Both parts are relative to IInv.       *)

Counted ==
  /\ phase = "idle" => /\ raster_line = 0 /\ raster_pixel < MaxFill
                       /\ ghost.vsyncs \in 0..1 /\ ghost.scrolls \in 0..1
  /\ phase # "idle" => /\ ghost.vsyncs = (IF Beam >= IrqClock THEN 1 ELSE 0)
                       /\ ghost.scrolls = (IF Beam >= ScrollClock THEN 1 ELSE 0)

Drawn ==
  /\ {ghost.lostAck, fast, between0} \subseteq BOOLEAN
  /\ ~fast /\ ~ghost.lostAck =>
       ghost.lag = IF phase = "step" /\ ~between0 THEN 4 * instr_time ELSE 0

-----------------------------------------------------------------------------
\* The sizes of the frame's parts, and where its two events are.
LEMMA Geometry ==
  /\ Lines \in Nat /\ Lines >= 3 /\ LineClocks \in Nat /\ LineClocks > MaxFill
  /\ MaxFill = 160
  /\ IrqClock \in Nat /\ IrqClock >= MaxFill /\ IrqClock < LineClocks
  /\ ScrollLine \in 1..(Lines - 2) /\ ScrollLine * LineClocks \in Nat
  /\ ScrollClock \in Nat
  /\ ScrollClock > ScrollLine * LineClocks
  /\ ScrollClock < (ScrollLine + 1) * LineClocks
  /\ ScrollClock > MaxFill
<1>1. /\ Lines \in Nat /\ Lines >= 3 /\ LineClocks \in Nat /\ LineClocks > MaxFill
      /\ MaxFill = 160 /\ ScrollLine \in 1..(Lines - 2)
      /\ IrqPixel \in 1..(LineClocks - 1) /\ ScrollPixel \in 1..(LineClocks - 1)
      /\ IrqPixel >= MaxFill
  BY MachineAssumption DEF MaxFill, Rst7Time
<1>2. PICK k \in Nat : ScrollLine = k + 1
  BY <1>1
<1>3. /\ ScrollLine * LineClocks = k * LineClocks + LineClocks
      /\ (ScrollLine + 1) * LineClocks = k * LineClocks + 2 * LineClocks
      /\ k * LineClocks \in Nat
  BY <1>1, <1>2
<1> QED BY <1>1, <1>3 DEF IrqClock, ScrollClock

\* Where the beam is tells the line, and the other way round.
LEMMA BeamOfLine ==
  ASSUME Position, NEW l \in Nat
  PROVE  /\ raster_line <= l => Beam < (l + 1) * LineClocks
         /\ raster_line >= l => Beam >= l * LineClocks
<1>1. /\ raster_line \in Nat /\ raster_pixel \in Nat /\ raster_pixel < LineClocks
      /\ LineClocks \in Nat
  BY Geometry DEF Position
<1>2. (l + 1) * LineClocks = l * LineClocks + LineClocks
  BY <1>1
<1>3. ASSUME raster_line <= l PROVE Beam < (l + 1) * LineClocks
  <2>1. raster_line * LineClocks <= l * LineClocks
    BY <1>1, <1>3, MulMono
  <2>2. raster_line * LineClocks \in Nat /\ l * LineClocks \in Nat
    BY <1>1
  <2> QED BY <1>1, <1>2, <2>1, <2>2 DEF Beam
<1>4. ASSUME raster_line >= l PROVE Beam >= l * LineClocks
  <2>1. l * LineClocks <= raster_line * LineClocks
    BY <1>1, <1>4, MulMono
  <2>2. raster_line * LineClocks \in Nat /\ l * LineClocks \in Nat
    BY <1>1
  <2> QED BY <1>1, <2>1, <2>2 DEF Beam
<1> QED BY <1>3, <1>4

-----------------------------------------------------------------------------
(* What one instruction's fill() meets *)

\* A jump stays on its line or stops at the start of the next.
LEMMA JumpBounds ==
  ASSUME Position, NEW n \in Nat, NEW out \in BOOLEAN, Jumps(out)
  PROVE  LET to == Advance(n, out) IN
         /\ raster_line \in 1..(Lines - 2) /\ raster_line # ScrollLine
         /\ to \in Nat /\ Beam <= to /\ to <= (raster_line + 1) * LineClocks
<1>1. raster_line \in 1..(Lines - 2) /\ raster_line # ScrollLine
  BY Geometry DEF Position, Jumps, EventLine
<1>2. /\ raster_line \in Nat /\ raster_pixel \in Nat /\ raster_pixel < LineClocks
      /\ LineClocks \in Nat /\ raster_line * LineClocks \in Nat
      /\ (raster_line + 1) * LineClocks = raster_line * LineClocks + LineClocks
  BY Geometry DEF Position
<1>3. Advance(n, out) = IF raster_pixel + n >= LineClocks
                        THEN (raster_line + 1) * LineClocks ELSE Beam + n
  BY DEF Advance
<1> QED BY <1>1, <1>2, <1>3 DEF Beam

LEMMA FillMeets ==
  ASSUME Position, NEW n \in Nat, n <= MaxFill, NEW out \in BOOLEAN
  PROVE  LET to == Advance(n, out)
             f  == Fill(n, out) IN
         /\ to \in Nat /\ Beam <= to /\ to < Frame + MaxFill
         /\ f.irq \in BOOLEAN /\ f.scroll \in BOOLEAN
         /\ f.irq <=> Beam < IrqClock /\ IrqClock <= to
         /\ f.scroll <=> Beam < ScrollClock /\ ScrollClock <= to
<1> DEFINE to == Advance(n, out)
           f  == Fill(n, out)
<1>1. f.irq = (~Jumps(out) /\ Passes(IrqClock, to - Beam))
  BY Zenon DEF Fill
<1>2. f.scroll = (~Jumps(out) /\ Passes(ScrollClock, to - Beam))
  BY Zenon DEF Fill
<1>3. f.irq \in BOOLEAN /\ f.scroll \in BOOLEAN
  BY <1>1, <1>2, Zenon
<1>4. Beam \in Nat /\ Beam < Frame /\ Frame \in Nat /\ Frame >= 3 * LineClocks
  BY BeamInFrame, FrameSize
<1> HIDE DEF f
<1>5. CASE Jumps(out)
  <2>1. /\ raster_line \in 1..(Lines - 2) /\ raster_line # ScrollLine
        /\ to \in Nat /\ Beam <= to /\ to <= (raster_line + 1) * LineClocks
    BY <1>5, JumpBounds
  <2>2. ~f.irq /\ ~f.scroll
    BY <1>1, <1>2, <1>5, Zenon
  <2>3. to < Frame
    <3>1. PICK k \in Nat : Lines = raster_line + 1 + 1 + k
      BY <2>1, Geometry
    <3>2. /\ Frame = (raster_line + 1) * LineClocks + LineClocks + k * LineClocks
          /\ k * LineClocks \in Nat
      BY <3>1, <2>1, Geometry DEF Frame
    <3>3. (raster_line + 1) * LineClocks \in Nat /\ LineClocks \in Nat /\ LineClocks > 0
      BY <2>1, Geometry
    <3> HIDE DEF to
    <3> QED BY <2>1, <3>2, <3>3
  <2>4. Beam >= IrqClock
    <3>1. raster_line >= 1 /\ 1 \in Nat
      BY <2>1
    <3>2. Beam >= 1 * LineClocks
      BY <3>1, BeamOfLine
    <3> QED BY <3>2, <1>4, Geometry
  <2>5. Beam >= ScrollClock \/ to < ScrollClock
    <3>1. CASE raster_line > ScrollLine
      <4>1. ScrollLine + 1 \in Nat /\ raster_line >= ScrollLine + 1
        BY <2>1, <3>1, Geometry
      <4>2. Beam >= (ScrollLine + 1) * LineClocks
        BY <4>1, BeamOfLine
      <4>3. ScrollClock < (ScrollLine + 1) * LineClocks /\ ScrollClock \in Nat
            /\ (ScrollLine + 1) * LineClocks \in Nat
        BY <4>1, Geometry
      <4> QED BY <4>2, <4>3, <1>4
    <3>2. CASE raster_line < ScrollLine
      <4>1. raster_line + 1 \in Nat /\ ScrollLine \in Nat /\ raster_line + 1 <= ScrollLine
        BY <2>1, <3>2, Geometry
      <4>2. (raster_line + 1) * LineClocks <= ScrollLine * LineClocks
        BY <4>1, MulMono, Geometry
      <4>3. (raster_line + 1) * LineClocks \in Nat /\ ScrollLine * LineClocks \in Nat
        BY <4>1, Geometry
      <4> HIDE DEF to
      <4> QED BY <2>1, <4>2, <4>3, Geometry
    <3> QED BY <2>1, <3>1, <3>2, Geometry
  <2> HIDE DEF to
  <2>6. to < Frame + MaxFill
    BY <2>1, <2>3, <1>4, Geometry
  <2>7. /\ ~(Beam < IrqClock /\ IrqClock <= to)
        /\ ~(Beam < ScrollClock /\ ScrollClock <= to)
    BY <2>1, <2>4, <2>5, <1>4, Geometry
  <2> QED BY <1>3, <2>1, <2>2, <2>6, <2>7 DEF f, to
<1>6. CASE ~Jumps(out)
  <2>1. to = Beam + n
    BY <1>6 DEF Advance
  <2>2. f.irq = Passes(IrqClock, to - Beam) /\ f.scroll = Passes(ScrollClock, to - Beam)
    <3>1. Passes(IrqClock, to - Beam) \in BOOLEAN /\ Passes(ScrollClock, to - Beam) \in BOOLEAN
      BY Zenon DEF Passes
    <3> QED BY <1>1, <1>2, <1>6, <3>1, Zenon
  <2> HIDE DEF to
  <2>3. to \in Nat /\ Beam <= to /\ to < Frame + MaxFill /\ to - Beam = n
    BY <2>1, <1>4, Geometry
  <2>4. ASSUME NEW e \in Nat, e >= MaxFill
        PROVE  Passes(e, to - Beam) <=> Beam < e /\ e <= to
    <3>1. ~(e + Frame <= Beam + (to - Beam))
      BY <2>3, <2>4, <1>4, Geometry
    <3>2. e + 0 = e /\ Beam + (to - Beam) = to
      BY <2>3, <2>4, <1>4
    <3> QED BY <3>1, <3>2, Zenon DEF Passes
  <2>5. IrqClock \in Nat /\ IrqClock >= MaxFill /\ ScrollClock \in Nat /\ ScrollClock >= MaxFill
    BY Geometry
  <2>6. Passes(IrqClock, to - Beam) <=> Beam < IrqClock /\ IrqClock <= to
    BY <2>4, <2>5
  <2>7. Passes(ScrollClock, to - Beam) <=> Beam < ScrollClock /\ ScrollClock <= to
    BY <2>4, <2>5
  <2>8. f.irq <=> Beam < IrqClock /\ IrqClock <= to
    BY <2>2, <2>6, Zenon
  <2>9. f.scroll <=> Beam < ScrollClock /\ ScrollClock <= to
    BY <2>2, <2>7, Zenon
  <2> QED BY <1>3, <2>3, <2>8, <2>9 DEF f, to
<1> QED BY <1>5, <1>6

\* Where the counters are afterwards.
LEMMA FillLands ==
  ASSUME Position, NEW n \in Nat, n <= MaxFill, NEW out \in BOOLEAN
  PROVE  LET to == Advance(n, out)
             f  == Fill(n, out) IN
         /\ f.brk \in BOOLEAN /\ (f.brk <=> to >= Frame)
         /\ f.brk => f.line = 0 /\ f.pixel < MaxFill
         /\ ~f.brk => f.line * LineClocks + f.pixel = to
<1> DEFINE to == Advance(n, out)
           f  == Fill(n, out)
<1>1. to \in Nat /\ Beam <= to /\ to < Frame + MaxFill
  BY FillMeets
<1>2. /\ f.line = (to % Frame) \div LineClocks /\ f.pixel = to % LineClocks
  BY DEF Fill
<1>3. f.brk = (to >= Frame)
  BY DEF Fill
<1> HIDE DEF f, to
<1>4. Frame \in Nat /\ Frame >= 3 * LineClocks /\ LineClocks \in Nat /\ LineClocks > MaxFill
      /\ Lines \in Nat
  BY FrameSize, Geometry
<1>5. f.brk \in BOOLEAN /\ (f.brk <=> to >= Frame)
  <2>1. f.brk \in BOOLEAN
    BY <1>1, <1>3, <1>4
  <2> QED BY <1>3, <2>1
<1>6. ASSUME to >= Frame PROVE f.line = 0 /\ f.pixel < MaxFill
  <2>1. PICK r \in Nat : to = Frame + r /\ r < MaxFill
    BY <1>1, <1>4, <1>6, Geometry
  <2>2. to % Frame = r
    <3>1. r < Frame /\ Frame > 0 /\ 1 \in Nat /\ to = 1 * Frame + r
      BY <2>1, <1>4, Geometry
    <3> QED BY <3>1, <1>4, DivModUnique
  <2>3. r \div LineClocks = 0
    <3>1. r = 0 * LineClocks + r /\ r < LineClocks /\ 0 \in Nat
      BY <2>1, <1>4, Geometry
    <3> QED BY <3>1, <1>4, DivModUnique, Geometry
  <2>4. to % LineClocks = r
    <3>1. to = Lines * LineClocks + r /\ r < LineClocks
      BY <2>1, <1>4, Geometry DEF Frame
    <3> QED BY <3>1, <1>4, DivModUnique, Geometry
  <2> QED BY <1>2, <2>1, <2>2, <2>3, <2>4
<1>7. ASSUME to < Frame PROVE f.line * LineClocks + f.pixel = to
  <2>1. to % Frame = to
    BY <1>1, <1>4, <1>7
  <2>2. f.line = to \div LineClocks
    BY <1>2, <2>1
  <2>3. to = (to \div LineClocks) * LineClocks + (to % LineClocks)
    BY <1>1, <1>4, DivModSum, Geometry
  <2>4. f.pixel = to % LineClocks
    BY <1>2
  <2> QED BY <2>2, <2>3, <2>4
<1> QED BY <1>1, <1>4, <1>5, <1>6, <1>7 DEF f, to

-----------------------------------------------------------------------------
(* The invariant *)

LEMMA InitBeam == Init => Counted /\ Drawn
<1> SUFFICES ASSUME Init PROVE Counted /\ Drawn
  OBVIOUS
<1>1. /\ ghost.vsyncs = 0 /\ ghost.scrolls = 0 /\ ghost.lag = 0 /\ ghost.lostAck = FALSE
  BY DEF Init, NoGhost
<1>2. phase = "idle" /\ raster_line = 0 /\ raster_pixel = 0 /\ between0 = TRUE
      /\ fast \in BOOLEAN
  BY DEF Init
<1>3. Counted
  BY <1>1, <1>2, Geometry DEF Counted
<1> QED BY <1>1, <1>2, <1>3 DEF Drawn

\* One instruction.
LEMMA CountedStep ==
  ASSUME IInv, Counted, NEW op \in Instructions, SingleStep(op)
  PROVE  Counted'
<1> DEFINE n   == 4 * StepTime(op.v)
           out == op.name = "out"
           to  == Advance(n, out)
           f   == Fill(n, out)
<1>1. Position /\ Position' /\ phase = "step" /\ n \in Nat /\ n <= MaxFill /\ out \in BOOLEAN
  BY StepFill, PositionStep DEF IInv, SingleStep
<1>2. /\ to \in Nat /\ Beam <= to /\ to < Frame + MaxFill
      /\ f.irq \in BOOLEAN /\ f.scroll \in BOOLEAN
      /\ f.irq <=> Beam < IrqClock /\ IrqClock <= to
      /\ f.scroll <=> Beam < ScrollClock /\ ScrollClock <= to
  BY <1>1, FillMeets
<1>3. /\ f.brk \in BOOLEAN /\ (f.brk <=> to >= Frame)
      /\ f.brk => f.line = 0 /\ f.pixel < MaxFill
      /\ ~f.brk => f.line * LineClocks + f.pixel = to
  BY <1>1, FillLands
<1>4. /\ phase' = IF f.brk THEN "idle" ELSE "check"
      /\ raster_line' = f.line /\ raster_pixel' = f.pixel
  BY DEF SingleStep
<1>5. /\ ghost'.vsyncs = IF f.irq THEN ghost.vsyncs + 1 ELSE ghost.vsyncs
      /\ ghost'.scrolls = IF f.scroll THEN ghost.scrolls + 1 ELSE ghost.scrolls
  BY DEF SingleStep, IInv, Latched, NoGhost
<1>6. /\ ghost.vsyncs = (IF Beam >= IrqClock THEN 1 ELSE 0)
      /\ ghost.scrolls = (IF Beam >= ScrollClock THEN 1 ELSE 0)
  BY <1>1 DEF Counted
<1>7. /\ Beam \in Nat /\ Beam < Frame /\ Frame \in Nat
      /\ IrqClock \in Nat /\ ScrollClock \in Nat
  BY <1>1, BeamInFrame, FrameSize, Geometry
<1> HIDE DEF n, out, to, f
<1>8. /\ ghost'.vsyncs = (IF to >= IrqClock THEN 1 ELSE 0)
      /\ ghost'.scrolls = (IF to >= ScrollClock THEN 1 ELSE 0)
  BY <1>2, <1>5, <1>6, <1>7
<1>9. CASE f.brk
  BY <1>3, <1>4, <1>8, <1>9 DEF Counted
<1>10. CASE ~f.brk
  <2>1. Beam' = to
    BY <1>3, <1>4, <1>10 DEF Beam
  <2>2. IrqClock' = IrqClock /\ ScrollClock' = ScrollClock
    BY DEF IrqClock, ScrollClock
  <2>3. phase' = "check"
    BY <1>4, <1>10
  <2> QED BY <1>8, <2>1, <2>2, <2>3 DEF Counted
<1> QED BY <1>3, <1>9, <1>10

LEMMA LeastOfTwo ==
  ASSUME NEW a \in Int, NEW b \in Int, a <= b
  PROVE  Least({a, b}) = a
BY DEF Least

LEMMA DrawnStep ==
  ASSUME IInv, Drawn, NEW op \in Instructions, SingleStep(op)
  PROVE  Drawn'
<1> DEFINE n   == 4 * StepTime(op.v)
           out == op.name = "out"
           f   == Fill(n, out)
<1>1. Position /\ phase = "step" /\ n \in Nat /\ out \in BOOLEAN /\ op.v \in Nat
  BY StepFill, OpTime DEF IInv, SingleStep
<1>2. /\ ghost'.lag = Least({ghost.lag + 4 * op.v - f.moved, 16})
      /\ ghost'.lostAck = ghost.lostAck
  BY DEF SingleStep, IInv, Latched, NoGhost
<1>3. between0' = FALSE /\ fast' = fast /\ phase' # "step"
  BY DEF SingleStep
<1>4. {ghost.lostAck, fast, between0} \subseteq BOOLEAN
  BY DEF Drawn
<1>5. ASSUME ~fast, ~ghost.lostAck PROVE ghost'.lag = 0
  <2>1. ghost.lag = IF between0 THEN 0 ELSE 4 * instr_time
    BY <1>1, <1>4, <1>5 DEF Drawn
  <2>2. f.moved = (Beam + n) - Beam
    BY <1>5 DEF Fill, Advance, Jumps
  <2>3. Beam \in Nat
    BY <1>1, BeamInFrame
  <2>4. f.moved = n
    BY <1>1, <2>2, <2>3
  <2>5. n = 4 * op.v + (IF between0 THEN 0 ELSE 4 * instr_time) /\ instr_time \in Nat
    BY <1>1 DEF StepTime, Position
  <2>6. ghost.lag + 4 * op.v - f.moved = 0
    BY <1>1, <2>1, <2>4, <2>5
  <2>7. Least({0, 16}) = 0
    BY LeastOfTwo
  <2> QED BY <1>2, <2>6, <2>7
<1> QED BY <1>2, <1>3, <1>4, <1>5 DEF Drawn

LEMMA BeamStep == IInv /\ Counted /\ Drawn /\ [Next]_vars => (Counted /\ Drawn)'
<1> SUFFICES ASSUME IInv, Counted, Drawn, [Next]_vars PROVE (Counted /\ Drawn)'
  OBVIOUS
<1> USE DEF IInv, Latched
<1>1. CASE BeginFrame
  <2>1. /\ ghost'.vsyncs = 0 /\ ghost'.scrolls = 0
        /\ ghost'.lag = 0 /\ ghost'.lostAck = FALSE
    BY <1>1 DEF BeginFrame, NoGhost
  <2>2. /\ phase' = "check" /\ raster_line' = 0 /\ raster_pixel' = raster_pixel
        /\ fast' = fast /\ between0' = TRUE /\ raster_pixel < MaxFill /\ raster_pixel \in Nat
    BY <1>1 DEF BeginFrame, Counted, Position
  <2>3. Beam' < IrqClock' /\ Beam' < ScrollClock' /\ Beam' \in Nat
        /\ IrqClock' \in Nat /\ ScrollClock' \in Nat
    BY <2>2, Geometry DEF Beam, IrqClock, ScrollClock
  <2>4. Counted'
    BY <2>1, <2>2, <2>3 DEF Counted
  <2> QED BY <2>1, <2>2, <2>4 DEF Drawn
<1>2. CASE NoInterrupt
  <2>1. /\ Beam' = Beam /\ IrqClock' = IrqClock /\ ScrollClock' = ScrollClock
        /\ ghost' = ghost /\ phase = "check" /\ phase' = "step"
        /\ fast' = fast /\ between0' = between0 /\ instr_time' = instr_time
    BY <1>2 DEF NoInterrupt, machine, Beam, IrqClock, ScrollClock
  <2>2. ~between0 => instr_time = 0
    BY <2>1 DEF Position
  <2> QED BY <2>1, <2>2 DEF Counted, Drawn
<1>3. CASE Acknowledge
  <2>1. /\ ghost'.vsyncs = ghost.vsyncs /\ ghost'.scrolls = ghost.scrolls
        /\ ghost'.lag = ghost.lag + 4 * Rst7Time
        /\ ghost'.lostAck = (ghost.lostAck \/ between0)
    BY <1>3 DEF Acknowledge, NoGhost
  <2>2. /\ Beam' = Beam /\ IrqClock' = IrqClock /\ ScrollClock' = ScrollClock
        /\ phase = "check" /\ phase' = "step"
        /\ fast' = fast /\ between0' = between0 /\ instr_time' = instr_time + Rst7Time
    BY <1>3 DEF Acknowledge, Beam, IrqClock, ScrollClock
  <2>3. Counted'
    BY <2>1, <2>2 DEF Counted
  <2>4. {ghost'.lostAck, fast', between0'} \subseteq BOOLEAN
    BY <2>1, <2>2, Zenon DEF Drawn
  <2>5. ASSUME ~fast', ~ghost'.lostAck PROVE ~between0' /\ ghost'.lag = 4 * instr_time'
    <3>1. ~fast /\ ~ghost.lostAck /\ ~between0
      BY <2>1, <2>2, <2>5, Zenon
    <3>2. ghost.lag = 0 /\ instr_time = 0
      BY <2>2, <3>1 DEF Drawn, Position
    <3> QED BY <2>1, <2>2, <3>1, <3>2 DEF Rst7Time
  <2> QED BY <2>2, <2>3, <2>4, <2>5 DEF Drawn
<1>4. ASSUME NEW op \in Instructions, SingleStep(op) PROVE (Counted /\ Drawn)'
  BY <1>4, CountedStep, DrawnStep
<1>5. CASE Reset \/ (\E s \in SavedStates : RestoreState(s))
  <2>1. /\ ghost'.vsyncs = ghost.vsyncs /\ ghost'.scrolls = ghost.scrolls
        /\ ghost'.lag = ghost.lag /\ ghost'.lostAck = ghost.lostAck
    BY <1>5, ZenonT(30) DEF Reset, RestoreState, NoGhost
  <2>2. /\ phase = "idle" /\ phase' = "idle" /\ fast' = fast /\ machine' = machine
    BY <1>5 DEF Reset, RestoreState, ResetBoard
  <2> QED BY <2>1, <2>2 DEF Counted, Drawn, machine
<1>6. CASE SetFastMode
  <2>1. /\ ghost'.vsyncs = ghost.vsyncs /\ ghost'.scrolls = ghost.scrolls
        /\ ghost'.lag = 0 /\ ghost'.lostAck = ghost.lostAck
    BY <1>6 DEF SetFastMode, NoGhost
  <2>2. /\ phase = "idle" /\ phase' = "idle" /\ fast' = ~fast /\ machine' = machine
    BY <1>6 DEF SetFastMode
  <2>3. fast' \in BOOLEAN
    BY <2>2
  <2> QED BY <2>1, <2>2, <2>3 DEF Counted, Drawn, machine
<1>7. CASE UNCHANGED vars
  <2>1. Beam' = Beam /\ IrqClock' = IrqClock /\ ScrollClock' = ScrollClock
    BY <1>7 DEF vars, machine, Beam, IrqClock, ScrollClock
  <2> QED BY <1>7, <2>1 DEF vars, machine, Counted, Drawn
<1> QED BY <1>1, <1>2, <1>3, <1>4, <1>5, <1>6, <1>7 DEF Next

(* Inside a frame the counters of both events follow from the beam's place,    *)
(* whichever filler drew it.                                                   *)
THEOREM BeamInvariant == Spec => [](IInv /\ Counted /\ Drawn)
BY InitInv, NextInv, InitBeam, BeamStep, PTL DEF Spec

(* Both fillers, for every geometry: a frame raises one interrupt request and  *)
(* loads the scroll register once, whatever instructions straddle the pixels   *)
(* or the end of the frame before.                                             *)
THEOREM EventsOncePerFrame == Spec => []OncePerFrame
<1>1. IInv /\ Counted => OncePerFrame
  <2> SUFFICES ASSUME IInv, Counted PROVE OncePerFrame
    OBVIOUS
  <2>1. Position /\ phase \in {"idle", "check", "step"} /\ raster_line \in Nat
    BY DEF IInv, Position
  <2>2. CASE phase = "idle"
    BY <2>1, <2>2, Geometry DEF Counted, OncePerFrame
  <2>3. CASE phase # "idle"
    <3>1. Beam \in Nat /\ IrqClock \in Nat /\ ScrollClock \in Nat
      BY <2>1, BeamInFrame, Geometry
    <3>2. ASSUME raster_line > 0 PROVE Beam >= IrqClock
      <4>1. Beam >= 1 * LineClocks
        BY <2>1, <3>2, BeamOfLine
      <4> QED BY <3>1, <4>1, Geometry
    <3>3. ASSUME raster_line > ScrollLine PROVE Beam >= ScrollClock
      <4>1. ScrollLine + 1 \in Nat /\ raster_line >= ScrollLine + 1
        BY <2>1, <3>3, Geometry
      <4>2. Beam >= (ScrollLine + 1) * LineClocks
        BY <2>1, <4>1, BeamOfLine
      <4>3. (ScrollLine + 1) * LineClocks \in Nat /\ ScrollClock < (ScrollLine + 1) * LineClocks
        BY <4>1, Geometry
      <4> QED BY <3>1, <4>2, <4>3
    <3> QED BY <2>3, <3>1, <3>2, <3>3 DEF Counted, OncePerFrame
  <2> QED BY <2>2, <2>3
<1> QED BY <1>1, BeamInvariant, PTL

(* The raster filler draws exactly the clocks the CPU executes, over every     *)
(* line end and frame end.                                                     *)
THEOREM BeamKeepsUp == Spec => []BeamFollowsCpu
<1>1. Drawn => BeamFollowsCpu
  BY DEF Drawn, BeamFollowsCpu
<1> QED BY <1>1, BeamInvariant, PTL

-----------------------------------------------------------------------------
(***************************************************************************)
(* The CPU that steps the board, for every memory, paging, boot ROM and    *)
(* program: CpuTypes, CpuFlags, CpuAddsDecimally and CpuStackComesBack.    *)
(*                                                                         *)
(* CpuTyped is inductive for every opcode, because every operator that     *)
(* yields a machine keeps to Machines: bytes, words and flags of their     *)
(* width, and a memory that is a function from places to bytes.  What the  *)
(* other three theorems say of one instruction, or of a few in a row,      *)
(* holds of every member of Machines, so no behaviour has to be followed.  *)
(***************************************************************************)
CONSTANTS Values, Controls, BootSizes, Stacks, Inputs, MaxSteps
VARIABLES cpu, steps

C == INSTANCE Cpu

Cells == 0..(5 * 2^16 - 1)
Pagings == [stack : BOOLEAN, map : SUBSET (5..7), page_map : 1..4, page_stack : 1..4]
Memories == UNION {[D -> C!Byte] : D \in SUBSET Cells}
Registers == [0..7 -> C!Byte]

\* The machine between two instructions, and within one.
Machines ==
  [r : Registers, s : 0..1, z : 0..1, h : 0..1, p : 0..1, c : 0..1, sp : C!Word,
   pc : C!Word, op : C!Byte, cyc : Nat, v : Nat, iff : BOOLEAN, inte : BOOLEAN,
   ei_pending : 0..2, paging : Pagings, boot : Nat, bytes : Memories]

-----------------------------------------------------------------------------
(* Words, bits and bytes *)

LEMMA BitIsBit ==
  ASSUME NEW x \in Int, NEW i \in 0..8
  PROVE  C!Bit(x, i) \in 0..1
<1>1. CASE i = 0 BY <1>1 DEF C!Bit
<1>2. CASE i = 1 BY <1>2 DEF C!Bit
<1>3. CASE i = 2 BY <1>3 DEF C!Bit
<1>4. CASE i = 3 BY <1>4 DEF C!Bit
<1>5. CASE i = 4 BY <1>5 DEF C!Bit
<1>6. CASE i = 5 BY <1>6 DEF C!Bit
<1>7. CASE i = 6 BY <1>7 DEF C!Bit
<1>8. CASE i = 7 BY <1>8 DEF C!Bit
<1>9. CASE i = 8 BY <1>9 DEF C!Bit
<1> QED BY <1>1, <1>2, <1>3, <1>4, <1>5, <1>6, <1>7, <1>8, <1>9

LEMMA ByteOf ==
  ASSUME NEW w \in Int
  PROVE  C!Lo(w) \in C!Byte /\ C!Hi(w) \in C!Byte
  BY DEF C!Lo, C!Hi, C!Byte

LEMMA BytesOfPair ==
  ASSUME NEW a \in C!Byte, NEW b \in C!Byte
  PROVE  /\ 256 * a + b \in C!Word
         /\ C!Hi(256 * a + b) = a /\ C!Lo(256 * a + b) = b
  BY DEF C!Lo, C!Hi, C!Byte, C!Word

LEMMA PairOfBytes ==
  ASSUME NEW w \in C!Word
  PROVE  256 * C!Hi(w) + C!Lo(w) = w
  BY DEF C!Lo, C!Hi, C!Byte, C!Word

LEMMA TruthIsBit == \A b : C!Truth(b) \in 0..1
  BY DEF C!Truth

LEMMA OctetIsByte == \A S : C!Octet(S) \in C!Byte
<1>1. \A i, S : C!Truth(i \in S) \in 0..1
  BY TruthIsBit
<1> QED BY <1>1 DEF C!Octet, C!Byte

-----------------------------------------------------------------------------
(* Memory *)

LEMMA PagingIsPaging ==
  ASSUME NEW w \in C!Byte
  PROVE  C!Paging(w) \in Pagings
  BY DEF C!Paging, Pagings, C!Byte

\* Where an access lands before the planes are interleaved: at its own address
\* in the main memory or in one of the four pages.
LEMMA BankAddress ==
  ASSUME NEW pg \in Pagings, NEW addr \in Int, NEW rq \in BOOLEAN
  PROVE  /\ C!Bank(pg, addr, rq) \in Cells
         /\ C!Bank(pg, addr, rq) % 65536 = addr % 65536
<1> DEFINE a == addr % 65536
<1>1. a \in Int /\ 0 <= a /\ a < 65536
  OBVIOUS
<1>2. \E k \in 0..4 : C!Bank(pg, addr, rq) = a + 65536 * k
  BY DEF C!Bank, Pagings
<1> HIDE DEF a
<1>3. PICK k \in 0..4 : C!Bank(pg, addr, rq) = a + 65536 * k
  BY <1>2
<1>4. (a + 65536 * k) \in Cells /\ (a + 65536 * k) % 65536 = a
  BY <1>1 DEF Cells
<1> QED BY <1>3, <1>4 DEF a

\* Interleaving keeps to the page and is one to one.
LEMMA PlanesOneToOne ==
  ASSUME NEW a \in Cells, NEW b \in Cells
  PROVE  /\ C!ToBank(a) \in Cells
         /\ C!ToBank(a) \div 65536 = a \div 65536
         /\ C!ToBank(a) = C!ToBank(b) => a = b
<1>1. C!ToBank(a) \in Cells
  BY DEF C!ToBank, Cells
<1>2. C!ToBank(a) \div 65536 = a \div 65536
  BY DEF C!ToBank, Cells
<1>3. C!ToBank(a) = C!ToBank(b) => a = b
  BY DEF C!ToBank, Cells
<1> QED BY <1>1, <1>2, <1>3

LEMMA ReadIsByte ==
  ASSUME NEW x \in Machines, NEW addr \in Int, NEW rq \in BOOLEAN
  PROVE  C!Read(x, addr, rq) \in C!Byte
<1>1. PICK D \in SUBSET Cells : x.bytes \in [D -> C!Byte]
  BY DEF Machines, Memories
<1>2. C!BootByte \in C!Byte /\ 0 \in C!Byte
  BY DEF C!BootByte, C!Byte
<1> QED BY <1>1, <1>2 DEF C!Read

\* y is x with another memory.
Rewritten(x, y) == y = [x EXCEPT !.bytes = y.bytes]

\* A write changes one cell of the memory and nothing else.
LEMMA WriteIsMachine ==
  ASSUME NEW x \in Machines, NEW addr \in Int, NEW rq \in BOOLEAN, NEW val \in C!Byte
  PROVE  LET y == C!Write(x, addr, val, rq) IN
         y \in Machines /\ Rewritten(x, y)
<1> DEFINE at == C!ToBank(C!Bank(x.paging, addr, rq))
           m == [a \in DOMAIN x.bytes \cup {at} |-> IF a = at THEN val ELSE x.bytes[a]]
<1>1. at \in Cells
  BY BankAddress, PlanesOneToOne DEF Machines
<1>2. PICK D \in SUBSET Cells : x.bytes \in [D -> C!Byte]
  BY DEF Machines, Memories
<1> HIDE DEF at
<1>3. m \in [D \cup {at} -> C!Byte] /\ D \cup {at} \in SUBSET Cells
  BY <1>1, <1>2
<1>4. m \in Memories
  BY <1>3 DEF Memories
<1>5. C!Write(x, addr, val, rq) = [x EXCEPT !.bytes = m]
  BY DEF C!Write, at
<1> HIDE DEF m
<1> QED BY <1>4, <1>5 DEF Machines, Rewritten

LEMMA ReadWordIsWord ==
  ASSUME NEW x \in Machines, NEW addr \in Int, NEW rq \in BOOLEAN
  PROVE  C!ReadWord(x, addr, rq) \in C!Word
<1>1. C!Read(x, addr, rq) \in C!Byte /\ C!Read(x, addr + 1, rq) \in C!Byte
  BY ReadIsByte
<1> QED BY <1>1 DEF C!ReadWord, C!Byte, C!Word

LEMMA WriteWordIsMachine ==
  ASSUME NEW x \in Machines, NEW addr \in Int, NEW rq \in BOOLEAN, NEW w \in Int
  PROVE  LET y == C!WriteWord(x, addr, w, rq) IN
         y \in Machines /\ Rewritten(x, y)
<1> DEFINE z == C!Write(x, addr, C!Lo(w), rq)
           next == addr + 1
           y == C!Write(z, next, C!Hi(w), rq)
<1>0. next \in Int /\ C!Hi(w) \in C!Byte /\ C!Lo(w) \in C!Byte
  BY ByteOf
<1>1. z \in Machines /\ Rewritten(x, z)
  BY <1>0, WriteIsMachine
<1>3. C!WriteWord(x, addr, w, rq) = y
  BY DEF C!WriteWord
<1> HIDE DEF z, next
<1>2. y \in Machines /\ Rewritten(z, y)
  BY <1>0, <1>1, WriteIsMachine
<1> HIDE DEF y
<1> QED BY <1>1, <1>2, <1>3 DEF Machines, Rewritten

-----------------------------------------------------------------------------
(* Registers *)

LEMMA MachineFields ==
  ASSUME NEW x \in Machines
  PROVE  /\ x.sp \in C!Word /\ x.pc \in C!Word /\ x.op \in C!Byte
         /\ \A i \in 0..7 : x.r[i] \in C!Byte
         /\ x.s \in 0..1 /\ x.z \in 0..1 /\ x.h \in 0..1 /\ x.p \in 0..1 /\ x.c \in 0..1
  BY DEF Machines, Registers

LEMMA WordIsInt == \A w \in C!Word : w \in Int /\ 0 <= w /\ w < 65536
  BY DEF C!Word

LEMMA ByteIsInt == \A b \in C!Byte : b \in Int /\ 0 <= b /\ b < 256
  BY DEF C!Byte

LEMMA WrappedIsWord == \A n \in Int : n % 65536 \in C!Word
  BY DEF C!Word

LEMMA RegisterIsMachine ==
  ASSUME NEW x \in Machines, NEW i \in 0..7, NEW v \in C!Byte
  PROVE  [x EXCEPT !.r[i] = v] \in Machines
  BY DEF Machines, Registers

LEMMA PairIsWord ==
  ASSUME NEW x \in Machines, NEW p \in 0..3
  PROVE  C!Pair(x, p) \in C!Word
<1>1. x.sp \in C!Word /\ \A i \in 0..7 : x.r[i] \in C!Byte
  BY DEF Machines, Registers
<1>2. 2 * p + 1 \in 0..7 /\ 2 * p \in 0..7
  OBVIOUS
<1>3. x.r[2 * p] \in C!Byte /\ x.r[2 * p + 1] \in C!Byte
  BY <1>1, <1>2
<1> QED BY <1>1, <1>3, BytesOfPair DEF C!Pair

LEMMA SetPairIsMachine ==
  ASSUME NEW x \in Machines, NEW p \in 0..3, NEW w \in Int
  PROVE  C!SetPair(x, p, w) \in Machines
<1>1. CASE p = 3
  <2>1. w % 65536 \in C!Word
    BY DEF C!Word
  <2> QED BY <1>1, <2>1 DEF C!SetPair, Machines
<1>2. CASE p # 3
  <2> DEFINE i == 2 * p
             j == 2 * p + 1
             y == [x EXCEPT !.r[i] = C!Hi(w)]
  <2>1. i \in 0..7 /\ j \in 0..7 /\ C!Hi(w) \in C!Byte /\ C!Lo(w) \in C!Byte
    BY <1>2, ByteOf
  <2>2. C!SetPair(x, p, w) = [y EXCEPT !.r[j] = C!Lo(w)]
    BY <1>2 DEF C!SetPair
  <2> HIDE DEF i, j
  <2>3. y \in Machines
    BY <2>1, RegisterIsMachine
  <2> HIDE DEF y
  <2> QED BY <2>1, <2>2, <2>3, RegisterIsMachine
<1> QED BY <1>1, <1>2

LEMMA GetIsByte ==
  ASSUME NEW x \in Machines, NEW i \in 0..7
  PROVE  C!Get(x, i) \in C!Byte
<1>1. C!Pair(x, 2) \in Int
  BY PairIsWord DEF C!Word
<1>2. C!Read(x, C!Pair(x, 2), FALSE) \in C!Byte
  BY <1>1, ReadIsByte
<1>3. x.r[i] \in C!Byte
  BY DEF Machines, Registers
<1> QED BY <1>2, <1>3 DEF C!Get, C!HL

LEMMA PutIsMachine ==
  ASSUME NEW x \in Machines, NEW i \in 0..7, NEW v \in C!Byte
  PROVE  C!Put(x, i, v) \in Machines
<1>1. C!Pair(x, 2) \in Int
  BY PairIsWord DEF C!Word
<1>2. C!Write(x, C!Pair(x, 2), v, FALSE) \in Machines
  BY <1>1, WriteIsMachine
<1>3. [x EXCEPT !.r = [x.r EXCEPT ![i] = v]] \in Machines
  BY DEF Machines, Registers
<1> QED BY <1>2, <1>3 DEF C!Put, C!HL, Machines

LEMMA AIsByte ==
  ASSUME NEW x \in Machines
  PROVE  C!A(x) \in C!Byte
  BY DEF C!A, Machines, Registers

LEMMA SkipIsMachine ==
  ASSUME NEW x \in Machines, NEW n \in Int
  PROVE  C!Skip(x, n) \in Machines
<1>1. (x.pc + n) % 65536 \in C!Word
  BY MachineFields, WordIsInt, WrappedIsWord
<1> QED BY <1>1 DEF C!Skip, Machines

LEMMA JumpIsMachine ==
  ASSUME NEW x \in Machines, NEW w \in C!Word
  PROVE  [x EXCEPT !.pc = w] \in Machines /\ [x EXCEPT !.sp = w] \in Machines
  BY DEF Machines

LEMMA DataAreData ==
  ASSUME NEW x \in Machines
  PROVE  C!Data8(x) \in C!Byte /\ C!Data16(x) \in C!Word
<1>1. x.pc \in Int
  BY MachineFields, WordIsInt
<1> QED BY <1>1, ReadIsByte, ReadWordIsWord DEF C!Data8, C!Data16

LEMMA PushIsMachine ==
  ASSUME NEW x \in Machines, NEW w \in Int
  PROVE  C!Push(x, w) \in Machines
<1> DEFINE sp == (x.sp - 2) % 65536
           z == [x EXCEPT !.sp = sp]
           y == C!WriteWord(z, sp, w, TRUE)
<1>1. sp \in C!Word /\ sp \in Int
  BY MachineFields, WordIsInt, WrappedIsWord
<1> HIDE DEF sp
<1>2. z \in Machines
  BY <1>1, JumpIsMachine
<1> HIDE DEF z
<1>3. y \in Machines
  BY <1>1, <1>2, WriteWordIsMachine
<1>4. C!Push(x, w) = y
  BY DEF C!Push, sp, z
<1> QED BY <1>3, <1>4

LEMMA PopIsMachine ==
  ASSUME NEW x \in Machines
  PROVE  C!Popped(x) \in C!Word /\ C!Drop(x) \in Machines
<1>1. x.sp \in Int /\ (x.sp + 2) % 65536 \in C!Word
  BY MachineFields, WordIsInt, WrappedIsWord
<1>2. C!Popped(x) \in C!Word
  <2> DEFINE sp == x.sp
  <2>1. sp \in Int /\ C!Popped(x) = C!ReadWord(x, sp, TRUE)
    BY <1>1 DEF C!Popped
  <2> HIDE DEF sp
  <2>2. C!ReadWord(x, sp, TRUE) \in C!Word
    BY <2>1, ReadWordIsWord
  <2> QED BY <2>1, <2>2
<1>3. C!Drop(x) \in Machines
  BY <1>1 DEF C!Drop, Machines
<1> QED BY <1>2, <1>3

LEMMA RetIsMachine ==
  ASSUME NEW x \in Machines
  PROVE  C!Ret(x) \in Machines
  BY PopIsMachine, JumpIsMachine DEF C!Ret

LEMMA CallIsMachine ==
  ASSUME NEW x \in Machines
  PROVE  C!Call(x) \in Machines
<1> DEFINE w == (x.pc + 2) % 65536
           y == C!Push(x, w)
<1>1. w \in Int
  BY MachineFields, WordIsInt
<1>3. C!Call(x) = [y EXCEPT !.pc = C!Data16(y)]
  BY DEF C!Call
<1> HIDE DEF w
<1>2. y \in Machines
  BY <1>1, PushIsMachine
<1> HIDE DEF y
<1> QED BY <1>2, <1>3, DataAreData, JumpIsMachine

-----------------------------------------------------------------------------
(* Flags and arithmetic *)

LEMMA FlaggedIsMachine ==
  ASSUME NEW x \in Machines, NEW res \in C!Byte, NEW h \in 0..1
  PROVE  C!Flagged(x, res, h) \in Machines
<1>1. C!Bit(res, 7) \in 0..1 /\ C!Truth(res = 0) \in 0..1 /\ C!Parity(res) \in 0..1
  BY ByteIsInt, BitIsBit, TruthIsBit DEF C!Parity
<1> QED BY <1>1 DEF C!Flagged, Machines

LEMMA TablesHoldBits ==
  ASSUME NEW i \in 0..7
  PROVE  C!HalfCarryTable[i + 1] \in 0..1 /\ 1 - C!SubHalfCarryTable[i + 1] \in 0..1
  BY DEF C!HalfCarryTable, C!SubHalfCarryTable

LEMMA IndexIsSmall ==
  ASSUME NEW a \in Int, NEW val \in Int, NEW res \in Int
  PROVE  C!Index(a, val, res) \in 0..7
<1>1. C!Bit(a, 3) \in 0..1 /\ C!Bit(val, 3) \in 0..1 /\ C!Bit(res, 3) \in 0..1
  BY BitIsBit
<1> QED BY <1>1 DEF C!Index

LEMMA SumIsMachine ==
  ASSUME NEW x \in Machines, NEW val \in C!Byte, NEW c \in 0..1
  PROVE  C!Sum(x, val, c) \in Machines
<1> DEFINE w == C!A(x) + val + c
           res == w % 256
           h == C!HalfCarryTable[C!Index(C!A(x), val, w) + 1]
           y == C!Flagged(C!Put(x, 7, res), res, h)
<1>1. w \in Int /\ C!A(x) \in Int /\ val \in Int
  BY AIsByte, ByteIsInt
<1>2. C!Sum(x, val, c) = [y EXCEPT !.c = C!Bit(w, 8)]
  BY DEF C!Sum
<1> HIDE DEF w
<1>3. res \in C!Byte
  BY <1>1 DEF C!Byte
<1>4. h \in 0..1
  BY <1>1, IndexIsSmall, TablesHoldBits
<1> HIDE DEF res, h
<1>5. C!Put(x, 7, res) \in Machines
  BY <1>3, PutIsMachine
<1>6. y \in Machines
  BY <1>3, <1>4, <1>5, FlaggedIsMachine
<1> HIDE DEF y
<1>7. C!Bit(w, 8) \in 0..1
  BY <1>1, BitIsBit
<1> QED BY <1>2, <1>6, <1>7 DEF Machines

LEMMA CompareIsMachine ==
  ASSUME NEW x \in Machines, NEW val \in C!Byte, NEW c \in 0..1
  PROVE  C!Compare(x, val, c) \in Machines
<1> DEFINE w == (C!A(x) - val - c) % 65536
           res == w % 256
           h == 1 - C!SubHalfCarryTable[C!Index(C!A(x), val, w) + 1]
           y == C!Flagged(x, res, h)
<1>1. w \in Int /\ C!A(x) \in Int /\ val \in Int
  BY AIsByte, ByteIsInt
<1>2. C!Compare(x, val, c) = [y EXCEPT !.c = C!Bit(w, 8)]
  BY DEF C!Compare
<1> HIDE DEF w
<1>3. res \in C!Byte
  BY <1>1 DEF C!Byte
<1>4. h \in 0..1
  BY <1>1, IndexIsSmall, TablesHoldBits
<1> HIDE DEF res, h
<1>5. y \in Machines
  BY <1>3, <1>4, FlaggedIsMachine
<1> HIDE DEF y
<1>7. C!Bit(w, 8) \in 0..1
  BY <1>1, BitIsBit
<1> QED BY <1>2, <1>5, <1>7 DEF Machines

LEMMA DifferenceIsMachine ==
  ASSUME NEW x \in Machines, NEW val \in C!Byte, NEW c \in 0..1
  PROVE  C!Difference(x, val, c) \in Machines
<1> DEFINE res == (C!A(x) - val - c) % 256
<1>1. res \in C!Byte
  BY AIsByte, ByteIsInt DEF C!Byte
<1>2. C!Difference(x, val, c) = C!Put(C!Compare(x, val, c), 7, res)
  BY DEF C!Difference
<1>3. C!Compare(x, val, c) \in Machines /\ 7 \in 0..7
  BY CompareIsMachine
<1> HIDE DEF res
<1> QED BY <1>1, <1>2, <1>3, PutIsMachine

LEMMA LogicIsMachine ==
  ASSUME NEW x \in Machines, NEW res \in C!Byte, NEW h \in 0..1
  PROVE  C!Logic(x, res, h) \in Machines
<1> DEFINE y == C!Flagged(C!Put(x, 7, res), res, h)
<1>1. C!Logic(x, res, h) = [y EXCEPT !.c = 0]
  BY DEF C!Logic
<1>2. y \in Machines
  <2> DEFINE z == C!Put(x, 7, res)
  <2>1. z \in Machines
    BY PutIsMachine
  <2> HIDE DEF z
  <2>2. C!Flagged(z, res, h) \in Machines
    BY <2>1, FlaggedIsMachine
  <2> QED BY <2>2 DEF z
<1> HIDE DEF y
<1> QED BY <1>1, <1>2 DEF Machines

LEMMA AluIsMachine ==
  ASSUME NEW x \in Machines, NEW k \in 0..7, NEW val \in C!Byte
  PROVE  C!Alu(x, k, val) \in Machines
<1>1. x.c \in 0..1 /\ 0 \in 0..1
  BY MachineFields
<1>2. \A S, b : C!Logic(x, C!Octet(S), 0) \in Machines
                /\ C!Logic(x, C!Octet(S), C!Truth(b)) \in Machines
  BY <1>1, LogicIsMachine, OctetIsByte, TruthIsBit
<1>3. CASE k \in {0, 1}
  BY <1>1, <1>3, SumIsMachine DEF C!Alu
<1>4. CASE k \in {2, 3}
  BY <1>1, <1>4, DifferenceIsMachine DEF C!Alu
<1>5. CASE k \in {4, 5, 6}
  BY <1>2, <1>5 DEF C!Alu
<1>6. CASE k = 7
  BY <1>1, <1>6, CompareIsMachine DEF C!Alu
<1> QED BY <1>3, <1>4, <1>5, <1>6

LEMMA InrDcrAreMachines ==
  ASSUME NEW x \in Machines, NEW i \in 0..7
  PROVE  C!Inr(x, i) \in Machines /\ C!Dcr(x, i) \in Machines
<1>1. (C!Get(x, i) + 1) % 256 \in C!Byte /\ (C!Get(x, i) - 1) % 256 \in C!Byte
  BY GetIsByte, ByteIsInt DEF C!Byte
<1>2. \A v \in C!Byte : \A b : C!Flagged(C!Put(x, i, v), v, C!Truth(b)) \in Machines
  BY PutIsMachine, FlaggedIsMachine, TruthIsBit
<1> QED BY <1>1, <1>2 DEF C!Inr, C!Dcr

LEMMA DadIsMachine ==
  ASSUME NEW x \in Machines, NEW w \in C!Word
  PROVE  C!Dad(x, w) \in Machines
<1> DEFINE sum == C!Pair(x, 2) + w
           y == C!SetPair(x, 2, sum % 65536)
<1>1. sum \in Int /\ sum % 65536 \in Int /\ sum \div 65536 \in 0..1
  BY PairIsWord, WordIsInt
<1>2. C!Dad(x, w) = [y EXCEPT !.c = sum \div 65536]
  BY DEF C!Dad, C!HL
<1> HIDE DEF sum
<1>3. y \in Machines
  BY <1>1, SetPairIsMachine
<1> HIDE DEF y
<1> QED BY <1>1, <1>2, <1>3 DEF Machines

LEMMA DaaIsMachine ==
  ASSUME NEW x \in Machines
  PROVE  C!Daa(x) \in Machines
<1>1. \A P, Q : (IF P THEN 6 ELSE 0) + (IF Q THEN 96 ELSE 0) \in C!Byte
  BY DEF C!Byte
<1>2. \A y \in Machines : \A b : [y EXCEPT !.c = C!Truth(b)] \in Machines
  BY TruthIsBit DEF Machines
<1>3. \A v \in C!Byte : C!Sum(x, v, 0) \in Machines
  BY SumIsMachine
<1> QED BY <1>1, <1>2, <1>3 DEF C!Daa

LEMMA PswIsWord ==
  ASSUME NEW x \in Machines
  PROVE  C!Psw(x) \in C!Word
  BY MachineFields, AIsByte DEF C!Psw, C!Word, C!Byte

LEMMA SetPswIsMachine ==
  ASSUME NEW x \in Machines, NEW w \in C!Word
  PROVE  C!SetPsw(x, w) \in Machines
<1> DEFINE h == C!Hi(w)
           y == C!Put(x, 7, h)
           b7 == C!Bit(w, 7)
           b6 == C!Bit(w, 6)
           b4 == C!Bit(w, 4)
           b2 == C!Bit(w, 2)
           b0 == C!Bit(w, 0)
           z == [y EXCEPT !.s = b7, !.z = b6, !.h = b4]
<1>1. h \in C!Byte
  BY WordIsInt, ByteOf
<1>2. b7 \in 0..1 /\ b6 \in 0..1 /\ b4 \in 0..1 /\ b2 \in 0..1 /\ b0 \in 0..1
  BY WordIsInt, BitIsBit
<1>3. C!SetPsw(x, w) = [z EXCEPT !.p = b2, !.c = b0]
  BY DEF C!SetPsw
<1> HIDE DEF h, b7, b6, b4, b2, b0
<1>4. y \in Machines
  BY <1>1, PutIsMachine
<1> HIDE DEF y
<1>5. z \in Machines
  BY <1>2, <1>4 DEF Machines
<1> HIDE DEF z
<1> QED BY <1>2, <1>3, <1>5 DEF Machines

-----------------------------------------------------------------------------
(* Instructions *)

\* The machine after an instruction of a length that Machine knows.
Done(y) == y \in Machines /\ <<y.cyc, y.v>> \in C!Timings

LEMMA TookIsDone ==
  ASSUME NEW x \in Machines
  PROVE  /\ Done(C!Took(x, 4, 4)) /\ Done(C!Took(x, 5, 8)) /\ Done(C!Took(x, 7, 8))
         /\ Done(C!Took(x, 10, 12)) /\ Done(C!Took(x, 11, 12)) /\ Done(C!Took(x, 11, 16))
         /\ Done(C!Took(x, 13, 16)) /\ Done(C!Took(x, 16, 20)) /\ Done(C!Took(x, 17, 24))
         /\ Done(C!Took(x, 18, 24))
<1>1. ASSUME NEW cyc \in Nat, NEW v \in Nat, <<cyc, v>> \in C!Timings
      PROVE  Done(C!Took(x, cyc, v))
  BY <1>1 DEF Done, C!Took, Machines
<1>2. {<<4, 4>>, <<5, 8>>, <<7, 8>>, <<10, 12>>, <<11, 12>>, <<11, 16>>,
       <<13, 16>>, <<16, 20>>, <<17, 24>>, <<18, 24>>} \subseteq C!Timings
  BY DEF C!Timings
<1> QED BY <1>1, <1>2

LEMMA PairImmediateIsDone ==
  ASSUME NEW x \in Machines, NEW y \in 0..7
  PROVE  Done(C!PairImmediate(x, y))
<1>1. y \div 2 \in 0..3
  OBVIOUS
<1>2. C!Skip(x, 2) \in Machines /\ C!Data16(x) \in Int
  BY SkipIsMachine, DataAreData, WordIsInt
<1>3. C!SetPair(C!Skip(x, 2), y \div 2, C!Data16(x)) \in Machines
  BY <1>1, <1>2, SetPairIsMachine
<1>4. C!Dad(x, C!Pair(x, y \div 2)) \in Machines
  BY <1>1, PairIsWord, DadIsMachine
<1> QED BY <1>3, <1>4, TookIsDone DEF C!PairImmediate

LEMMA LoadStoreIsDone ==
  ASSUME NEW x \in Machines, NEW y \in 0..7
  PROVE  Done(C!LoadStore(x, y))
<1> DEFINE p == y \div 2
           at == C!Data16(x)
<1>0. \A z \in Machines : C!Skip(z, 2) \in Machines
  BY SkipIsMachine
<1>1. at \in Int /\ C!A(x) \in C!Byte /\ C!Pair(x, 2) \in Int /\ 2 \in 0..3 /\ 7 \in 0..7
  BY DataAreData, AIsByte, PairIsWord, WordIsInt
<1>2. \A a \in Int : C!Write(x, a, C!A(x), FALSE) \in Machines
  BY <1>1, WriteIsMachine
<1>3. \A a \in Int : C!Put(x, 7, C!Read(x, a, FALSE)) \in Machines
  BY <1>1, ReadIsByte, PutIsMachine
<1>4. CASE y \in {0, 1, 2, 3}
  <2>1. C!Pair(x, p) \in Int
    BY <1>4, PairIsWord, WordIsInt
  <2> HIDE DEF at
  <2>2. CASE y \in {0, 2}
    <3>1. C!LoadStore(x, y) = C!Took(C!Write(x, C!Pair(x, p), C!A(x), FALSE), 7, 8)
      <4>1. y \notin {1, 3} /\ y # 4 /\ y # 5 /\ y # 6 /\ y # 7
        BY <2>2
      <4> QED BY <2>2, <4>1, Zenon DEF C!LoadStore
    <3> QED BY <1>2, <2>1, <3>1, TookIsDone
  <2>3. CASE y \in {1, 3}
    <3>1. C!LoadStore(x, y) = C!Took(C!Put(x, 7, C!Read(x, C!Pair(x, p), FALSE)), 7, 8)
      <4>1. y \notin {0, 2} /\ y # 4 /\ y # 5 /\ y # 6 /\ y # 7
        BY <2>3
      <4> QED BY <2>3, <4>1, Zenon DEF C!LoadStore
    <3> QED BY <1>3, <2>1, <3>1, TookIsDone
  <2> QED BY <1>4, <2>2, <2>3
<1> HIDE DEF at
<1>5. CASE y = 4
  <2>1. C!LoadStore(x, y) = C!Took(C!Skip(C!WriteWord(x, at, C!Pair(x, 2), FALSE), 2), 16, 20)
    BY <1>5 DEF C!LoadStore, at, C!HL
  <2>2. C!WriteWord(x, at, C!Pair(x, 2), FALSE) \in Machines
    BY <1>1, WriteWordIsMachine
  <2> QED BY <1>0, <2>1, <2>2, TookIsDone
<1>6. CASE y = 5
  <2>1. C!LoadStore(x, y) = C!Took(C!Skip(C!SetPair(x, 2, C!ReadWord(x, at, FALSE)), 2), 16, 20)
    BY <1>6 DEF C!LoadStore, at, C!HL
  <2> DEFINE w == C!ReadWord(x, at, FALSE)
  <2>2. w \in C!Word
    BY <1>1, ReadWordIsWord
  <2>3. C!SetPair(x, 2, w) \in Machines
    <3> HIDE DEF w
    <3>1. w \in Int
      BY <2>2, WordIsInt
    <3> QED BY <1>1, <3>1, SetPairIsMachine
  <2> QED BY <1>0, <2>1, <2>3, TookIsDone
<1>7. CASE y = 6
  <2>1. C!LoadStore(x, y) = C!Took(C!Skip(C!Write(x, at, C!A(x), FALSE), 2), 13, 16)
    BY <1>7 DEF C!LoadStore, at
  <2> QED BY <1>0, <1>1, <1>2, <2>1, TookIsDone
<1>8. CASE y = 7
  <2>1. C!LoadStore(x, y) = C!Took(C!Skip(C!Put(x, 7, C!Read(x, at, FALSE)), 2), 13, 16)
    BY <1>8 DEF C!LoadStore, at
  <2> QED BY <1>0, <1>1, <1>3, <2>1, TookIsDone
<1> QED BY <1>4, <1>5, <1>6, <1>7, <1>8

LEMMA PairCountIsDone ==
  ASSUME NEW x \in Machines, NEW y \in 0..7
  PROVE  Done(C!PairCount(x, y))
<1> DEFINE w == C!Pair(x, y \div 2) + (IF y % 2 = 0 THEN 1 ELSE -1)
           p == y \div 2
<1>1. p \in 0..3 /\ w \in Int
  BY PairIsWord, WordIsInt
<1>2. C!PairCount(x, y) = C!Took(C!SetPair(x, p, w), 5, 8)
  BY DEF C!PairCount
<1> HIDE DEF w, p
<1> QED BY <1>1, <1>2, SetPairIsMachine, TookIsDone

LEMMA CountsAreDone ==
  ASSUME NEW x \in Machines, NEW y \in 0..7
  PROVE  Done(C!Count(x, y)) /\ Done(C!CountDown(x, y))
  BY InrDcrAreMachines, TookIsDone DEF C!Count, C!CountDown

LEMMA MoveImmediateIsDone ==
  ASSUME NEW x \in Machines, NEW y \in 0..7
  PROVE  Done(C!MoveImmediate(x, y))
<1>1. C!Put(C!Skip(x, 1), y, C!Data8(x)) \in Machines
  <2>1. C!Skip(x, 1) \in Machines
    BY SkipIsMachine
  <2>2. C!Data8(x) \in C!Byte
    BY DataAreData
  <2> QED BY <2>1, <2>2, PutIsMachine
<1> QED BY <1>1, TookIsDone DEF C!MoveImmediate

LEMMA AccumulatorIsDone ==
  ASSUME NEW x \in Machines, NEW y \in 0..7
  PROVE  Done(C!Accumulator(x, y))
<1> DEFINE a == C!A(x)
<1>1. /\ a \in C!Byte /\ a \in Int /\ 0 <= a /\ a < 256 /\ x.c \in 0..1
      /\ C!Bit(a, 7) \in 0..1 /\ a % 2 \in 0..1
  BY AIsByte, ByteIsInt, MachineFields, BitIsBit
<1>2. \A v \in C!Byte, b \in 0..1 : [C!Put(x, 7, v) EXCEPT !.c = b] \in Machines
  <2> TAKE v \in C!Byte, b \in 0..1
  <2> DEFINE z == C!Put(x, 7, v)
  <2>1. z \in Machines
    BY PutIsMachine
  <2> HIDE DEF z
  <2>2. [z EXCEPT !.c = b] \in Machines
    BY <2>1 DEF Machines
  <2> QED BY <2>2 DEF z
<1> HIDE DEF a
<1>3. \A in \in 0..1 : ((2 * a) % 256) + in \in C!Byte /\ a \div 2 + 128 * in \in C!Byte
  BY <1>1 DEF C!Byte
<1>4. \A in \in 0..1 :
        /\ Done(C!Took([C!Put(x, 7, ((2 * a) % 256) + in) EXCEPT !.c = C!Bit(a, 7)], 4, 4))
        /\ Done(C!Took([C!Put(x, 7, a \div 2 + 128 * in) EXCEPT !.c = a % 2], 4, 4))
  <2> TAKE in \in 0..1
  <2> DEFINE l == ((2 * a) % 256) + in
             r == a \div 2 + 128 * in
             top == C!Bit(a, 7)
             low == a % 2
             zl == [C!Put(x, 7, l) EXCEPT !.c = top]
             zr == [C!Put(x, 7, r) EXCEPT !.c = low]
  <2>1. l \in C!Byte /\ r \in C!Byte /\ top \in 0..1 /\ low \in 0..1
    BY <1>1, <1>3
  <2> HIDE DEF l, r, top, low
  <2>2. zl \in Machines /\ zr \in Machines
    BY <1>2, <2>1
  <2> HIDE DEF zl, zr
  <2>3. Done(C!Took(zl, 4, 4)) /\ Done(C!Took(zr, 4, 4))
    BY <2>2, TookIsDone
  <2> QED BY <2>3 DEF zl, zr, l, r, top, low
<1>5. CASE y \in {0, 1, 2, 3}
  <2>1. \/ \E in \in 0..1 : C!Accumulator(x, y)
             = C!Took([C!Put(x, 7, ((2 * a) % 256) + in) EXCEPT !.c = C!Bit(a, 7)], 4, 4)
        \/ \E in \in 0..1 : C!Accumulator(x, y)
             = C!Took([C!Put(x, 7, a \div 2 + 128 * in) EXCEPT !.c = a % 2], 4, 4)
    <3>1. CASE y = 0
      BY <1>1, <3>1 DEF C!Accumulator, a
    <3>2. CASE y = 1
      BY <1>1, <3>2 DEF C!Accumulator, a
    <3>3. CASE y = 2
      BY <1>1, <3>3 DEF C!Accumulator, a
    <3>4. CASE y = 3
      <4>1. C!Accumulator(x, y)
            = C!Took([C!Put(x, 7, a \div 2 + 128 * x.c) EXCEPT !.c = a % 2], 4, 4)
        BY <3>4 DEF C!Accumulator, a
      <4> QED BY <1>1, <4>1
    <3> QED BY <1>5, <3>1, <3>2, <3>3, <3>4
  <2> QED BY <1>4, <2>1
<1>6. CASE y = 4
  BY <1>6, DaaIsMachine, TookIsDone DEF C!Accumulator
<1>7. CASE y = 5
  <2>1. 255 - a \in C!Byte
    BY <1>1 DEF C!Byte
  <2> QED BY <1>7, <2>1, PutIsMachine, TookIsDone DEF C!Accumulator, a
<1>8. CASE y \in {6, 7}
  <2>1. [x EXCEPT !.c = 1] \in Machines /\ [x EXCEPT !.c = 1 - @] \in Machines
    BY <1>1 DEF Machines
  <2> QED BY <1>8, <2>1, TookIsDone DEF C!Accumulator
<1> QED BY <1>5, <1>6, <1>7, <1>8

LEMMA MoveIsDone ==
  ASSUME NEW x \in Machines, NEW y \in 0..7, NEW z \in 0..7
  PROVE  Done(C!Move(x, y, z))
<1>1. C!Put(x, y, C!Get(x, z)) \in Machines
  BY GetIsByte, PutIsMachine
<1>2. C!Skip(x, -1) \in Machines
  BY SkipIsMachine
<1> QED BY <1>1, <1>2, TookIsDone DEF C!Move

LEMMA AluRegisterIsDone ==
  ASSUME NEW x \in Machines, NEW y \in 0..7, NEW z \in 0..7
  PROVE  Done(C!AluRegister(x, y, z))
<1>1. C!Alu(x, y, C!Get(x, z)) \in Machines
  BY GetIsByte, AluIsMachine
<1> QED BY <1>1, TookIsDone DEF C!AluRegister

LEMMA ConditionalsAreDone ==
  ASSUME NEW x \in Machines, NEW y \in 0..7
  PROVE  /\ Done(C!ConditionalRet(x, y)) /\ Done(C!ConditionalJump(x, y))
         /\ Done(C!ConditionalCall(x, y))
<1>1. Done(C!ConditionalRet(x, y))
  BY RetIsMachine, TookIsDone DEF C!ConditionalRet
<1>2. C!Skip(x, 2) \in Machines
  BY SkipIsMachine
<1>3. [x EXCEPT !.pc = C!Data16(x)] \in Machines
  BY DataAreData, JumpIsMachine
<1>4. Done(C!ConditionalJump(x, y))
  BY <1>2, <1>3, TookIsDone DEF C!ConditionalJump
<1>5. Done(C!ConditionalCall(x, y))
  BY <1>2, CallIsMachine, TookIsDone DEF C!ConditionalCall
<1> QED BY <1>1, <1>4, <1>5

LEMMA UnstackIsDone ==
  ASSUME NEW x \in Machines, NEW y \in 0..7
  PROVE  Done(C!Unstack(x, y))
<1> DEFINE d == C!Drop(x)
           w == C!Popped(x)
           p == y \div 2
<1>1. d \in Machines /\ w \in C!Word /\ p \in 0..3 /\ C!Pair(x, 2) \in C!Word
  BY PopIsMachine, PairIsWord
<1>2. CASE y \in {0, 2, 4}
  <2>1. C!Unstack(x, y) = C!Took(C!SetPair(d, p, w), 11, 12)
    BY <1>2 DEF C!Unstack
  <2> HIDE DEF d, w, p
  <2>2. w \in Int
    BY <1>1, WordIsInt
  <2>3. C!SetPair(d, p, w) \in Machines
    BY <1>1, <2>2, SetPairIsMachine
  <2> QED BY <2>1, <2>3, TookIsDone
<1>3. CASE y = 6
  <2>1. C!Unstack(x, y) = C!Took(C!SetPsw(d, w), 10, 12)
    BY <1>3 DEF C!Unstack
  <2> HIDE DEF d, w
  <2>2. C!SetPsw(d, w) \in Machines
    BY <1>1, SetPswIsMachine
  <2> QED BY <2>1, <2>2, TookIsDone
<1>4. CASE y \in {1, 3}
  BY <1>4, RetIsMachine, TookIsDone DEF C!Unstack
<1>5. CASE y \in {5, 7}
  <2> DEFINE hl == C!Pair(x, 2)
  <2>1. C!Unstack(x, y) \in {C!Took([x EXCEPT !.pc = hl], 5, 8), C!Took([x EXCEPT !.sp = hl], 5, 8)}
    BY <1>5 DEF C!Unstack, C!HL
  <2> HIDE DEF hl
  <2>2. [x EXCEPT !.pc = hl] \in Machines /\ [x EXCEPT !.sp = hl] \in Machines
    BY <1>1, JumpIsMachine DEF hl
  <2> QED BY <2>1, <2>2, TookIsDone
<1> QED BY <1>2, <1>3, <1>4, <1>5

LEMMA XthlIsMachine ==
  ASSUME NEW x \in Machines
  PROVE  C!Xthl(x) \in Machines
<1> DEFINE sp == x.sp
           hl == C!Pair(x, 2)
           w == C!Popped(x)
           y == C!WriteWord(x, sp, hl, TRUE)
<1>1. sp \in Int /\ hl \in Int /\ w \in Int
  BY MachineFields, PairIsWord, PopIsMachine, WordIsInt
<1>2. C!Xthl(x) = C!SetPair(y, 2, w)
  BY DEF C!Xthl, C!HL
<1> HIDE DEF sp, hl, w
<1>3. y \in Machines
  BY <1>1, WriteWordIsMachine
<1> HIDE DEF y
<1> QED BY <1>1, <1>2, <1>3, SetPairIsMachine

LEMMA MiscellaneousIsDone ==
  ASSUME NEW x \in Machines, NEW y \in 0..7, NEW in \in C!Byte
  PROVE  Done(C!Miscellaneous(x, y, in))
<1>1. C!Skip(x, 1) \in Machines
  BY SkipIsMachine
<1>2. CASE y \in {0, 1}
  <2>1. C!Miscellaneous(x, y, in) = C!Took([x EXCEPT !.pc = C!Data16(x)], 10, 12)
    BY <1>2 DEF C!Miscellaneous
  <2>2. [x EXCEPT !.pc = C!Data16(x)] \in Machines
    BY DataAreData, JumpIsMachine
  <2> QED BY <2>1, <2>2, TookIsDone
<1>3. CASE y = 2
  <2> DEFINE z == C!Skip(x, 1)
             pg == C!Paging(C!A(x))
  <2>1. C!Miscellaneous(x, y, in) \in {C!Took([z EXCEPT !.paging = pg], 10, 12), C!Took(z, 10, 12)}
    BY <1>3 DEF C!Miscellaneous
  <2>2. pg \in Pagings
    BY AIsByte, PagingIsPaging
  <2> HIDE DEF z, pg
  <2>3. [z EXCEPT !.paging = pg] \in Machines
    BY <1>1, <2>2 DEF Machines, z
  <2> QED BY <1>1, <2>1, <2>3, TookIsDone DEF z
<1>4. CASE y = 3
  <2>1. C!Put(C!Skip(x, 1), 7, in) \in Machines
    BY <1>1, PutIsMachine
  <2> QED BY <1>4, <2>1, TookIsDone DEF C!Miscellaneous
<1>5. CASE y = 4
  BY <1>5, XthlIsMachine, TookIsDone DEF C!Miscellaneous
<1>6. CASE y = 5
  <2> DEFINE de == C!Pair(x, 1)
             hl == C!Pair(x, 2)
             z == C!SetPair(x, 2, de)
  <2>1. C!Miscellaneous(x, y, in) = C!Took(C!SetPair(z, 1, hl), 4, 4)
    BY <1>6 DEF C!Miscellaneous, C!HL
  <2>2. de \in Int /\ hl \in Int
    BY PairIsWord, WordIsInt
  <2> HIDE DEF de, hl
  <2>3. z \in Machines
    BY <2>2, SetPairIsMachine
  <2> HIDE DEF z
  <2>4. C!SetPair(z, 1, hl) \in Machines
    BY <2>2, <2>3, SetPairIsMachine
  <2> QED BY <2>1, <2>4, TookIsDone
<1>7. CASE y = 6
  <2> DEFINE no == FALSE
             n == 0
             z == [x EXCEPT !.iff = no, !.ei_pending = n, !.inte = no]
  <2>1. C!Miscellaneous(x, y, in) = C!Took(z, 4, 4)
    BY <1>7 DEF C!Miscellaneous
  <2>2. no \in BOOLEAN /\ n \in 0..2
    OBVIOUS
  <2> HIDE DEF no, n
  <2>3. z \in Machines
    BY <2>2 DEF Machines
  <2> QED BY <2>1, <2>3, TookIsDone
<1>8. CASE y = 7
  <2> DEFINE no == FALSE
             yes == TRUE
             n == 2
             z == [x EXCEPT !.iff = no, !.ei_pending = n, !.inte = yes]
  <2>1. C!Miscellaneous(x, y, in) = C!Took(z, 4, 4)
    BY <1>8 DEF C!Miscellaneous
  <2>2. no \in BOOLEAN /\ yes \in BOOLEAN /\ n \in 0..2
    OBVIOUS
  <2> HIDE DEF no, yes, n
  <2>3. z \in Machines
    BY <2>2 DEF Machines
  <2> QED BY <2>1, <2>3, TookIsDone
<1> QED BY <1>2, <1>3, <1>4, <1>5, <1>6, <1>7, <1>8

LEMMA StackIsDone ==
  ASSUME NEW x \in Machines, NEW y \in 0..7
  PROVE  Done(C!Stack(x, y))
<1>1. CASE y \in {0, 2, 4}
  <2> DEFINE p == y \div 2
             w == C!Pair(x, p)
  <2>1. C!Stack(x, y) = C!Took(C!Push(x, w), 11, 16)
    BY <1>1 DEF C!Stack
  <2>2. w \in Int
    BY <1>1, PairIsWord, WordIsInt
  <2> HIDE DEF w
  <2> QED BY <2>1, <2>2, PushIsMachine, TookIsDone
<1>2. CASE y = 6
  <2> DEFINE w == C!Psw(x)
  <2>1. C!Stack(x, y) = C!Took(C!Push(x, w), 11, 16)
    BY <1>2 DEF C!Stack
  <2>2. w \in Int
    BY PswIsWord, WordIsInt
  <2> HIDE DEF w
  <2> QED BY <2>1, <2>2, PushIsMachine, TookIsDone
<1>3. CASE y \in {1, 3, 5, 7}
  BY <1>3, CallIsMachine, TookIsDone DEF C!Stack
<1> QED BY <1>1, <1>2, <1>3

LEMMA RstIsDone ==
  ASSUME NEW x \in Machines, NEW y \in 0..7
  PROVE  Done(C!Rst(x, y))
<1> DEFINE pc == x.pc
           z == C!Push(x, pc)
           to == 8 * y
<1>1. pc \in Int
  BY MachineFields, WordIsInt
<1>5. to \in C!Word
  BY DEF C!Word
<1>2. C!Rst(x, y) = C!Took([z EXCEPT !.pc = to], 11, 16)
  BY DEF C!Rst
<1> HIDE DEF pc, to
<1>3. z \in Machines
  BY <1>1, PushIsMachine
<1> HIDE DEF z
<1>4. [z EXCEPT !.pc = to] \in Machines
  BY <1>3, <1>5, JumpIsMachine
<1> QED BY <1>2, <1>4, TookIsDone

LEMMA LowIsDone ==
  ASSUME NEW x \in Machines, NEW y \in 0..7, NEW z \in 0..7
  PROVE  Done(C!Low(x, y, z))
  BY PairImmediateIsDone, LoadStoreIsDone, PairCountIsDone, CountsAreDone,
     MoveImmediateIsDone, AccumulatorIsDone, TookIsDone DEF C!Low

LEMMA HighIsDone ==
  ASSUME NEW x \in Machines, NEW y \in 0..7, NEW z \in 0..7, NEW in \in C!Byte
  PROVE  Done(C!High(x, y, z, in))
<1>1. CASE z = 6
  <2> DEFINE v == C!Data8(x)
             s == C!Skip(x, 1)
  <2>1. v \in C!Byte /\ s \in Machines
    BY DataAreData, SkipIsMachine
  <2>2. C!High(x, y, z, in) = C!Took(C!Alu(s, y, v), 7, 8)
    BY <1>1 DEF C!High
  <2> HIDE DEF v, s
  <2> QED BY <2>1, <2>2, AluIsMachine, TookIsDone
<1>2. CASE z # 6
  BY <1>2, ConditionalsAreDone, UnstackIsDone, MiscellaneousIsDone, StackIsDone, RstIsDone
     DEF C!High
<1> QED BY <1>1, <1>2

LEMMA ExecuteIsDone ==
  ASSUME NEW x \in Machines, NEW op \in C!Byte, NEW in \in C!Byte
  PROVE  LET y == C!Execute(x, op, in) IN Done(y) /\ y.ei_pending \in 0..1
<1> DEFINE y == (op \div 8) % 8
           z == op % 8
           done == CASE op \in 0..63    -> C!Low(x, y, z)
                     [] op \in 64..127  -> C!Move(x, y, z)
                     [] op \in 128..191 -> C!AluRegister(x, y, z)
                     [] op \in 192..255 -> C!High(x, y, z, in)
           woken == done.ei_pending = 1
           n == IF done.ei_pending = 0 THEN 0 ELSE done.ei_pending - 1
           i == done.iff \/ woken
           e == done.inte \/ woken
<1>1. y \in 0..7 /\ z \in 0..7
  BY ByteIsInt
<1>2. C!Execute(x, op, in) = [done EXCEPT !.ei_pending = n, !.iff = i, !.inte = e]
  BY DEF C!Execute
<1>3. op \in 0..63 \/ op \in 64..127 \/ op \in 128..191 \/ op \in 192..255
  BY ByteIsInt
<1> HIDE DEF y, z
<1>4. Done(done)
  BY <1>1, <1>3, LowIsDone, MoveIsDone, AluRegisterIsDone, HighIsDone
<1> HIDE DEF done
<1>5. n \in 0..1 /\ n \in 0..2 /\ i \in BOOLEAN /\ e \in BOOLEAN
  BY <1>4 DEF Done, Machines
<1> HIDE DEF n, i, e
<1> DEFINE q == [done EXCEPT !.ei_pending = n, !.iff = i, !.inte = e]
<1>6. done \in Machines /\ <<done.cyc, done.v>> \in C!Timings
  BY <1>4 DEF Done
<1>7. q \in Machines
  BY <1>5, <1>6 DEF Machines
<1>8. q.cyc = done.cyc /\ q.v = done.v /\ q.ei_pending = n
  BY <1>6 DEF Machines
<1> HIDE DEF q
<1>9. Done(q) /\ q.ei_pending \in 0..1
  BY <1>5, <1>6, <1>7, <1>8 DEF Done
<1> QED BY <1>2, <1>9 DEF q

\* Between two instructions EI is at most one instruction from its effect.
CpuTyped == Done(cpu) /\ cpu.ei_pending \in 0..1

LEMMA StartIsTyped ==
  ASSUME NEW a \in C!Byte, NEW val \in C!Byte, NEW c \in 0..1, NEW h \in 0..1,
         NEW w8 \in C!Byte, NEW boot \in Nat, NEW sp \in C!Word
  PROVE  LET y == C!Start(a, val, c, h, w8, boot, sp) IN Done(y) /\ y.ei_pending \in 0..1
<1> DEFINE r == [i \in 0..7 |-> <<val, a, 224, 255, 144, val, 0, a>>[i + 1]]
           bytes == [at \in {0} |-> 0]
           pg == C!Paging(w8)
           s == C!Bit(val, 7)
           z == C!Truth(val = 0)
           p == C!Parity(val)
           x == [r |-> r, s |-> s, z |-> z, h |-> h,
                 p |-> p, c |-> c, sp |-> sp, pc |-> 256, op |-> 0,
                 cyc |-> 4, v |-> 4, iff |-> FALSE, inte |-> FALSE, ei_pending |-> 0,
                 paging |-> pg, boot |-> boot, bytes |-> bytes]
           w == 256 * a + val
           rq == FALSE
           y == C!WriteWord(x, 257, w, rq)
           hl == C!Pair(x, 2)
           start == C!Write(y, hl, val, rq)
<1>1. C!Start(a, val, c, h, w8, boot, sp) = start
  BY DEF C!Start, C!HL
<1>2. r \in Registers
  <2>1. 224 \in C!Byte /\ 255 \in C!Byte /\ 144 \in C!Byte /\ 0 \in C!Byte
    BY DEF C!Byte
  <2>2. ASSUME NEW i \in 0..7 PROVE <<val, a, 224, 255, 144, val, 0, a>>[i + 1] \in C!Byte
    <3>1. CASE i \in 0..3 BY <2>1, <3>1
    <3>2. CASE i \in 4..7 BY <2>1, <3>2
    <3> QED BY <3>1, <3>2
  <2> QED BY <2>2 DEF Registers
<1>3. bytes \in Memories
  <2>1. 0 \in Cells /\ 0 \in C!Byte
    BY DEF Cells, C!Byte
  <2>2. {0} \in SUBSET Cells /\ bytes \in [{0} -> C!Byte]
    BY <2>1
  <2> HIDE DEF bytes
  <2> QED BY <2>2 DEF Memories
<1>4. pg \in Pagings /\ s \in 0..1 /\ z \in 0..1 /\ p \in 0..1
  BY PagingIsPaging, ByteIsInt, BitIsBit, TruthIsBit DEF C!Parity
<1>5. 256 \in C!Word /\ 0 \in C!Byte /\ w \in Int /\ rq \in BOOLEAN
  BY ByteIsInt DEF C!Word, C!Byte
<1> HIDE DEF r, bytes, pg, s, z, p, w, rq
<1>6. x \in Machines /\ x.cyc = 4 /\ x.v = 4 /\ x.ei_pending = 0
  BY <1>2, <1>3, <1>4, <1>5 DEF Machines
<1> HIDE DEF x
<1>7. y \in Machines /\ Rewritten(x, y)
  BY <1>5, <1>6, WriteWordIsMachine
<1>8. hl \in Int
  BY <1>6, PairIsWord, WordIsInt
<1> HIDE DEF y, hl
<1>9. start \in Machines /\ Rewritten(y, start)
  BY <1>5, <1>7, <1>8, WriteIsMachine
<1> HIDE DEF start
<1>10. start.cyc = 4 /\ start.v = 4 /\ start.ei_pending = 0
  BY <1>6, <1>7, <1>9 DEF Machines, Rewritten
<1> QED BY <1>1, <1>9, <1>10 DEF Done, C!Timings

(* The machine keeps its types: registers, flags and addresses their width, *)
(* and no instruction takes a time that Machine does not know.              *)
THEOREM CpuKeepsTypes ==
  ASSUME C!ValuesFit
  PROVE  C!Spec => []CpuTyped
<1>1. C!Init => CpuTyped
  <2> SUFFICES ASSUME C!Init PROVE CpuTyped
    OBVIOUS
  <2>1. /\ 0 \in C!Byte /\ 153 \in C!Byte /\ 16 \in C!Byte /\ 40962 \in C!Word
        /\ 0 \in 0..1 /\ 0 \in Nat
    BY DEF C!Byte, C!Word
  <2>2. \E a, val, w8 \in C!Byte, c, h \in 0..1, boot \in Nat, sp \in C!Word :
          cpu = C!Start(a, val, c, h, w8, boot, sp)
    <3>1. CASE \E a, val \in Values, c, h \in 0..1 : cpu = C!Start(a, val, c, h, 0, 0, 40962)
      BY <2>1, <3>1 DEF C!ValuesFit
    <3>2. CASE \E w8 \in Controls, boot \in BootSizes, sp \in Stacks, c \in 0..1 :
                 cpu = C!Start(153, 16, c, 0, w8, boot, sp)
      BY <2>1, <3>2 DEF C!ValuesFit
    <3> QED BY <3>1, <3>2 DEF C!Init
  <2>3. PICK a \in C!Byte, val \in C!Byte, w8 \in C!Byte, c \in 0..1, h \in 0..1,
             boot \in Nat, sp \in C!Word :
          cpu = C!Start(a, val, c, h, w8, boot, sp)
    BY <2>2
  <2>4. Done(C!Start(a, val, c, h, w8, boot, sp))
        /\ C!Start(a, val, c, h, w8, boot, sp).ei_pending \in 0..1
    BY StartIsTyped
  <2> QED BY <2>3, <2>4 DEF CpuTyped
<1>2. CpuTyped /\ [C!Next]_(C!vars) => CpuTyped'
  <2> SUFFICES ASSUME CpuTyped, [C!Next]_(C!vars) PROVE CpuTyped'
    OBVIOUS
  <2>1. CASE C!Next
    <3>1. PICK op \in C!Byte, in \in C!Byte : cpu' = C!Instruction(cpu, op, in)
      <4>1. 0 \in C!Byte
        BY DEF C!Byte
      <4> QED BY <2>1, <4>1 DEF C!Next, C!Step, C!ValuesFit
    <3> DEFINE x == C!Skip(cpu, 1)
               y == C!Execute(x, op, in)
    <3>2. x \in Machines
      BY SkipIsMachine DEF CpuTyped, Done
    <3> HIDE DEF x
    <3>3. Done(y) /\ y.ei_pending \in 0..1
      BY <3>2, ExecuteIsDone
    <3>4. cpu' = [y EXCEPT !.op = op]
      BY <3>1 DEF C!Instruction, x
    <3> HIDE DEF y
    <3> QED BY <3>3, <3>4 DEF CpuTyped, Done, Machines
  <2>2. CASE UNCHANGED C!vars
    BY <2>2 DEF CpuTyped, C!vars
  <2> QED BY <2>1, <2>2
<1> QED BY <1>1, <1>2, PTL DEF C!Spec

THEOREM CpuTypes ==
  ASSUME C!ValuesFit
  PROVE  C!Spec => []C!TypeOK
<1>1. CpuTyped => C!TypeOK
  <2> SUFFICES ASSUME CpuTyped PROVE C!TypeOK
    OBVIOUS
  <2>1. cpu \in Machines /\ cpu.ei_pending \in 0..1 /\ <<cpu.cyc, cpu.v>> \in C!Timings
    BY DEF CpuTyped, Done
  <2>2. PICK D \in SUBSET Cells : cpu.bytes \in [D -> C!Byte]
    BY <2>1 DEF Machines, Memories
  <2>3. \A at \in DOMAIN cpu.bytes : at \in Cells /\ cpu.bytes[at] \in C!Byte
    BY <2>2
  <2>6. {cpu.iff, cpu.inte} \subseteq BOOLEAN
    BY <2>1 DEF Machines
  <2>7. {cpu.s, cpu.z, cpu.h, cpu.p, cpu.c} \subseteq 0..1
    BY <2>1, MachineFields
  <2>8. \A i \in 0..7 : cpu.r[i] \in C!Byte
    BY <2>1, MachineFields
  <2>9. cpu.sp \in C!Word /\ cpu.pc \in C!Word /\ cpu.op \in C!Byte
    BY <2>1, MachineFields
  <2> QED BY <2>1, <2>3, <2>6, <2>7, <2>8, <2>9, Zenon DEF C!TypeOK, Cells
<1> QED BY <1>1, CpuKeepsTypes, PTL

-----------------------------------------------------------------------------
(* Flags *)

LEMMA HalfCarry ==
  ASSUME NEW a \in C!Byte, NEW b \in C!Byte, NEW c \in 0..1
  PROVE  C!HalfCarryTable[C!Index(a, b, a + b + c) + 1] = 1 <=> (a % 16) + (b % 16) + c > 15
<1>1. a \in Int /\ 0 <= a /\ a < 256 /\ b \in Int /\ 0 <= b /\ b < 256
  BY ByteIsInt
<1> QED BY <1>1 DEF C!HalfCarryTable, C!Index, C!Bit

LEMMA HalfBorrow ==
  ASSUME NEW a \in C!Byte, NEW b \in C!Byte, NEW c \in 0..1,
         NEW w \in Int, w = (a - b - c) % 65536
  PROVE  /\ C!SubHalfCarryTable[C!Index(a, b, w) + 1] \in 0..1
         /\ C!SubHalfCarryTable[C!Index(a, b, w) + 1] = 0 <=> a % 16 >= (b % 16) + c
<1>1. a \in Int /\ 0 <= a /\ a < 256 /\ b \in Int /\ 0 <= b /\ b < 256
  BY ByteIsInt
<1> QED BY <1>1 DEF C!SubHalfCarryTable, C!Index, C!Bit

\* S, Z and P are those of a result; A holds it.
ResultFlags(y, res) == /\ y.s = 1 <=> res > 127
                       /\ y.z = 1 <=> res = 0
                       /\ y.p = C!Parity(res)

LEMMA FlaggedTells ==
  ASSUME NEW x \in Machines, NEW res \in C!Byte, NEW h \in 0..1
  PROVE  LET y == C!Flagged(x, res, h) IN
         y.r = x.r /\ y.h = h /\ y.c = x.c /\ ResultFlags(y, res)
<1>1. C!Bit(res, 7) = 1 <=> res > 127
  BY ByteIsInt DEF C!Bit
<1>2. C!Truth(res = 0) = 1 <=> res = 0
  BY DEF C!Truth
<1> QED BY <1>1, <1>2 DEF C!Flagged, ResultFlags, Machines

LEMMA SetATells ==
  ASSUME NEW x \in Machines, NEW v \in C!Byte
  PROVE  LET y == C!Put(x, 7, v) IN C!A(y) = v /\ y.c = x.c /\ y \in Machines
<1>1. C!Put(x, 7, v) \in Machines
  BY PutIsMachine
<1> QED BY <1>1 DEF C!Put, C!A, Machines, Registers

LEMMA SumTells ==
  ASSUME NEW x \in Machines, NEW val \in C!Byte, NEW c \in 0..1
  PROVE  LET y == C!Sum(x, val, c)
             a == C!A(x)
             w == a + val + c IN
         /\ C!A(y) = w % 256 /\ ResultFlags(y, w % 256)
         /\ y.c = 1 <=> w > 255
         /\ y.h = 1 <=> (a % 16) + (val % 16) + c > 15
<1> DEFINE a == C!A(x)
           w == a + val + c
           res == w % 256
           h == C!HalfCarryTable[C!Index(a, val, w) + 1]
           z == C!Put(x, 7, res)
           y == C!Flagged(z, res, h)
           b == C!Bit(w, 8)
<1>1. w \in Int /\ a \in C!Byte /\ a \in Int /\ 0 <= a /\ a < 256
      /\ val \in Int /\ 0 <= val /\ val < 256
  BY AIsByte, ByteIsInt
<1>2. C!Sum(x, val, c) = [y EXCEPT !.c = b]
  BY DEF C!Sum
<1> HIDE DEF a
<1>3. b = 1 <=> w > 255
  BY <1>1 DEF C!Bit
<1>4. h = 1 <=> (a % 16) + (val % 16) + c > 15
  BY <1>1, HalfCarry
<1> HIDE DEF w
<1>5. res \in C!Byte
  BY <1>1 DEF C!Byte
<1>6. h \in 0..1
  BY <1>1, IndexIsSmall, TablesHoldBits
<1> HIDE DEF res, h, b
<1>7. z \in Machines /\ C!A(z) = res
  BY <1>5, SetATells
<1> HIDE DEF z
<1>8. y \in Machines /\ y.r = z.r /\ y.h = h /\ ResultFlags(y, res)
  BY <1>5, <1>6, <1>7, FlaggedTells, FlaggedIsMachine
<1> HIDE DEF y
<1> DEFINE q == [y EXCEPT !.c = b]
<1>9. q.r = y.r /\ q.h = y.h /\ q.c = b /\ q.s = y.s /\ q.z = y.z /\ q.p = y.p
  BY <1>8 DEF Machines
<1>10. C!A(q) = res /\ ResultFlags(q, res)
  BY <1>7, <1>8, <1>9 DEF C!A, ResultFlags
<1> HIDE DEF q
<1> QED BY <1>2, <1>3, <1>4, <1>8, <1>9, <1>10 DEF a, w, res, q

LEMMA CompareTells ==
  ASSUME NEW x \in Machines, NEW val \in C!Byte, NEW c \in 0..1
  PROVE  LET y == C!Compare(x, val, c)
             a == C!A(x) IN
         /\ y.r = x.r /\ ResultFlags(y, (a - val - c) % 256)
         /\ y.c = 1 <=> a < val + c
         /\ y.h = 1 <=> a % 16 >= (val % 16) + c
<1> DEFINE a == C!A(x)
           w == (a - val - c) % 65536
           res == w % 256
           h == 1 - C!SubHalfCarryTable[C!Index(a, val, w) + 1]
           y == C!Flagged(x, res, h)
           b == C!Bit(w, 8)
<1>1. w \in Int /\ a \in C!Byte /\ a \in Int /\ 0 <= a /\ a < 256
      /\ val \in Int /\ 0 <= val /\ val < 256
  BY AIsByte, ByteIsInt
<1>2. C!Compare(x, val, c) = [y EXCEPT !.c = b]
  BY DEF C!Compare
<1> HIDE DEF a
<1>3. (b = 1 <=> a < val + c) /\ res = (a - val - c) % 256
  BY <1>1 DEF C!Bit
<1>11. w = (a - val - c) % 65536
  OBVIOUS
<1> HIDE DEF w
<1>4. h = 1 <=> a % 16 >= (val % 16) + c
  <2> DEFINE t == C!SubHalfCarryTable[C!Index(a, val, w) + 1]
  <2>1. t \in 0..1 /\ (t = 0 <=> a % 16 >= (val % 16) + c)
    BY <1>1, <1>11, HalfBorrow
  <2>2. h = 1 - t
    OBVIOUS
  <2> HIDE DEF t, h
  <2> QED BY <2>1, <2>2
<1>5. res \in C!Byte
  BY <1>1 DEF C!Byte
<1>6. h \in 0..1
  BY <1>1, IndexIsSmall, TablesHoldBits
<1> HIDE DEF res, h, b
<1>8. y \in Machines /\ y.r = x.r /\ y.h = h /\ ResultFlags(y, res)
  BY <1>5, <1>6, FlaggedTells, FlaggedIsMachine
<1> HIDE DEF y
<1> DEFINE q == [y EXCEPT !.c = b]
<1>9. q.r = y.r /\ q.h = y.h /\ q.c = b /\ q.s = y.s /\ q.z = y.z /\ q.p = y.p
  BY <1>8 DEF Machines
<1>10. ResultFlags(q, res)
  BY <1>8, <1>9 DEF ResultFlags
<1> HIDE DEF q
<1> QED BY <1>2, <1>3, <1>4, <1>8, <1>9, <1>10 DEF a, q

LEMMA AluTells ==
  ASSUME NEW x \in Machines, NEW k \in 0..7, NEW val \in C!Byte
  PROVE  C!FlagsTell(x, k, val, C!Alu(x, k, val))
<1> DEFINE a == C!A(x)
           y == C!Alu(x, k, val)
<1>1. a \in Int /\ val \in Int /\ x.c \in 0..1 /\ 0 \in 0..1
  BY AIsByte, ByteIsInt, MachineFields
<1>2. ASSUME k \in {0, 1} PROVE C!FlagsTell(x, k, val, y)
  <2> DEFINE c == IF k = 1 THEN x.c ELSE 0
             w == a + val + c
  <2>1. y = C!Sum(x, val, c) /\ c \in 0..1
    BY <1>1, <1>2 DEF C!Alu
  <2> HIDE DEF y, c
  <2>2. /\ C!A(y) = w % 256 /\ ResultFlags(y, w % 256)
        /\ y.c = 1 <=> w > 255
        /\ y.h = 1 <=> (a % 16) + (val % 16) + c > 15
    BY <2>1, SumTells
  <2>3. c = IF k \in {1, 3} THEN x.c ELSE 0
    BY <1>2 DEF c
  <2> QED BY <1>2, <2>2, <2>3 DEF C!FlagsTell, ResultFlags
<1>3. ASSUME k \in {2, 3} PROVE C!FlagsTell(x, k, val, y)
  <2> DEFINE c == IF k = 3 THEN x.c ELSE 0
             z == C!Compare(x, val, c)
             res == (a - val - c) % 256
  <2>1. y = C!Put(z, 7, res) /\ c \in 0..1
    BY <1>1, <1>3 DEF C!Alu, C!Difference
  <2>2. res \in C!Byte
    BY <1>1, <2>1 DEF C!Byte
  <2> HIDE DEF y, c
  <2>3. /\ ResultFlags(z, res)
        /\ z.c = 1 <=> a < val + c
        /\ z.h = 1 <=> a % 16 >= (val % 16) + c
    BY <2>1, CompareTells
  <2>4. z \in Machines
    BY <2>1, CompareIsMachine
  <2>5. c = IF k \in {1, 3} THEN x.c ELSE 0
    BY <1>3 DEF c
  <2> HIDE DEF z, res
  <2>6. C!A(y) = res
    BY <2>1, <2>2, <2>4, SetATells
  <2>7. y.c = z.c /\ y.h = z.h /\ y.s = z.s /\ y.z = z.z /\ y.p = z.p
    BY <2>1, <2>4 DEF C!Put, Machines
  <2>8. CASE k = 2
    <3>1. c = 0 /\ res = (a - val - 0) % 256
      BY <2>8 DEF c, res
    <3>2. k \notin {0, 1} /\ k # 7 /\ k \notin {1, 3} /\ k \in {2, 3, 7} /\ k \notin {4, 5, 6}
      BY <2>8
    <3>3. /\ y.c = 1 <=> a < val + 0
          /\ y.h = 1 <=> a % 16 >= (val % 16) + 0
          /\ y.s = 1 <=> res > 127
          /\ y.z = 1 <=> res = 0
          /\ y.p = C!Parity(res)
      BY <2>3, <2>7, <3>1 DEF ResultFlags
    <3> QED BY <2>6, <3>1, <3>2, <3>3, ZenonT(40) DEF C!FlagsTell
  <2>9. CASE k = 3
    <3>1. c = x.c /\ res = (a - val - x.c) % 256
      BY <2>9 DEF c, res
    <3>2. k \notin {0, 1} /\ k # 7 /\ k \in {1, 3} /\ k \in {2, 3, 7} /\ k \notin {4, 5, 6}
      BY <2>9
    <3>3. /\ y.c = 1 <=> a < val + x.c
          /\ y.h = 1 <=> a % 16 >= (val % 16) + x.c
          /\ y.s = 1 <=> res > 127
          /\ y.z = 1 <=> res = 0
          /\ y.p = C!Parity(res)
      BY <2>3, <2>7, <3>1 DEF ResultFlags
    <3> QED BY <2>6, <3>1, <3>2, <3>3, ZenonT(40) DEF C!FlagsTell
  <2> QED BY <1>3, <2>8, <2>9
<1>4. ASSUME k = 7 PROVE C!FlagsTell(x, k, val, y)
  <2>1. y = C!Compare(x, val, 0)
    BY <1>4 DEF C!Alu
  <2> HIDE DEF y
  <2>2. /\ y.r = x.r /\ ResultFlags(y, (a - val - 0) % 256)
        /\ y.c = 1 <=> a < val + 0
        /\ y.h = 1 <=> a % 16 >= (val % 16) + 0
    BY <1>1, <2>1, CompareTells
  <2>3. C!A(y) = a
    BY <2>2 DEF C!A
  <2> QED BY <1>4, <2>2, <2>3 DEF C!FlagsTell, ResultFlags
<1>5. ASSUME k \in {4, 5, 6} PROVE C!FlagsTell(x, k, val, y)
  <2>1. PICK S \in SUBSET (0..7), h \in 0..1 : y = C!Logic(x, C!Octet(S), h)
    <3>1. C!Truth(C!Bit(a, 3) + C!Bit(val, 3) > 0) \in 0..1
      BY TruthIsBit
    <3> DEFINE o == C!Ones(a)
               b == C!Ones(val)
               h == C!Truth(C!Bit(a, 3) + C!Bit(val, 3) > 0)
    <3>2. \/ y = C!Logic(x, C!Octet(o \cap b), h)
          \/ y = C!Logic(x, C!Octet((o \cup b) \ (o \cap b)), 0)
          \/ y = C!Logic(x, C!Octet(o \cup b), 0)
      BY <1>5 DEF C!Alu
    <3>3. h \in 0..1
      BY <3>1
    <3>4. o \in SUBSET (0..7) /\ b \in SUBSET (0..7)
      BY DEF C!Ones
    <3> HIDE DEF o, b, h, y
    <3> QED BY <1>1, <3>2, <3>3, <3>4
  <2> DEFINE res == C!Octet(S)
             z == C!Put(x, 7, res)
             q == C!Flagged(z, res, h)
  <2>2. y = [q EXCEPT !.c = 0]
    BY <2>1 DEF C!Logic
  <2>3. res \in C!Byte
    BY OctetIsByte
  <2> HIDE DEF y, res
  <2>4. z \in Machines /\ C!A(z) = res
    BY <2>3, SetATells
  <2> HIDE DEF z
  <2>5. q \in Machines /\ q.r = z.r /\ ResultFlags(q, res)
    BY <2>3, <2>4, FlaggedTells, FlaggedIsMachine
  <2> HIDE DEF q
  <2>6. y.c = 0 /\ y.r = q.r /\ y.s = q.s /\ y.z = q.z /\ y.p = q.p
    BY <2>2, <2>5 DEF Machines
  <2>7. C!A(y) = res /\ ResultFlags(y, res)
    BY <2>4, <2>5, <2>6 DEF C!A, ResultFlags
  <2> QED BY <1>5, <2>6, <2>7 DEF C!FlagsTell, ResultFlags
<1> QED BY <1>2, <1>3, <1>4, <1>5

\* Same registers of eight bits and same flags.
Alike(x, y) == y.r = x.r /\ y.s = x.s /\ y.z = x.z /\ y.h = x.h /\ y.p = x.p /\ y.c = x.c

LEMMA AlikeTell ==
  ASSUME NEW x, NEW x1, NEW y, NEW y1, NEW k, NEW val,
         Alike(x, x1), Alike(y, y1), C!FlagsTell(x1, k, val, y1)
  PROVE  C!FlagsTell(x, k, val, y)
  BY DEF Alike, C!FlagsTell, C!A

LEMMA SkipKeeps ==
  ASSUME NEW x \in Machines, NEW n \in Int
  PROVE  LET y == C!Skip(x, n) IN
         /\ Alike(x, y)
         /\ \A i \in 0..7 : C!Get(y, i) = C!Get(x, i)
<1> DEFINE pc == (x.pc + n) % 65536
           y == [x EXCEPT !.pc = pc]
<1>1. C!Skip(x, n) = y
  BY DEF C!Skip
<1> HIDE DEF pc
<1>2. /\ y.r = x.r /\ y.s = x.s /\ y.z = x.z /\ y.h = x.h /\ y.p = x.p /\ y.c = x.c
      /\ y.sp = x.sp /\ y.paging = x.paging /\ y.boot = x.boot /\ y.bytes = x.bytes
  BY DEF Machines
<1> HIDE DEF y
<1>3. C!Pair(y, 2) = C!Pair(x, 2)
  BY <1>2 DEF C!Pair
<1>4. C!Read(y, C!Pair(y, 2), FALSE) = C!Read(x, C!Pair(x, 2), FALSE)
  BY <1>2, <1>3 DEF C!Read
<1>5. \A i \in 0..7 : C!Get(y, i) = C!Get(x, i)
  BY <1>2, <1>4 DEF C!Get, C!HL
<1> QED BY <1>1, <1>2, <1>5 DEF Alike

LEMMA TookKeeps ==
  ASSUME NEW x \in Machines, NEW cyc, NEW v
  PROVE  Alike(x, C!Took(x, cyc, v))
  BY DEF Alike, C!Took, Machines

\* The case of Execute() for the opcode op.
Row(x, op, in) ==
  LET y == (op \div 8) % 8
      z == op % 8 IN
  CASE op \in 0..63    -> C!Low(x, y, z)
    [] op \in 64..127  -> C!Move(x, y, z)
    [] op \in 128..191 -> C!AluRegister(x, y, z)
    [] op \in 192..255 -> C!High(x, y, z, in)

LEMMA ExecuteRow ==
  ASSUME NEW x, NEW op, NEW in, Row(x, op, in) \in Machines
  PROVE  LET y == C!Execute(x, op, in)
             q == Row(x, op, in) IN
         Alike(q, y) /\ y.sp = q.sp /\ y.pc = q.pc /\ y.paging = q.paging
         /\ y.boot = q.boot /\ y.bytes = q.bytes
<1> DEFINE q == Row(x, op, in)
           woken == q.ei_pending = 1
           n == IF q.ei_pending = 0 THEN 0 ELSE q.ei_pending - 1
           i == q.iff \/ woken
           e == q.inte \/ woken
<1>1. C!Execute(x, op, in) = [q EXCEPT !.ei_pending = n, !.iff = i, !.inte = e]
  BY DEF C!Execute, Row
<1> HIDE DEF q, n, i, e
<1>2. q \in Machines
  BY DEF q
<1> QED BY <1>1, <1>2 DEF Machines, Alike, q

\* Execute() adds nothing to an instruction of the accumulator but its time and
\* the countdown of EI.
LEMMA ExecuteAlu ==
  ASSUME NEW x \in Machines, NEW op \in C!Byte, NEW in, C!IsAlu(op)
  PROVE  LET k == (op \div 8) % 8
             v == IF op > 191 THEN C!Data8(x) ELSE C!Get(x, op % 8)
             s == IF op > 191 THEN C!Skip(x, 1) ELSE x IN
         Alike(C!Alu(s, k, v), C!Execute(x, op, in))
<1> DEFINE k == (op \div 8) % 8
           z == op % 8
           v == IF op > 191 THEN C!Data8(x) ELSE C!Get(x, z)
           s == IF op > 191 THEN C!Skip(x, 1) ELSE x
           q == C!Alu(s, k, v)
           r == Row(x, op, in)
<1>1. k \in 0..7 /\ z \in 0..7 /\ op \in Int
  BY ByteIsInt
<1>2. v \in C!Byte
  BY <1>1, DataAreData, GetIsByte
<1>3. s \in Machines
  BY SkipIsMachine
<1>4. r \in {C!Took(q, 7, 8), C!Took(q, 4, 4)}
  <2>1. CASE op > 191
    <3>1. z = 6 /\ op \in 192..255 /\ op \notin 0..63 /\ op \notin 64..127 /\ op \notin 128..191
      BY <1>1, <2>1, ByteIsInt DEF C!IsAlu
    <3>2. r = C!High(x, k, z, in)
      BY <3>1 DEF Row
    <3> HIDE DEF r
    <3> QED BY <2>1, <3>1, <3>2 DEF C!High
  <2>2. CASE op <= 191
    <3>1. op \in 128..191 /\ op \notin 0..63 /\ op \notin 64..127 /\ op \notin 192..255
      BY <1>1, <2>2, ByteIsInt DEF C!IsAlu
    <3>2. r = C!AluRegister(x, k, z)
      BY <3>1 DEF Row
    <3> HIDE DEF r
    <3> QED BY <1>1, <2>2, <3>2 DEF C!AluRegister
  <2> HIDE DEF q, r
  <2> QED BY <1>1, <2>1, <2>2
<1> HIDE DEF k, v, s
<1>5. q \in Machines
  BY <1>1, <1>2, <1>3, AluIsMachine
<1> HIDE DEF q, r
<1>6. r \in Machines /\ Alike(q, r)
  <2>1. C!Took(q, 7, 8) \in Machines /\ C!Took(q, 4, 4) \in Machines
    BY <1>5, TookIsDone DEF Done
  <2>2. Alike(q, C!Took(q, 7, 8)) /\ Alike(q, C!Took(q, 4, 4))
    BY <1>5, TookKeeps
  <2> QED BY <1>4, <2>1, <2>2
<1>7. Alike(r, C!Execute(x, op, in))
  BY <1>6, ExecuteRow DEF r
<1> QED BY <1>6, <1>7 DEF Alike, k, v, s, q

LEMMA InstructionTells ==
  ASSUME NEW x \in Machines, NEW op \in C!Byte, NEW in \in C!Byte, C!IsAlu(op)
  PROVE  C!FlagsTell(x, (op \div 8) % 8, C!Operand(x, op), C!Instruction(x, op, in))
<1> DEFINE k == (op \div 8) % 8
           x1 == C!Skip(x, 1)
           v == IF op > 191 THEN C!Data8(x1) ELSE C!Get(x1, op % 8)
           s == IF op > 191 THEN C!Skip(x1, 1) ELSE x1
           q == C!Alu(s, k, v)
           e == C!Execute(x1, op, in)
           y == C!Instruction(x, op, in)
<1>1. k \in 0..7 /\ op % 8 \in 0..7 /\ op \in Int
  BY ByteIsInt
<1>2. x1 \in Machines /\ Alike(x, x1) /\ \A i \in 0..7 : C!Get(x1, i) = C!Get(x, i)
  BY SkipIsMachine, SkipKeeps
<1>3. v = C!Operand(x, op)
  BY <1>1, <1>2 DEF C!Operand
<1>4. y = [e EXCEPT !.op = op]
  BY DEF C!Instruction
<1> HIDE DEF x1
<1>5. Alike(q, e)
  BY <1>2, ExecuteAlu
<1>6. v \in C!Byte
  BY <1>1, <1>2, DataAreData, GetIsByte
<1>7. s \in Machines /\ Alike(x, s)
  <2>1. C!Skip(x1, 1) \in Machines /\ Alike(x1, C!Skip(x1, 1))
    BY <1>2, SkipIsMachine, SkipKeeps
  <2> QED BY <1>2, <2>1 DEF Alike
<1> HIDE DEF k, v, s
<1>8. C!FlagsTell(s, k, v, q) /\ q \in Machines
  BY <1>1, <1>6, <1>7, AluTells, AluIsMachine
<1> HIDE DEF q
<1>9. Alike(y, q)
  <2>1. e \in Machines
    BY <1>2, ExecuteIsDone DEF Done
  <2> HIDE DEF e, y
  <2>2. Alike(e, y)
    BY <1>4, <2>1 DEF Alike, Machines
  <2> QED BY <1>5, <2>2 DEF Alike
<1> HIDE DEF y
<1>10. C!FlagsTell(x, k, v, y)
  BY <1>7, <1>8, <1>9, AlikeTell
<1> QED BY <1>3, <1>10 DEF k, y

(* The flags of an arithmetic instruction are those of the arithmetic, for  *)
(* every value of A, operand and carry and in whatever state of the memory. *)
THEOREM CpuFlags ==
  ASSUME C!ValuesFit
  PROVE  C!Spec => C!FlagsAreArithmetic
<1>1. CpuTyped /\ [C!Next]_(C!vars) => [C!ArithmeticFlags]_(C!vars)
  <2> SUFFICES ASSUME CpuTyped, C!Next PROVE C!ArithmeticFlags
    OBVIOUS
  <2>1. PICK op \in C!Byte, in \in C!Byte : cpu' = C!Instruction(cpu, op, in)
    <3>1. 0 \in C!Byte
      BY DEF C!Byte
    <3> QED BY <3>1 DEF C!Next, C!Step, C!ValuesFit
  <2>2. cpu \in Machines
    BY DEF CpuTyped, Done
  <2>3. cpu'.op = op
    <3> DEFINE x == C!Skip(cpu, 1)
               y == C!Execute(x, op, in)
    <3>3. x \in Machines
      BY <2>2, SkipIsMachine
    <3>1. y \in Machines
      <4> HIDE DEF x
      <4> QED BY <3>3, ExecuteIsDone DEF Done
    <3>2. cpu' = [y EXCEPT !.op = op]
      BY <2>1 DEF C!Instruction
    <3> HIDE DEF y
    <3> QED BY <3>1, <3>2 DEF Machines
  <2> SUFFICES ASSUME C!IsAlu(op)
               PROVE  C!FlagsTell(cpu, (op \div 8) % 8, C!Operand(cpu, op), cpu')
    BY <2>3 DEF C!ArithmeticFlags
  <2> QED BY <2>1, <2>2, InstructionTells
<1> QED BY <1>1, CpuKeepsTypes, PTL DEF C!Spec, C!FlagsAreArithmetic

-----------------------------------------------------------------------------
(* Decimal addition *)

LEMMA TwoDigits ==
  ASSUME NEW n \in Nat, n < 100
  PROVE  \E t, u \in 0..9 : n = 10 * t + u /\ C!Bcd(n) = 16 * t + u
<1> DEFINE t == n \div 10
           u == n % 10
<1>1. t \in 0..9 /\ u \in 0..9 /\ n = 10 * t + u
  OBVIOUS
<1>2. C!Bcd(n) = 16 * t + u
  BY DEF C!Bcd
<1> HIDE DEF t, u
<1> QED BY <1>1, <1>2

\* Which digits of the result r of an addition DAA adjusts, with the half carry h
\* and the carry c of the addition.
LowDigit(r, h) == h \/ r % 16 > 9
HighDigit(r, c) == c \/ r \div 16 > 9 \/ (r \div 16 >= 9 /\ r % 16 > 9)

\* They are those that went past nine: t and u are the sums of the tens and of the
\* units, which were added as digits in sixteens.
LEMMA Adjusted ==
  ASSUME NEW t \in Nat, NEW u \in Nat, t <= 18, u <= 19,
         NEW w \in Nat, w = 16 * t + u
  PROVE  /\ LowDigit(w % 256, u > 15) <=> u > 9
         /\ HighDigit(w % 256, w > 255) <=> 10 * t + u > 99
  BY DEF LowDigit, HighDigit

LEMMA AdcDaaIsDecimal ==
  ASSUME NEW x \in Machines, NEW m \in Nat, NEW n \in Nat, m < 100, n < 100,
         C!A(x) = C!Bcd(m)
  PROVE  LET y == C!Daa(C!Alu(x, 1, C!Bcd(n)))
             sum == m + n + x.c IN
         C!A(y) = C!Bcd(sum % 100) /\ y.c = sum \div 100
<1> DEFINE val == C!Bcd(n)
           c == x.c
           a == C!A(x)
           z == C!Sum(x, val, c)
           sum == m + n + c
<1>1. PICK mt, mu \in 0..9 : m = 10 * mt + mu /\ a = 16 * mt + mu
  BY TwoDigits
<1>2. PICK nt, nu \in 0..9 : n = 10 * nt + nu /\ val = 16 * nt + nu
  BY TwoDigits
<1> DEFINE t == mt + nt
           u == mu + nu + c
           w == a + val + c
<1>3. c \in 0..1 /\ val \in C!Byte
  BY <1>2, MachineFields DEF C!Byte
<1>4. C!Alu(x, 1, val) = z
  BY DEF C!Alu
<1> HIDE DEF val, c, a
<1>5. /\ t \in Nat /\ u \in Nat /\ t <= 18 /\ u <= 19
      /\ w \in Nat /\ w = 16 * t + u /\ sum = 10 * t + u /\ sum <= 199
      /\ a % 16 = mu /\ val % 16 = nu
  BY <1>1, <1>2, <1>3
<1>6. /\ z \in Machines /\ C!A(z) = w % 256
      /\ z.c = 1 <=> w > 255
      /\ z.h = 1 <=> u > 15
  <2>1. z \in Machines
    BY <1>3, SumIsMachine
  <2>2. /\ C!A(z) = w % 256
        /\ z.c = 1 <=> w > 255
        /\ z.h = 1 <=> (a % 16) + (val % 16) + c > 15
    BY <1>3, SumTells DEF a
  <2> QED BY <1>5, <2>1, <2>2
<1> HIDE DEF z, t, u, w, sum
<1> DEFINE low == z.h = 1 \/ C!A(z) % 16 > 9
           high == \/ z.c = 1
                   \/ C!A(z) \div 16 > 9
                   \/ C!A(z) \div 16 >= 9 /\ C!A(z) % 16 > 9
           more == (IF low THEN 6 ELSE 0) + (IF high THEN 96 ELSE 0)
           b == C!Truth(high)
           s == C!Sum(z, more, 0)
           y == C!Daa(z)
<1>7. (low <=> u > 9) /\ (high <=> sum > 99)
  BY <1>5, <1>6, Adjusted DEF LowDigit, HighDigit
<1>8. y = [s EXCEPT !.c = b]
  BY DEF C!Daa
<1>9. more = (IF u > 9 THEN 6 ELSE 0) + (IF sum > 99 THEN 96 ELSE 0)
  BY <1>7
<1>10. b = sum \div 100
  BY <1>5, <1>7 DEF C!Truth
<1> HIDE DEF low, high, b, y
<1>11. more \in C!Byte /\ 0 \in 0..1
  BY DEF C!Byte
<1> HIDE DEF more
<1>12. s \in Machines /\ C!A(s) = (C!A(z) + more + 0) % 256
  BY <1>6, <1>11, SumIsMachine, SumTells
<1> HIDE DEF s
<1>13. C!A(y) = C!A(s) /\ y.c = b
  BY <1>8, <1>12 DEF C!A, Machines
<1>14. ((w % 256) + more + 0) % 256 = C!Bcd(sum % 100)
  <2> DEFINE p == IF u > 9 THEN 6 ELSE 0
             q == IF sum > 99 THEN 96 ELSE 0
  <2>1. /\ p \in Nat /\ (u > 9 => p = 6) /\ (u <= 9 => p = 0)
        /\ q \in Nat /\ (sum > 99 => q = 96) /\ (sum <= 99 => q = 0)
    BY <1>5
  <2>2. more = p + q
    BY <1>9
  <2>3. sum \in Nat /\ sum <= 199
    BY <1>5
  <2> HIDE DEF p, q
  <2> SUFFICES ((w % 256) + p + q) % 256 = C!Bcd(sum % 100)
    BY <1>5, <2>1, <2>2
  <2>4. CASE u > 9 /\ sum > 99
    BY <1>5, <2>1, <2>3, <2>4 DEF C!Bcd
  <2>5. CASE u > 9 /\ sum <= 99
    BY <1>5, <2>1, <2>3, <2>5 DEF C!Bcd
  <2>6. CASE u <= 9 /\ sum > 99
    BY <1>5, <2>1, <2>3, <2>6 DEF C!Bcd
  <2>7. CASE u <= 9 /\ sum <= 99
    BY <1>5, <2>1, <2>3, <2>7 DEF C!Bcd
  <2> QED BY <1>5, <2>3, <2>4, <2>5, <2>6, <2>7
<1> QED BY <1>4, <1>6, <1>10, <1>12, <1>13, <1>14 DEF y, val, c, sum

LEMMA EveryMachineAddsDecimally ==
  ASSUME NEW x \in Machines
  PROVE  C!AddsDecimally(x)
<1>1. \A k \in 0..99 : k \in Nat /\ k < 100
  OBVIOUS
<1> QED BY <1>1, AdcDaaIsDecimal DEF C!AddsDecimally

(* DAA after ADC adds decimally, in every state the machine comes to. *)
THEOREM CpuAddsDecimally ==
  ASSUME C!ValuesFit
  PROVE  C!Spec => [](C!DecimalAddition /\ C!AddsDecimally(cpu))
<1>1. CpuTyped => C!DecimalAddition /\ C!AddsDecimally(cpu)
  BY EveryMachineAddsDecimally DEF CpuTyped, Done, C!DecimalAddition
<1> QED BY <1>1, CpuKeepsTypes, PTL

-----------------------------------------------------------------------------
(* What goes onto the stack comes back *)

\* An address counts only by its sixteen bits.
LEMMA BankWraps ==
  ASSUME NEW pg, NEW a \in Int, NEW b \in Int, NEW rq, a % 65536 = b % 65536
  PROVE  C!Bank(pg, a, rq) = C!Bank(pg, b, rq)
  BY DEF C!Bank

\* A read gives what was written last to the same cell, when the boot ROM does
\* not cover it, and is not touched by a write elsewhere.
LEMMA ReadAfterWrite ==
  ASSUME NEW x \in Machines, NEW a \in Int, NEW b \in Int,
         NEW qa \in BOOLEAN, NEW qb \in BOOLEAN, NEW val \in C!Byte
  PROVE  LET y == C!Write(x, a, val, qa)
             f == C!Bank(x.paging, a, qa)
             g == C!Bank(x.paging, b, qb) IN
         /\ f = g /\ g >= x.boot => C!Read(y, b, qb) = val
         /\ f # g => C!Read(y, b, qb) = C!Read(x, b, qb)
<1> DEFINE y == C!Write(x, a, val, qa)
           f == C!Bank(x.paging, a, qa)
           g == C!Bank(x.paging, b, qb)
           at == C!ToBank(f)
           bt == C!ToBank(g)
           m == [c \in DOMAIN x.bytes \cup {at} |-> IF c = at THEN val ELSE x.bytes[c]]
<1>1. f \in Cells /\ g \in Cells
  BY BankAddress DEF Machines
<1>2. f = g <=> at = bt
  <2> HIDE DEF f, g
  <2> QED BY <1>1, PlanesOneToOne
<1>3. y = [x EXCEPT !.bytes = m]
  BY DEF C!Write
<1>4. C!Read(x, b, qb) = IF g < x.boot THEN C!BootByte
                         ELSE IF bt \in DOMAIN x.bytes THEN x.bytes[bt] ELSE 0
  BY DEF C!Read
<1> HIDE DEF m, at
<1>5. y.bytes = m /\ y.paging = x.paging /\ y.boot = x.boot /\ x.boot \in Nat
  BY <1>3 DEF Machines
<1> HIDE DEF y
<1>6. C!Read(y, b, qb) = IF g < x.boot THEN C!BootByte
                         ELSE IF bt \in DOMAIN m THEN m[bt] ELSE 0
  BY <1>5 DEF C!Read
<1> HIDE DEF f, g, bt
<1>7. /\ f = g => bt \in DOMAIN m /\ m[bt] = val
      /\ f # g => (bt \in DOMAIN m <=> bt \in DOMAIN x.bytes)
      /\ f # g /\ bt \in DOMAIN m => m[bt] = x.bytes[bt]
  BY <1>2 DEF m
<1>8. g \in Int
  BY <1>1 DEF Cells
<1>9. f = g /\ g >= x.boot => C!Read(y, b, qb) = val
  BY <1>5, <1>6, <1>7, <1>8
<1>10. f # g => C!Read(y, b, qb) = C!Read(x, b, qb)
  BY <1>4, <1>6, <1>7
<1> QED BY <1>9, <1>10 DEF y, f, g

\* Every access but those to the places f and g reads in y what it reads in x.
Untouched(x, y, f, g) ==
  \A b \in Int, rq \in BOOLEAN :
    C!Bank(x.paging, b, rq) \notin {f, g} => C!Read(y, b, rq) = C!Read(x, b, rq)

\* The word written at addr is read there, and nothing else is changed by it.
LEMMA ReadAfterWriteWord ==
  ASSUME NEW x \in Machines, NEW addr \in Int, NEW next \in Int, next = addr + 1,
         NEW w \in C!Word, NEW rq \in BOOLEAN,
         C!Bank(x.paging, addr, rq) >= x.boot,
         C!Bank(x.paging, next, rq) >= x.boot
  PROVE  LET y == C!WriteWord(x, addr, w, rq) IN
         /\ C!ReadWord(y, addr, rq) = w
         /\ Untouched(x, y, C!Bank(x.paging, addr, rq), C!Bank(x.paging, next, rq))
<1> DEFINE l == C!Lo(w)
           h == C!Hi(w)
           z == C!Write(x, addr, l, rq)
           y == C!Write(z, next, h, rq)
           f == C!Bank(x.paging, addr, rq)
           g == C!Bank(x.paging, next, rq)
<1>1. l \in C!Byte /\ h \in C!Byte
  BY WordIsInt, ByteOf
<1>2. C!WriteWord(x, addr, w, rq) = y
  BY DEF C!WriteWord
<1>3. /\ f \in Int /\ g \in Int /\ f % 65536 = addr % 65536 /\ g % 65536 = next % 65536
  BY BankAddress DEF Machines, Cells
<1>4. f # g
  <2>1. addr % 65536 # next % 65536
    OBVIOUS
  <2> HIDE DEF f, g
  <2> QED BY <1>3, <2>1
<1>5. f >= x.boot /\ g >= x.boot
  OBVIOUS
<1>6. 256 * h + l = w /\ h \in Int /\ l \in Int
  BY <1>1, PairOfBytes, ByteIsInt
<1>7. C!ReadWord(y, addr, rq) = C!Read(y, addr, rq) + 256 * C!Read(y, next, rq)
  BY DEF C!ReadWord
<1> HIDE DEF l, h, z, y, f, g
<1>8. z \in Machines /\ Rewritten(x, z)
  BY <1>1, WriteIsMachine DEF z
<1>9. z.paging = x.paging /\ z.boot = x.boot
  BY <1>8 DEF Rewritten, Machines
<1>10. C!Read(z, addr, rq) = l
  BY <1>1, <1>5, ReadAfterWrite DEF z, f
<1>11. C!Read(y, next, rq) = h
  BY <1>1, <1>5, <1>8, <1>9, ReadAfterWrite DEF y, g
<1>12. C!Read(y, addr, rq) = C!Read(z, addr, rq)
  BY <1>1, <1>4, <1>8, <1>9, ReadAfterWrite DEF y, f, g
<1>13. ASSUME NEW b \in Int, NEW q \in BOOLEAN, C!Bank(x.paging, b, q) \notin {f, g}
       PROVE  C!Read(y, b, q) = C!Read(x, b, q)
  <2>1. C!Read(z, b, q) = C!Read(x, b, q)
    BY <1>1, <1>13, ReadAfterWrite DEF z, f
  <2>2. C!Read(y, b, q) = C!Read(z, b, q)
    BY <1>1, <1>8, <1>9, <1>13, ReadAfterWrite DEF y, g
  <2> QED BY <2>1, <2>2
<1>14. C!ReadWord(y, addr, rq) = w
  <2>1. C!ReadWord(y, addr, rq) = l + 256 * h
    BY <1>7, <1>10, <1>11, <1>12
  <2>2. h \in Int /\ l \in Int
    BY <1>6
  <2>3. l + 256 * h = 256 * h + l
    BY <2>2
  <2>4. 256 * h + l = w
    BY <1>6
  <2> QED BY <2>1, <2>3, <2>4
<1>15. Untouched(x, y, f, g)
  BY <1>13 DEF Untouched
<1> QED BY <1>2, <1>14, <1>15 DEF f, g

\* The machines x and y differ at most in what their instruction leaves apart
\* from registers and memory: its time, its opcode and the interrupt flags.
SameMemory(x, y) == y.paging = x.paging /\ y.boot = x.boot /\ y.bytes = x.bytes
SameButPC(x, y) == Alike(x, y) /\ y.sp = x.sp /\ SameMemory(x, y)
Same(x, y) == SameButPC(x, y) /\ y.pc = x.pc

LEMMA SameRead ==
  ASSUME NEW x, NEW y, SameMemory(x, y)
  PROVE  /\ \A a \in Int : \A rq : C!Read(y, a, rq) = C!Read(x, a, rq)
         /\ \A a \in Int : \A rq : C!ReadWord(y, a, rq) = C!ReadWord(x, a, rq)
         /\ x.sp = y.sp => C!Popped(y) = C!Popped(x)
<1>1. \A a, rq : C!Read(y, a, rq) = C!Read(x, a, rq)
  BY DEF SameMemory, C!Read
<1>2. \A a, rq : C!ReadWord(y, a, rq) = C!ReadWord(x, a, rq)
  BY <1>1 DEF C!ReadWord
<1> QED BY <1>1, <1>2 DEF C!Popped

\* The boot ROM covers none of the four cells about SP.
Uncovered(x) == \A i \in -2..1 : C!Bank(x.paging, x.sp + i, TRUE) >= x.boot

\* Where the byte of the stack lies that is n under SP.
Below(x, n) == C!Bank(x.paging, x.sp - n, TRUE)

\* y is x with w on the stack, and only there.
HasPushed(x, w, y) ==
  /\ Alike(x, y) /\ y.paging = x.paging /\ y.boot = x.boot
  /\ y.sp = (x.sp - 2) % 65536 /\ (y.sp + 2) % 65536 = x.sp
  /\ C!Popped(y) = w
  /\ Untouched(x, y, Below(x, 2), Below(x, 1))

LEMMA PushTells ==
  ASSUME NEW x \in Machines, NEW w \in C!Word, Uncovered(x)
  PROVE  LET y == C!Push(x, w) IN
         y \in Machines /\ y.pc = x.pc /\ HasPushed(x, w, y)
<1> DEFINE rq == TRUE
           sp == (x.sp - 2) % 65536
           z == [x EXCEPT !.sp = sp]
           y == C!WriteWord(z, sp, w, rq)
           next == sp + 1
           u == x.sp - 2
           v == x.sp - 1
           f == C!Bank(x.paging, sp, rq)
           g == C!Bank(x.paging, next, rq)
<1>1. /\ sp \in C!Word /\ sp \in Int /\ (sp + 2) % 65536 = x.sp /\ rq \in BOOLEAN
      /\ u \in Int /\ v \in Int /\ next \in Int
      /\ sp % 65536 = u % 65536 /\ next % 65536 = v % 65536
  BY MachineFields, WordIsInt, WrappedIsWord
<1>2. C!Push(x, w) = y
  BY DEF C!Push
<1>3. C!Bank(x.paging, u, TRUE) >= x.boot /\ C!Bank(x.paging, v, TRUE) >= x.boot
  <2>1. u = x.sp + (-2) /\ v = x.sp + (-1) /\ -2 \in -2..1 /\ -1 \in -2..1
    BY MachineFields, WordIsInt
  <2> HIDE DEF u, v
  <2> QED BY <2>1 DEF Uncovered
<1> HIDE DEF sp, next, u, v
<1>4. f = C!Bank(x.paging, u, rq) /\ g = C!Bank(x.paging, v, rq)
  <2> HIDE DEF rq
  <2> QED BY <1>1, BankWraps
<1>5. z \in Machines /\ z.sp = sp /\ Alike(x, z) /\ z.pc = x.pc /\ SameMemory(x, z)
  BY <1>1 DEF Machines, Alike, SameMemory
<1> HIDE DEF z
<1>6. y \in Machines /\ Rewritten(z, y)
  <2>1. w \in Int
    BY WordIsInt
  <2> HIDE DEF rq
  <2> QED BY <1>1, <1>5, <2>1, WriteWordIsMachine
<1>7. C!Bank(z.paging, sp, rq) >= z.boot /\ C!Bank(z.paging, next, rq) >= z.boot
  BY <1>3, <1>4, <1>5 DEF SameMemory
<1>8. /\ C!ReadWord(y, sp, rq) = w
      /\ Untouched(z, y, C!Bank(z.paging, sp, rq), C!Bank(z.paging, next, rq))
  <2>1. next = sp + 1
    BY DEF next
  <2> HIDE DEF rq
  <2> QED BY <1>1, <1>5, <1>7, <2>1, ReadAfterWriteWord
<1>9. Untouched(x, y, f, g)
  <2>1. z.paging = x.paging /\ \A b \in Int : \A q : C!Read(z, b, q) = C!Read(x, b, q)
    BY <1>5, SameRead DEF SameMemory
  <2> HIDE DEF y, rq
  <2> QED BY <1>8, <2>1 DEF Untouched
<1> HIDE DEF y, f, g
<1>10. y.sp = sp /\ Alike(x, y) /\ y.pc = x.pc /\ y.paging = x.paging /\ y.boot = x.boot
  BY <1>5, <1>6 DEF Rewritten, Machines, Alike, SameMemory
<1>11. C!Popped(y) = w
  BY <1>8, <1>10 DEF C!Popped
<1>12. HasPushed(x, w, y)
  <2>1. f = Below(x, 2) /\ g = Below(x, 1)
    BY <1>4 DEF u, v, Below
  <2>2. Untouched(x, y, Below(x, 2), Below(x, 1))
    BY <1>9, <2>1
  <2>3. y.sp = (x.sp - 2) % 65536 /\ (y.sp + 2) % 65536 = x.sp
    BY <1>1, <1>10 DEF sp
  <2> QED BY <1>10, <1>11, <2>2, <2>3 DEF HasPushed
<1> QED BY <1>2, <1>6, <1>10, <1>12

\* A register pair written back gives the registers it was read from.
LEMMA SetPairBack ==
  ASSUME NEW x \in Machines, NEW d \in Machines, NEW p \in 0..2, d.r = x.r
  PROVE  LET y == C!SetPair(d, p, C!Pair(x, p)) IN y \in Machines /\ Same(d, y)
<1> DEFINE i == 2 * p
           j == 2 * p + 1
           w == C!Pair(x, p)
           h == C!Hi(w)
           l == C!Lo(w)
           y == [d EXCEPT !.r[i] = h, !.r[j] = l]
<1>1. i \in 0..7 /\ j \in 0..7 /\ i # j
  OBVIOUS
<1>2. w = 256 * x.r[i] + x.r[j]
  BY DEF C!Pair
<1>3. C!SetPair(d, p, w) = y
  BY DEF C!SetPair
<1> HIDE DEF i, j
<1>4. h = x.r[i] /\ l = x.r[j]
  <2>1. x.r[i] \in C!Byte /\ x.r[j] \in C!Byte
    BY <1>1, MachineFields
  <2> QED BY <1>2, <2>1, BytesOfPair
<1> HIDE DEF w, h, l
<1>5. w \in Int /\ p \in 0..3
  BY PairIsWord, WordIsInt DEF w
<1>6. C!SetPair(d, p, w) \in Machines
  BY <1>5, SetPairIsMachine
<1>7. y.r = d.r
  BY <1>1, <1>4 DEF Machines, Registers
<1>8. /\ y.sp = d.sp /\ y.pc = d.pc /\ y.paging = d.paging /\ y.boot = d.boot
      /\ y.bytes = d.bytes /\ y.s = d.s /\ y.z = d.z /\ y.h = d.h /\ y.p = d.p /\ y.c = d.c
  BY DEF Machines
<1> HIDE DEF y
<1> QED BY <1>3, <1>6, <1>7, <1>8 DEF Same, SameButPC, Alike, SameMemory, w

\* The bits of a word whose low byte is that of the flags.
LEMMA PswBits ==
  ASSUME NEW a \in Nat, NEW s \in 0..1, NEW z \in 0..1, NEW h \in 0..1,
         NEW p \in 0..1, NEW c \in 0..1, NEW w \in Nat,
         w = 256 * a + 128 * s + 64 * z + 16 * h + 4 * p + 2 + c
  PROVE  /\ C!Bit(w, 7) = s /\ C!Bit(w, 6) = z /\ C!Bit(w, 4) = h
         /\ C!Bit(w, 2) = p /\ C!Bit(w, 0) = c
<1>1. w \div 128 = 2 * a + s
  OBVIOUS
<1>2. w \div 64 = 4 * a + 2 * s + z
  OBVIOUS
<1>3. w \div 16 = 16 * a + 8 * s + 4 * z + h
  OBVIOUS
<1>4. w \div 4 = 64 * a + 32 * s + 16 * z + 4 * h + p
  OBVIOUS
<1>5. (2 * a + s) % 2 = s
  OBVIOUS
<1>6. (4 * a + 2 * s + z) % 2 = z
  OBVIOUS
<1>7. (16 * a + 8 * s + 4 * z + h) % 2 = h
  OBVIOUS
<1>8. (64 * a + 32 * s + 16 * z + 4 * h + p) % 2 = p
  OBVIOUS
<1>9. w % 2 = c
  OBVIOUS
<1>10. /\ C!Bit(w, 7) = (w \div 128) % 2 /\ C!Bit(w, 6) = (w \div 64) % 2
       /\ C!Bit(w, 4) = (w \div 16) % 2 /\ C!Bit(w, 2) = (w \div 4) % 2
       /\ C!Bit(w, 0) = w % 2
  BY DEF C!Bit
<1> QED BY <1>1, <1>2, <1>3, <1>4, <1>5, <1>6, <1>7, <1>8, <1>9, <1>10

\* So do A and the flags.
LEMMA SetPswBack ==
  ASSUME NEW x \in Machines, NEW d \in Machines, d.r = x.r
  PROVE  LET y == C!SetPsw(d, C!Psw(x)) IN
         y \in Machines /\ y.sp = d.sp /\ y.pc = d.pc /\ SameMemory(d, y) /\ Alike(x, y)
<1> DEFINE w == C!Psw(x)
           a == C!A(x)
           l == 128 * x.s + 64 * x.z + 16 * x.h + 4 * x.p + 2 + x.c
           b7 == C!Bit(w, 7)
           b6 == C!Bit(w, 6)
           b4 == C!Bit(w, 4)
           b2 == C!Bit(w, 2)
           b0 == C!Bit(w, 0)
           h == C!Hi(w)
           z == C!Put(d, 7, h)
           y == [z EXCEPT !.s = b7, !.z = b6, !.h = b4, !.p = b2, !.c = b0]
<1>1. w \in C!Word /\ a \in C!Byte
  BY PswIsWord, AIsByte
<1>2. x.s \in 0..1 /\ x.z \in 0..1 /\ x.h \in 0..1 /\ x.p \in 0..1 /\ x.c \in 0..1
  BY MachineFields
<1>3. l \in Nat /\ l < 256 /\ w = 256 * a + l
  <2>1. w = 256 * a + 128 * x.s + 64 * x.z + 16 * x.h + 4 * x.p + 2 + x.c
    BY DEF C!Psw
  <2> HIDE DEF w, a
  <2> QED BY <1>1, <1>2, <2>1 DEF C!Byte
<1>4. b7 = x.s /\ b6 = x.z /\ b4 = x.h /\ b2 = x.p /\ b0 = x.c
  <2> DEFINE fs == x.s
             fz == x.z
             fh == x.h
             fp == x.p
             fc == x.c
  <2>1. /\ fs \in 0..1 /\ fz \in 0..1 /\ fh \in 0..1 /\ fp \in 0..1 /\ fc \in 0..1
        /\ a \in Nat /\ w \in Nat
    BY <1>1, <1>2, ByteIsInt, WordIsInt
  <2>2. w = 256 * a + 128 * fs + 64 * fz + 16 * fh + 4 * fp + 2 + fc
    BY DEF C!Psw
  <2> HIDE DEF w, a, fs, fz, fh, fp, fc
  <2>3. b7 = fs /\ b6 = fz /\ b4 = fh /\ b2 = fp /\ b0 = fc
    BY <2>1, <2>2, PswBits
  <2> QED BY <2>3 DEF fs, fz, fh, fp, fc
<1>5. h = a
  <2> HIDE DEF w, a, l
  <2> QED BY <1>1, <1>3 DEF C!Hi, C!Byte
<1>6. C!SetPsw(d, w) = y
  BY DEF C!SetPsw
<1>7. C!SetPsw(d, w) \in Machines
  BY <1>1, SetPswIsMachine
<1> HIDE DEF w, b7, b6, b4, b2, b0, h
<1>8. z = [d EXCEPT !.r[7] = h]
  BY DEF C!Put
<1>9. z.r = d.r /\ z.sp = d.sp /\ z.pc = d.pc /\ SameMemory(d, z) /\ z \in Machines
  <2>1. h = d.r[7] /\ h \in C!Byte
    BY <1>1, <1>5 DEF C!A
  <2> HIDE DEF z
  <2> QED BY <1>8, <2>1 DEF Machines, Registers, SameMemory
<1> HIDE DEF z
<1>10. /\ y.r = z.r /\ y.sp = z.sp /\ y.pc = z.pc /\ SameMemory(z, y)
       /\ y.s = b7 /\ y.z = b6 /\ y.h = b4 /\ y.p = b2 /\ y.c = b0
  BY <1>9 DEF Machines, SameMemory
<1> HIDE DEF y
<1> QED BY <1>4, <1>6, <1>7, <1>9, <1>10 DEF Alike, SameMemory, w

LEMMA HighThen ==
  ASSUME NEW x \in Machines, NEW y \in 0..7, NEW z \in 0..7,
         NEW op, op = 192 + 8 * y + z
  PROVE  LET q == C!High(x, y, z, 0)
             e == C!Then(x, op) IN
         q \in Machines /\ e \in Machines /\ Same(q, e)
<1> DEFINE in == 0
           q == C!High(x, y, z, in)
           e == C!Execute(x, op, in)
<1>1. in \in C!Byte /\ op \in C!Byte /\ op \in 192..255 /\ op \in Int
  BY DEF C!Byte
<1>2. (op \div 8) % 8 = y /\ op % 8 = z
  OBVIOUS
<1>3. C!Then(x, op) = e
  BY DEF C!Then
<1>4. Row(x, op, in) = q
  <2>1. op \notin 0..63 /\ op \notin 64..127 /\ op \notin 128..191
    BY <1>1
  <2> HIDE DEF in
  <2> QED BY <1>1, <1>2, <2>1 DEF Row
<1> HIDE DEF in
<1>5. q \in Machines
  BY <1>1, HighIsDone DEF Done
<1>6. e \in Machines
  BY <1>1, ExecuteIsDone DEF Done
<1>7. Same(q, e)
  <2>1. Row(x, op, in) \in Machines
    BY <1>4, <1>5
  <2> HIDE DEF q, e
  <2> QED BY <1>4, <2>1, ExecuteRow DEF Same, SameButPC, SameMemory, e
<1> QED BY <1>3, <1>5, <1>6, <1>7 DEF in

LEMMA TookSame ==
  ASSUME NEW x \in Machines, NEW cyc, NEW v
  PROVE  Same(x, C!Took(x, cyc, v))
  BY DEF Same, SameButPC, SameMemory, Alike, C!Took, Machines

LEMMA SameTrans ==
  ASSUME NEW x, NEW y, NEW z
  PROVE  /\ Same(x, y) /\ Same(y, z) => Same(x, z)
         /\ SameButPC(x, y) /\ Same(y, z) => SameButPC(x, z) /\ z.pc = y.pc
  BY DEF Same, SameButPC, SameMemory, Alike

LEMMA SameHasPushed ==
  ASSUME NEW x, NEW w, NEW y, NEW z, HasPushed(x, w, y), SameButPC(y, z)
  PROVE  HasPushed(x, w, z)
<1>1. C!Popped(z) = C!Popped(y) /\ \A a \in Int : \A rq : C!Read(z, a, rq) = C!Read(y, a, rq)
  BY SameRead DEF SameButPC
<1>2. Untouched(x, z, Below(x, 2), Below(x, 1))
  BY <1>1 DEF HasPushed, Untouched
<1> QED BY <1>1, <1>2 DEF HasPushed, SameButPC, SameMemory, Alike

\* What PUSH puts onto the stack.
Saved(x, k) == IF k = 6 THEN C!Psw(x) ELSE C!Pair(x, k \div 2)

LEMMA ThenPush ==
  ASSUME NEW x \in Machines, NEW k \in {0, 2, 4, 6}, Uncovered(x), NEW op, op = 197 + 8 * k
  PROVE  LET y == C!Then(x, op) IN
         y \in Machines /\ y.pc = x.pc /\ HasPushed(x, Saved(x, k), y)
<1> DEFINE w == Saved(x, k)
           q == C!Push(x, w)
           h == C!High(x, k, 5, 0)
           y == C!Then(x, op)
<1>1. k \in 0..7 /\ op = 192 + 8 * k + 5 /\ k \div 2 \in 0..3
  OBVIOUS
<1>2. w \in C!Word
  BY <1>1, PswIsWord, PairIsWord DEF Saved
<1>3. h = C!Took(q, 11, 16)
  BY DEF C!High, C!Stack, Saved
<1> HIDE DEF w
<1>4. q \in Machines /\ q.pc = x.pc /\ HasPushed(x, w, q)
  BY <1>2, PushTells
<1>5. y \in Machines /\ Same(h, y)
  BY <1>1, HighThen
<1> HIDE DEF q, h, y
<1>6. Same(q, y)
  BY <1>3, <1>4, <1>5, TookSame, SameTrans
<1>7. y.pc = x.pc /\ HasPushed(x, w, y)
  BY <1>4, <1>6, SameHasPushed DEF Same
<1> QED BY <1>5, <1>7 DEF w, y

LEMMA ThenCall ==
  ASSUME NEW x \in Machines, Uncovered(x)
  PROVE  LET y == C!Then(x, 205) IN
         y \in Machines /\ HasPushed(x, (x.pc + 2) % 65536, y)
<1> DEFINE w == (x.pc + 2) % 65536
           q == C!Push(x, w)
           d == C!Data16(q)
           j == [q EXCEPT !.pc = d]
           h == C!High(x, 1, 5, 0)
           y == C!Then(x, 205)
<1>1. w \in C!Word
  BY MachineFields, WordIsInt, WrappedIsWord
<1>2. h = C!Took(j, 17, 24)
  BY DEF C!High, C!Stack, C!Call
<1>3. y \in Machines /\ Same(h, y)
  BY HighThen
<1> HIDE DEF w, h, y
<1>4. q \in Machines /\ HasPushed(x, w, q)
  BY <1>1, PushTells
<1>5. d \in C!Word
  BY <1>4, DataAreData
<1> HIDE DEF q, d
<1>6. j \in Machines /\ SameButPC(q, j)
  BY <1>4, <1>5 DEF Machines, SameButPC, SameMemory, Alike
<1> HIDE DEF j
<1>7. Same(j, y)
  BY <1>2, <1>3, <1>6, TookSame, SameTrans
<1>8. HasPushed(x, w, y)
  BY <1>4, <1>6, <1>7, SameTrans, SameHasPushed
<1> QED BY <1>3, <1>8 DEF w, y

LEMMA ThenRst ==
  ASSUME NEW x \in Machines, NEW k \in 0..7, Uncovered(x), NEW op, op = 199 + 8 * k
  PROVE  LET y == C!Then(x, op) IN
         y \in Machines /\ HasPushed(x, x.pc, y)
<1> DEFINE w == x.pc
           to == 8 * k
           q == C!Push(x, w)
           j == [q EXCEPT !.pc = to]
           h == C!High(x, k, 7, 0)
           y == C!Then(x, op)
<1>1. w \in C!Word /\ to \in C!Word
  BY MachineFields DEF C!Word
<1>2. h = C!Took(j, 11, 16)
  BY DEF C!High, C!Rst
<1>3. op = 192 + 8 * k + 7
  OBVIOUS
<1>4. y \in Machines /\ Same(h, y)
  BY <1>3, HighThen
<1> HIDE DEF w, h, y, to
<1>5. q \in Machines /\ HasPushed(x, w, q)
  BY <1>1, PushTells
<1> HIDE DEF q
<1>6. j \in Machines /\ SameButPC(q, j)
  BY <1>1, <1>5 DEF Machines, SameButPC, SameMemory, Alike
<1> HIDE DEF j
<1>7. Same(j, y)
  BY <1>2, <1>4, <1>6, TookSame, SameTrans
<1>8. HasPushed(x, w, y)
  BY <1>5, <1>6, <1>7, SameTrans, SameHasPushed
<1> QED BY <1>4, <1>8 DEF w, y

LEMMA DropTells ==
  ASSUME NEW x \in Machines
  PROVE  LET y == C!Drop(x) IN
         /\ y \in Machines /\ Alike(x, y) /\ SameMemory(x, y)
         /\ y.pc = x.pc /\ y.sp = (x.sp + 2) % 65536
  BY PopIsMachine DEF C!Drop, Machines, Alike, SameMemory

LEMMA ThenRet ==
  ASSUME NEW x \in Machines
  PROVE  LET y == C!Then(x, 201) IN
         Alike(x, y) /\ y.sp = (x.sp + 2) % 65536 /\ y.pc = C!Popped(x)
<1> DEFINE w == C!Popped(x)
           d == C!Drop(x)
           j == [d EXCEPT !.pc = w]
           h == C!High(x, 1, 1, 0)
           y == C!Then(x, 201)
<1>1. w \in C!Word
  BY PopIsMachine
<1>2. h = C!Took(j, 10, 12)
  BY DEF C!High, C!Unstack, C!Ret
<1>3. Same(h, y)
  BY HighThen
<1> HIDE DEF w, h, y
<1>4. d \in Machines /\ Alike(x, d) /\ d.sp = (x.sp + 2) % 65536
  BY DropTells
<1> HIDE DEF d
<1>5. j \in Machines /\ Alike(d, j) /\ j.sp = d.sp /\ j.pc = w
  BY <1>1, <1>4 DEF Machines, Alike
<1> HIDE DEF j
<1>6. Same(j, y)
  BY <1>2, <1>3, <1>5, TookSame, SameTrans
<1> QED BY <1>4, <1>5, <1>6 DEF Same, SameButPC, Alike, w, y

\* POP gives back what PUSH has saved of the machine s, whose registers are still
\* those of x.
LEMMA ThenPop ==
  ASSUME NEW s \in Machines, NEW x \in Machines, NEW k \in {0, 2, 4, 6},
         Alike(s, x), C!Popped(x) = Saved(s, k), NEW op, op = 193 + 8 * k
  PROVE  LET y == C!Then(x, op) IN
         Alike(s, y) /\ y.sp = (x.sp + 2) % 65536 /\ y.pc = x.pc
<1> DEFINE w == C!Popped(x)
           d == C!Drop(x)
           h == C!High(x, k, 1, 0)
           y == C!Then(x, op)
<1>1. k \in 0..7 /\ op = 192 + 8 * k + 1
  OBVIOUS
<1>2. Same(h, y) /\ h \in Machines
  BY <1>1, HighThen
<1>3. d \in Machines /\ Alike(s, d) /\ d.sp = (x.sp + 2) % 65536 /\ d.pc = x.pc /\ d.r = s.r
  BY DropTells DEF Alike
<1>4. CASE k \in {0, 2, 4}
  <2> DEFINE p == k \div 2
             q == C!SetPair(d, p, w)
  <2>1. h = C!Took(q, 11, 12)
    BY <1>4 DEF C!High, C!Unstack
  <2>2. p \in 0..2 /\ w = C!Pair(s, p)
    BY <1>4 DEF Saved
  <2> HIDE DEF p, w, d, h, y
  <2>3. q \in Machines /\ Alike(d, q) /\ q.sp = d.sp /\ q.pc = d.pc
    <3>1. d.r = s.r
      BY <1>3
    <3>2. q \in Machines /\ Same(d, q)
      BY <1>3, <2>2, <3>1, SetPairBack
    <3> HIDE DEF q
    <3> QED BY <3>2 DEF Same, SameButPC
  <2> HIDE DEF q
  <2>4. Same(q, y)
    BY <1>2, <2>1, <2>3, TookSame, SameTrans
  <2> QED BY <1>3, <2>3, <2>4 DEF Same, SameButPC, Alike, y
<1>5. CASE k = 6
  <2> DEFINE q == C!SetPsw(d, w)
  <2>1. h = C!Took(q, 10, 12)
    BY <1>5 DEF C!High, C!Unstack
  <2>2. w = C!Psw(s)
    BY <1>5 DEF Saved
  <2> HIDE DEF w, d, h, y
  <2>3. q \in Machines /\ Alike(s, q) /\ q.sp = d.sp /\ q.pc = d.pc
    BY <1>3, <2>2, SetPswBack
  <2> HIDE DEF q
  <2>4. Same(q, y)
    BY <1>2, <2>1, <2>3, TookSame, SameTrans
  <2> QED BY <1>3, <2>3, <2>4 DEF Same, SameButPC, Alike, y
<1> QED BY <1>4, <1>5

\* XTHL: HL and the word on the stack have changed places.
Exchanged(x, y) ==
  /\ y.s = x.s /\ y.z = x.z /\ y.h = x.h /\ y.p = x.p /\ y.c = x.c
  /\ y.sp = x.sp /\ y.pc = x.pc /\ y.paging = x.paging /\ y.boot = x.boot
  /\ y.r[4] = C!Hi(C!Popped(x)) /\ y.r[5] = C!Lo(C!Popped(x))
  /\ \A i \in {0, 1, 2, 3, 6, 7} : y.r[i] = x.r[i]
  /\ C!Popped(y) = C!Pair(x, C!HL)

LEMMA XthlTells ==
  ASSUME NEW x \in Machines, Uncovered(x)
  PROVE  C!Xthl(x) \in Machines /\ Exchanged(x, C!Xthl(x))
<1> DEFINE sp == x.sp
           next == sp + 1
           rq == TRUE
           hl == C!Pair(x, C!HL)
           w == C!Popped(x)
           h == C!Hi(w)
           l == C!Lo(w)
           m == C!WriteWord(x, sp, hl, rq)
           y == [m EXCEPT !.r[4] = h, !.r[5] = l]
<1>1. /\ sp \in Int /\ next \in Int /\ rq \in BOOLEAN /\ hl \in C!Word /\ hl \in Int
      /\ w \in C!Word /\ h \in C!Byte /\ l \in C!Byte
  BY MachineFields, PairIsWord, PopIsMachine, WordIsInt, ByteOf DEF C!HL
<1>2. C!Xthl(x) = y
  BY DEF C!Xthl, C!SetPair, C!HL
<1>3. C!Bank(x.paging, sp, rq) >= x.boot /\ C!Bank(x.paging, next, rq) >= x.boot
  <2>1. sp = x.sp + 0 /\ next = x.sp + 1 /\ 0 \in -2..1 /\ 1 \in -2..1
    BY MachineFields, WordIsInt
  <2> HIDE DEF sp, next
  <2> QED BY <2>1 DEF Uncovered
<1>4. next = sp + 1
  OBVIOUS
<1> HIDE DEF sp, next, rq, hl, w, h, l
<1>5. m \in Machines /\ Rewritten(x, m) /\ C!ReadWord(m, sp, rq) = hl
  BY <1>1, <1>3, <1>4, WriteWordIsMachine, ReadAfterWriteWord
<1> HIDE DEF m
<1>6. /\ m.r = x.r /\ m.s = x.s /\ m.z = x.z /\ m.h = x.h /\ m.p = x.p /\ m.c = x.c
      /\ m.sp = x.sp /\ m.pc = x.pc /\ m.paging = x.paging /\ m.boot = x.boot
  BY <1>5 DEF Rewritten, Machines
<1>7. y \in Machines
  BY <1>1, <1>2, XthlIsMachine
<1>8. /\ y.r = [m.r EXCEPT ![4] = h, ![5] = l]
      /\ y.s = m.s /\ y.z = m.z /\ y.h = m.h /\ y.p = m.p /\ y.c = m.c
      /\ y.sp = m.sp /\ y.pc = m.pc /\ SameMemory(m, y)
  BY <1>5 DEF Machines, SameMemory
<1> HIDE DEF y
<1>9. y.r[4] = h /\ y.r[5] = l /\ \A i \in {0, 1, 2, 3, 6, 7} : y.r[i] = x.r[i]
  <2>1. m.r \in [0..7 -> C!Byte]
    BY <1>5 DEF Machines, Registers
  <2> QED BY <1>6, <1>8, <2>1
<1>10. C!Popped(y) = hl
  <2>1. C!ReadWord(y, sp, rq) = hl
    BY <1>1, <1>5, <1>8, SameRead
  <2>2. y.sp = sp
    BY <1>6, <1>8 DEF sp
  <2> QED BY <2>1, <2>2 DEF C!Popped, rq
<1>11. Exchanged(x, y)
  BY <1>6, <1>8, <1>9, <1>10 DEF Exchanged, SameMemory, h, l, w, hl
<1> QED BY <1>2, <1>7, <1>11

LEMMA ThenXthl ==
  ASSUME NEW x \in Machines, Uncovered(x)
  PROVE  LET y == C!Then(x, 227) IN
         y \in Machines /\ Exchanged(x, y) /\ Uncovered(y)
<1> DEFINE q == C!Xthl(x)
           h == C!High(x, 4, 3, 0)
           y == C!Then(x, 227)
<1>1. h = C!Took(q, 18, 24)
  BY DEF C!High, C!Miscellaneous
<1>2. y \in Machines /\ Same(h, y)
  BY HighThen
<1>3. q \in Machines /\ Exchanged(x, q)
  BY XthlTells
<1> HIDE DEF q, h, y
<1>4. Same(q, y)
  BY <1>1, <1>2, <1>3, TookSame, SameTrans
<1>5. C!Popped(y) = C!Popped(q)
  BY <1>4, SameRead DEF Same, SameButPC
<1>6. Exchanged(x, y)
  BY <1>3, <1>4, <1>5 DEF Exchanged, Same, SameButPC, SameMemory, Alike
<1>7. Uncovered(y)
  BY <1>6 DEF Uncovered, Exchanged
<1> QED BY <1>2, <1>6, <1>7 DEF y

LEMMA XthlTwice ==
  ASSUME NEW x \in Machines, NEW y \in Machines, NEW z \in Machines,
         Exchanged(x, y), Exchanged(y, z)
  PROVE  C!Registers(z) = C!Registers(x) /\ C!Popped(z) = C!Popped(x)
<1> DEFINE w == C!Popped(x)
<1>1. w \in C!Word
  BY PopIsMachine
<1>2. /\ \A i \in 0..7 : x.r[i] \in C!Byte
      /\ x.r \in [0..7 -> C!Byte] /\ z.r \in [0..7 -> C!Byte]
  BY DEF Machines, Registers
<1>3. C!Pair(x, C!HL) = 256 * x.r[4] + x.r[5] /\ C!Pair(y, C!HL) = 256 * y.r[4] + y.r[5]
  BY DEF C!Pair, C!HL
<1>4. z.r[4] = x.r[4] /\ z.r[5] = x.r[5]
  <2> DEFINE h == x.r[4]
             l == x.r[5]
             hl == 256 * h + l
  <2>1. h \in C!Byte /\ l \in C!Byte
    BY <1>2
  <2>2. z.r[4] = C!Hi(hl) /\ z.r[5] = C!Lo(hl)
    BY <1>3 DEF Exchanged
  <2> HIDE DEF h, l
  <2>3. C!Hi(hl) = h /\ C!Lo(hl) = l
    BY <2>1, BytesOfPair
  <2> QED BY <2>2, <2>3 DEF h, l
<1>5. \A i \in 0..7 : z.r[i] = x.r[i]
  <2>1. \A i \in {0, 1, 2, 3, 6, 7} : z.r[i] = x.r[i]
    BY DEF Exchanged
  <2> QED BY <1>4, <2>1
<1>6. z.r = x.r
  BY <1>2, <1>5
<1>7. C!Popped(z) = w
  <2>1. C!Popped(z) = 256 * C!Hi(w) + C!Lo(w)
    BY <1>3 DEF Exchanged
  <2> HIDE DEF w
  <2> QED BY <1>1, <2>1, PairOfBytes
<1> QED BY <1>6, <1>7 DEF Exchanged, C!Registers

\* With the stack on its own page and no window open, a data access and an access
\* to the stack meet in no cell.
LEMMA OwnPage ==
  ASSUME NEW pg \in Pagings, NEW a \in Int, NEW b \in Int, NEW rq \in BOOLEAN,
         pg.stack, pg.map = {}
  PROVE  C!Bank(pg, a, FALSE) # C!Bank(pg, b, TRUE)
<1> DEFINE k == pg.page_stack
           f == C!Bank(pg, a, FALSE)
           g == C!Bank(pg, b, TRUE)
<1>1. f = a % 65536
  BY DEF C!Bank
<1>2. g = (b % 65536) + 65536 * k
  BY DEF C!Bank
<1>3. k \in 1..4
  BY DEF Pagings
<1> HIDE DEF k, f, g
<1>4. f # g
  BY <1>1, <1>2, <1>3
<1> QED BY <1>4 DEF f, g

LEMMA PushPop ==
  ASSUME NEW x \in Machines, Uncovered(x), NEW k \in {0, 2, 4, 6}
  PROVE  C!Registers(C!Then(C!Then(x, 197 + 8 * k), 193 + 8 * k)) = C!Registers(x)
<1> DEFINE push == 197 + 8 * k
           pop == 193 + 8 * k
           y == C!Then(x, push)
           z == C!Then(y, pop)
<1>1. push = 197 + 8 * k /\ pop = 193 + 8 * k
  OBVIOUS
<1> HIDE DEF push, pop
<1>2. y \in Machines /\ y.pc = x.pc /\ HasPushed(x, Saved(x, k), y)
  BY <1>1, ThenPush
<1> HIDE DEF y
<1>3. Alike(x, y) /\ C!Popped(y) = Saved(x, k) /\ (y.sp + 2) % 65536 = x.sp
  BY <1>2 DEF HasPushed
<1>4. Alike(x, z) /\ z.sp = (y.sp + 2) % 65536 /\ z.pc = y.pc
  BY <1>1, <1>2, <1>3, ThenPop
<1> HIDE DEF z
<1>5. C!Registers(z) = C!Registers(x)
  BY <1>2, <1>3, <1>4 DEF C!Registers, Alike
<1> QED BY <1>1, <1>5 DEF z, y

LEMMA CallRet ==
  ASSUME NEW x \in Machines, Uncovered(x)
  PROVE  C!Registers(C!Then(C!Then(x, 205), 201)) = C!Registers(C!Skip(x, 2))
<1> DEFINE y == C!Then(x, 205)
           z == C!Then(y, 201)
           pc == (x.pc + 2) % 65536
           s == C!Skip(x, 2)
<1>1. s.r = x.r /\ s.s = x.s /\ s.z = x.z /\ s.h = x.h /\ s.p = x.p /\ s.c = x.c
      /\ s.sp = x.sp /\ s.pc = pc
  BY DEF C!Skip, Machines
<1> HIDE DEF s, pc
<1>2. y \in Machines /\ HasPushed(x, pc, y)
  BY ThenCall DEF pc
<1> HIDE DEF y
<1>3. Alike(x, y) /\ C!Popped(y) = pc /\ (y.sp + 2) % 65536 = x.sp
  BY <1>2 DEF HasPushed
<1>4. Alike(y, z) /\ z.sp = (y.sp + 2) % 65536 /\ z.pc = C!Popped(y)
  BY <1>2, ThenRet
<1> HIDE DEF z
<1>5. C!Registers(z) = C!Registers(s)
  BY <1>1, <1>3, <1>4 DEF C!Registers, Alike
<1> QED BY <1>5 DEF z, y, s

LEMMA RstRet ==
  ASSUME NEW x \in Machines, Uncovered(x), NEW k \in 0..7
  PROVE  C!Registers(C!Then(C!Then(x, 199 + 8 * k), 201)) = C!Registers(x)
<1> DEFINE rst == 199 + 8 * k
           y == C!Then(x, rst)
           z == C!Then(y, 201)
<1>1. rst = 199 + 8 * k
  OBVIOUS
<1> HIDE DEF rst
<1>2. y \in Machines /\ HasPushed(x, x.pc, y)
  BY <1>1, ThenRst
<1> HIDE DEF y
<1>3. Alike(x, y) /\ C!Popped(y) = x.pc /\ (y.sp + 2) % 65536 = x.sp
  BY <1>2 DEF HasPushed
<1>4. Alike(y, z) /\ z.sp = (y.sp + 2) % 65536 /\ z.pc = C!Popped(y)
  BY <1>2, ThenRet
<1> HIDE DEF z
<1>5. C!Registers(z) = C!Registers(x)
  BY <1>3, <1>4 DEF C!Registers, Alike
<1> QED BY <1>1, <1>5 DEF z, y

LEMMA PushOnOwnPage ==
  ASSUME NEW x \in Machines, Uncovered(x), x.paging.stack, x.paging.map = {},
         NEW addr \in Int
  PROVE  C!Read(C!Then(x, 197), addr, FALSE) = C!Read(x, addr, FALSE)
<1> DEFINE k == 0
           push == 197
           y == C!Then(x, push)
           rq == FALSE
           f == Below(x, 2)
           g == Below(x, 1)
<1>1. k \in {0, 2, 4, 6} /\ push = 197 + 8 * k /\ rq \in BOOLEAN
  OBVIOUS
<1>2. C!Bank(x.paging, addr, FALSE) \notin {f, g}
  <2>1. x.sp - 2 \in Int /\ x.sp - 1 \in Int /\ x.paging \in Pagings
    BY MachineFields, WordIsInt DEF Machines
  <2> QED BY <2>1, OwnPage DEF Below
<1>3. C!Bank(x.paging, addr, rq) \notin {f, g}
  BY <1>2
<1> HIDE DEF k, push, rq, f, g
<1>4. HasPushed(x, Saved(x, k), y)
  BY <1>1, ThenPush
<1> HIDE DEF y
<1>5. C!Read(y, addr, rq) = C!Read(x, addr, rq)
  BY <1>1, <1>3, <1>4 DEF HasPushed, Untouched, f, g
<1> QED BY <1>5 DEF y, push, rq

LEMMA EveryStackComesBack ==
  ASSUME NEW x \in Machines
  PROVE  C!StackComesBack(x)
<1> SUFFICES ASSUME Uncovered(x)
             PROVE  /\ \A k \in {0, 2, 4, 6} :
                         C!Registers(C!Then(C!Then(x, 197 + 8 * k), 193 + 8 * k)) = C!Registers(x)
                    /\ C!Registers(C!Then(C!Then(x, 205), 201)) = C!Registers(C!Skip(x, 2))
                    /\ \A k \in 0..7 :
                         C!Registers(C!Then(C!Then(x, 199 + 8 * k), 201)) = C!Registers(x)
                    /\ LET y == C!Then(C!Then(x, 227), 227) IN
                       C!Registers(y) = C!Registers(x) /\ C!Popped(y) = C!Popped(x)
                    /\ x.paging.stack /\ x.paging.map = {} =>
                         \A addr \in {x.sp - 2, x.sp - 1} :
                           C!Read(C!Then(x, 197), addr, FALSE) = C!Read(x, addr, FALSE)
  BY DEF C!StackComesBack, Uncovered
<1>1. \A k \in {0, 2, 4, 6} :
         C!Registers(C!Then(C!Then(x, 197 + 8 * k), 193 + 8 * k)) = C!Registers(x)
  BY PushPop
<1>2. C!Registers(C!Then(C!Then(x, 205), 201)) = C!Registers(C!Skip(x, 2))
  BY CallRet
<1>3. \A k \in 0..7 : C!Registers(C!Then(C!Then(x, 199 + 8 * k), 201)) = C!Registers(x)
  BY RstRet
<1>4. LET y == C!Then(C!Then(x, 227), 227) IN
      C!Registers(y) = C!Registers(x) /\ C!Popped(y) = C!Popped(x)
  <2> DEFINE op == 227
             y == C!Then(x, op)
             z == C!Then(y, op)
  <2>1. y \in Machines /\ Exchanged(x, y) /\ Uncovered(y)
    BY ThenXthl
  <2> HIDE DEF y
  <2>2. z \in Machines /\ Exchanged(y, z)
    BY <2>1, ThenXthl
  <2> HIDE DEF z
  <2>3. C!Registers(z) = C!Registers(x) /\ C!Popped(z) = C!Popped(x)
    BY <2>1, <2>2, XthlTwice
  <2> QED BY <2>3 DEF z, y
<1>5. x.paging.stack /\ x.paging.map = {} =>
         \A addr \in {x.sp - 2, x.sp - 1} :
           C!Read(C!Then(x, 197), addr, FALSE) = C!Read(x, addr, FALSE)
  <2> SUFFICES ASSUME x.paging.stack, x.paging.map = {},
                      NEW addr \in {x.sp - 2, x.sp - 1}
               PROVE  C!Read(C!Then(x, 197), addr, FALSE) = C!Read(x, addr, FALSE)
    OBVIOUS
  <2>1. addr \in Int
    BY MachineFields, WordIsInt
  <2> QED BY <2>1, PushOnOwnPage
<1> QED BY <1>1, <1>2, <1>3, <1>4, <1>5

(* What goes onto the stack comes back, in every state the machine comes to. *)
THEOREM CpuStackComesBack ==
  ASSUME C!ValuesFit
  PROVE  C!Spec => [](C!StackRoundTrip /\ C!StackComesBack(cpu))
<1>1. CpuTyped => C!StackRoundTrip /\ C!StackComesBack(cpu)
  BY EveryStackComesBack DEF CpuTyped, Done, C!StackRoundTrip
<1> QED BY <1>1, CpuKeepsTypes, PTL

====
