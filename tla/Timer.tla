-------------------------------- MODULE Timer --------------------------------
(***************************************************************************)
(* One counter of the 8253 and its image.  The program's port writes go to *)
(* the chip itself (CounterUnit, 8253.h) and, as events, to a mirror       *)
(* (TimerChannel, sound.cpp) that the sound is made from: integrate_timer  *)
(* takes a whole sample at once where CounterUnit counts clock by clock.   *)
(* Clocked says whether the chip gets its clocks.  With them it is the     *)
(* reference test/test_8253.cpp measures the mirror against; in the PSP    *)
(* program it gets none, as nobody calls I8253::Count.                     *)
(*                                                                         *)
(* Writes fall on sample boundaries, which is when the events are applied. *)
(* Binary counting only.                                                   *)
(***************************************************************************)
EXTENDS Integers

CONSTANTS
  Base,     \* values of a byte, 256 in the code
  Bytes,    \* bytes the program may write, a subset of 0..(Base - 1)
  SampleLengths,  \* clocks of a sample, {33, 34} in the code
  Clocked,  \* TRUE: the chip counts; FALSE: it does not, as in the PSP program
  MaxPortAccesses  \* bound: accesses of the program, of any number of samples

\* A byte is one of Base values, and a sample takes a clock at least.
CountersFit ==
  Base \in Nat /\ Bytes \subseteq 0..(Base - 1) /\ SampleLengths \subseteq Nat \ {0}

VARIABLES
  chip,     \* the counter the CPU reads
  mirror,   \* Soundnik::timer_ch
  exact,    \* the program has kept to what the mirror reproduces
  accesses, \* port accesses so far
  sample    \* the last sample: clocks high in the mirror and in the counter, levels

vars == <<chip, mirror, exact, accesses, sample>>

Wide == Base * Base
LATCH_DELAY == 1

-----------------------------------------------------------------------------
(* CounterUnit *)

\* The constructor leaves out and latch_mode as they are.
Counters ==
  {[write_state |-> 0, latch_mode |-> l, out |-> o,
    value |-> 0, mode |-> 0, lsb |-> 0, loadvalue |-> 0, armed |-> FALSE,
    load |-> FALSE, enabled |-> FALSE, delay |-> 0, high |-> 0] :
     l \in 0..3, o \in 0..1}

\* Mode 0 counts down once, and on through zero.
TickOnce(u) ==
  LET v    == IF u.load THEN u.loadvalue ELSE u.value
      out  == IF u.load THEN 0 ELSE u.out
      arm  == u.load \/ u.armed
      over == v - 1 <= 0 IN
  [u EXCEPT !.enabled = TRUE, !.load = FALSE,
            !.armed = arm /\ ~over,
            !.value = IF over THEN v - 1 + Wide ELSE v - 1,
            !.out   = IF over /\ arm /\ v # 0 THEN 1 ELSE out,
            !.high  = IF over /\ arm THEN 2 - v ELSE out]

\* Modes 1 and 2: the level does not change, and mode 1 does not load the value.
TickRate(u) ==
  LET v == (IF u.load /\ ~u.enabled /\ u.mode = 2 THEN u.loadvalue ELSE u.value) - 1
      reload == IF u.loadvalue = 0 THEN Wide
                ELSE u.loadvalue + (IF u.mode = 1 THEN 1 ELSE 0) IN
  [u EXCEPT !.enabled = TRUE, !.load = FALSE, !.high = u.out,
            !.value = IF v <= 0 THEN v + reload ELSE v]

\* Mode 3 counts by two, and at an odd load by one or three to begin with.
TickSquare(u) ==
  LET from == IF u.load /\ ~u.enabled THEN u.loadvalue ELSE u.value
      step == IF from = u.loadvalue /\ from % 2 = 1
              THEN IF u.out = 0 THEN 3 ELSE 1
              ELSE 2
      v == from - step
      out == IF v <= 0 THEN 1 - u.out ELSE u.out IN
  [u EXCEPT !.enabled = TRUE, !.load = FALSE, !.out = out, !.high = out,
            !.value = IF v <= 0 THEN v + (IF u.loadvalue = 0 THEN Wide ELSE u.loadvalue)
                      ELSE v]

\* Count(): one clock; high is what it returns.
Count(u) ==
  IF u.delay > 0 THEN [u EXCEPT !.delay = @ - 1, !.high = u.out]
  ELSE IF ~u.enabled /\ ~u.load THEN [u EXCEPT !.high = u.out]
  ELSE CASE u.mode = 0 -> TickOnce(u)
         [] u.mode \in {1, 2} -> TickRate(u)
         [] u.mode = 3 -> TickSquare(u)

SetMode(u, mode, latch) ==
  LET c == Count(u) IN
  [c EXCEPT !.delay = LATCH_DELAY, !.mode = mode, !.high = 0,
            !.out = IF mode = 0 THEN 0 ELSE 1,
            !.armed = mode \in {0, 1} \/ @, !.enabled = FALSE, !.load = FALSE,
            !.latch_mode = latch, !.write_state = 0]

Latch(u) ==
  LET c == Count(u) IN [c EXCEPT !.delay = LATCH_DELAY, !.high = 0]

Loaded(u, w) == [u EXCEPT !.loadvalue = w, !.load = TRUE]

\* write_value(): the byte goes where latch_mode says, and a load that waits,
\* old or new, starts its delay.
WriteValue(u, b) ==
  LET w == CASE u.latch_mode = 3 ->
                  IF u.write_state = 0 THEN [u EXCEPT !.lsb = b, !.write_state = 1]
                  ELSE Loaded([u EXCEPT !.write_state = 0], Base * b + u.lsb)
             [] u.latch_mode = 1 -> Loaded(u, b)
             [] u.latch_mode = 2 -> Loaded([u EXCEPT !.value = Base * b], Base * b)
             [] u.latch_mode = 0 -> u IN
  IF w.load /\ (w.mode = 0 \/ ~w.enabled) THEN [w EXCEPT !.delay = 3] ELSE w

\* read_value(): the counter after it, which shares write_state between reads
\* and writes.
ReadValue(u) == IF u.latch_mode = 3 THEN [u EXCEPT !.write_state = 1 - @] ELSE u

\* dt clocks, one by one: the counter, and the clocks it was high.
Counted(u, dt) ==
  LET f[k \in 0..dt] ==
        IF k = 0 THEN [u |-> u, high |-> 0]
        ELSE LET s == f[k - 1]
                 c == Count(s.u) IN [u |-> c, high |-> s.high + c.high] IN
  f[dt]

-----------------------------------------------------------------------------
(* TimerChannel *)

NoChannel == [mode |-> 0, latch_mode |-> 0, write_state |-> 0, write_lsb |-> 0,
              loadvalue |-> 0, enabled |-> FALSE, out |-> 0, value |-> 0,
              delay |-> 0, armed |-> FALSE, load |-> FALSE]

ControlChannel(ch, mode, latch) ==
  [ch EXCEPT !.mode = mode, !.latch_mode = latch, !.write_state = 0,
             !.enabled = FALSE, !.out = IF mode = 0 THEN 0 ELSE 1, !.value = 0,
             !.delay = 0, !.armed = (mode = 0), !.load = FALSE]

LoadChannel(ch, w) ==
  [ch EXCEPT !.loadvalue = w, !.load = TRUE,
             !.delay = IF ch.mode = 0 \/ ~ch.enabled THEN 3 ELSE @]

\* apply_timer_write() to a counter
WriteChannel(ch, b) ==
  CASE ch.latch_mode = 3 ->
         IF ch.write_state = 0 THEN [ch EXCEPT !.write_lsb = b, !.write_state = 1]
         ELSE LoadChannel([ch EXCEPT !.write_state = 0], Base * b + ch.write_lsb)
    [] ch.latch_mode = 1 -> LoadChannel(ch, b)
    [] ch.latch_mode = 2 -> LoadChannel(ch, Base * b)
    [] ch.latch_mode = 0 -> ch

\* Mode 0 of integrate_timer(): the clock that reaches zero is already high.
IntegrateOnce(ch, dt) ==
  LET c == IF ch.load THEN [ch EXCEPT !.value = ch.loadvalue, !.enabled = TRUE,
                                      !.armed = TRUE, !.out = 0, !.load = FALSE]
           ELSE ch
      ends == c.value - dt <= 0 /\ c.armed /\ c.value > 0 IN
  IF c.out = 1 THEN [ch |-> c, high |-> dt]
  ELSE [ch |-> [c EXCEPT !.armed = @ /\ ~ends, !.out = IF ends THEN 1 ELSE 0,
                         !.value = @ - dt + IF ends THEN Wide ELSE 0],
        high |-> IF ends THEN dt - c.value + 1 ELSE 0]

\* Slip: an odd load makes both halves of the wave longer.
ReloadEven(out, load) == load

\* The value after a toggle to out.
Reload(out, load) == IF out = 1 THEN load ELSE load - (load % 2)

\* Mode 3: half waves until the sample is used up.
IntegrateSquare(ch, dt) ==
  LET c == IF ~ch.enabled /\ ch.load
           THEN [ch EXCEPT !.value = ch.loadvalue, !.enabled = TRUE, !.load = FALSE]
           ELSE ch
      load == IF c.loadvalue = 0 THEN Wide ELSE c.loadvalue
      Dur(s) == LET d == IF s.out = 1 /\ s.value = load /\ load % 2 = 1
                         THEN (load + 1) \div 2 ELSE (s.value + 1) \div 2 IN
                IF d < 1 THEN 1 ELSE d
      f[k \in 0..dt] ==
        IF k = 0 THEN [value |-> c.value, out |-> c.out, rem |-> dt, high |-> 0]
        ELSE LET s == f[k - 1]
                 d == Dur(s) IN
             IF s.rem = 0 THEN s
             ELSE IF d > s.rem
                  THEN [s EXCEPT !.value = @ - 2 * s.rem, !.rem = 0,
                                 !.high = @ + s.rem * s.out]
                  ELSE [value |-> Reload(1 - s.out, load), out |-> 1 - s.out,
                        rem |-> s.rem - d, high |-> s.high + d * s.out]
      last == f[dt] IN
  [ch |-> [c EXCEPT !.value = last.value, !.out = last.out], high |-> last.high]

\* integrate_timer(): the delay first, whose clocks are not counted as high
\* when it ends within the sample.
Integrate(ch, dt) ==
  IF ch.delay >= dt
  THEN [ch |-> [ch EXCEPT !.delay = @ - dt], high |-> dt * ch.out]
  ELSE LET c == [ch EXCEPT !.delay = 0]
           n == dt - ch.delay IN
       IF ~c.enabled /\ ~c.load THEN [ch |-> c, high |-> n * c.out]
       ELSE CASE c.mode = 0 -> IntegrateOnce(c, n)
              [] c.mode = 1 -> [ch |-> c, high |-> n * c.out]
              [] c.mode = 2 -> [ch |-> c, high |-> n]
              [] c.mode = 3 -> IntegrateSquare(c, n)

-----------------------------------------------------------------------------
NoSample == [heard |-> 0, due |-> 0, missed |-> 0, before |-> 0, level |-> 0, goal |-> 0]

Init ==
  /\ chip \in Counters
  /\ mirror = NoChannel
  /\ exact = FALSE
  /\ accesses = 0
  /\ sample = NoSample

Access == accesses < MaxPortAccesses /\ accesses' = accesses + 1

\* write_cw() with a mode
ControlWord(mode, latch) ==
  /\ Access
  /\ chip' = SetMode(chip, mode, latch)
  /\ mirror' = ControlChannel(mirror, mode, latch)
  /\ exact' = TRUE
  /\ sample' = NoSample

\* write_cw() with the latch command, which the mirror ignores.  It cuts the
\* write delay of a new count short.
LatchCommand ==
  /\ Access
  /\ chip' = Latch(chip)
  /\ exact' = (exact /\ chip.delay <= 1)
  /\ UNCHANGED <<mirror, sample>>

\* What the mirror does not reproduce of a load: a count of 0 in mode 0, of 0 or
\* 1 in mode 3, and in a running mode 3 an odd one or one written as its high
\* byte alone.  And it cannot know of a half-read counter, nor of the delay that
\* the low byte of another count starts again, nor of the clock a latch command
\* took ahead.
Reproduced(u, new) ==
  /\ u.write_state = mirror.write_state
  /\ u.load => new.write_state = 0
  /\ u.enabled => u.delay = mirror.delay
  /\ new.load /\ ~(u.mode = 3 /\ u.enabled) =>
       new.loadvalue >= (CASE u.mode = 0 -> 1 [] u.mode = 3 -> 2 [] OTHER -> 0)
  /\ u.mode = 3 /\ u.enabled /\ new.load =>
       /\ u.latch_mode # 2
       /\ u.loadvalue % 2 = 0 /\ new.loadvalue % 2 = 0 /\ new.loadvalue > 1

WriteCounter(b) ==
  /\ Access
  /\ chip' = WriteValue(chip, b)
  /\ mirror' = WriteChannel(mirror, b)
  /\ exact' = (exact /\ Reproduced(chip, WriteValue(chip, b)))
  /\ UNCHANGED sample

ReadCounter ==
  /\ Access
  /\ chip' = ReadValue(chip)
  /\ UNCHANGED <<mirror, exact, sample>>

\* A sample of process_frame(), and the clocks of the reference.  Time stands
\* still while the two need not agree: a count of 1 makes the chip's value drift
\* below zero without a bound.
Sample(dt) ==
  LET heard == Integrate(mirror, dt)
      due   == IF Clocked THEN Counted(chip, dt) ELSE [u |-> chip, high |-> dt * chip.out] IN
  /\ exact
  /\ mirror' = heard.ch /\ chip' = [due.u EXCEPT !.high = 0]
  /\ sample' = [heard |-> heard.high, due |-> due.high,
                 missed |-> IF mirror.delay < dt THEN mirror.delay * mirror.out ELSE 0,
                 before |-> mirror.out, level |-> heard.ch.out, goal |-> due.u.out]
  /\ UNCHANGED <<exact, accesses>>

Next ==
  \/ \E mode \in 0..3, latch \in 1..3 : ControlWord(mode, latch)
  \/ LatchCommand
  \/ \E b \in Bytes : WriteCounter(b)
  \/ ReadCounter
  \/ \E dt \in SampleLengths : Sample(dt)

Spec == Init /\ [][Next]_vars

-----------------------------------------------------------------------------
(* The mirror plays the counter's tone: from a control word on it ends every   *)
(* sample at the level of the counter clocked one by one, for ever, so the two *)
(* never drift, and each sample is high for as many clocks, but for two known  *)
(* slips: a square wave's edges come one clock late, and the (at most three)   *)
(* clocks of a write delay count as low.                                       *)
MirrorInStep ==
  LET edge == IF mirror.mode = 3 THEN sample.goal - sample.before ELSE 0 IN
  exact => /\ sample.level = sample.goal
           /\ sample.due = sample.heard + sample.missed + edge

(* IO keeps writing into the real chips so CPU reads stay correct (sound.h):   *)
(* while the mirror plays a count, the chip the CPU reads is counting too.     *)
ReadsFollowTime == exact /\ mirror.enabled => chip.enabled

TypeOK ==
  /\ chip.mode \in 0..3 /\ chip.latch_mode \in 0..3 /\ chip.delay \in 0..3
  /\ chip.loadvalue \in 0..(Wide - 1) /\ chip.out \in 0..1 /\ chip.write_state \in 0..1
  /\ mirror.delay \in 0..3 /\ mirror.out \in 0..1 /\ mirror.value <= Wide

=============================================================================
