----------------------------- MODULE SoundRing ------------------------------
(***************************************************************************)
(* The ring of samples between the worker, which writes one machine frame  *)
(* of sound after the other at the pace of worker_loop's deadlines         *)
(* (emulator.cpp 217-235), and the audio callback, which takes a fixed     *)
(* number of frames per call of the hardware and steers its reading speed  *)
(* by the fill of the ring (sound.cpp 117-352). The arithmetic is the      *)
(* code's, at full scale and in the code's integers; time is counted in    *)
(* hardware frames (1/44100 s), of which 882 are one period of the worker. *)
(*                                                                         *)
(* A window parks the worker, which then writes nothing (emulator.cpp      *)
(* 115-128); the callback is not told (nothing calls Soundnik::pause), and *)
(* its controller goes on integrating the error of an empty ring.          *)
(*                                                                         *)
(* The clocks of the two threads are taken to agree, and the samples of a  *)
(* machine frame to appear at once when the frame ends: a callback that    *)
(* comes in the middle of it sees a fill in between.                       *)
(***************************************************************************)
EXTENDS Integers

CONSTANTS
  NBUFFERS,   \* blocks of the ring
  FrameSize,  \* sound_frame_size: samples of a block
  Lengths,    \* samples a machine frame makes: a block, or a few more with fast_fill
  Reqn,       \* frames the hardware asks for in one call
  Targets,    \* target_fill: the values sound_buffer_ms may give it
  Execs,      \* how long a machine frame takes the worker, normally
  Phases,     \* when the first callback comes
  Stalls,     \* how long it takes when something holds the worker up
  Pauses,     \* for how many periods a window parks the worker
  BriefStop,  \* how long the worker may stop without harm
  MaxStalls,  \* bound: stalls, pauses and changes of the target in a behaviour
  LastOnset,  \* bound: callbacks before the last of them begins
  MaxCalls    \* bound: callbacks

ASSUME SoundRingAssumption ==
  /\ NBUFFERS \in Nat \ {0} /\ FrameSize \in Nat \ {0} /\ Reqn \in Nat \ {0}
  /\ Targets \subseteq Nat /\ Execs \subseteq Nat /\ Phases \subseteq Nat /\ Stalls \subseteq Nat
  /\ Lengths \subseteq Nat /\ Pauses \subseteq Nat /\ BriefStop \in Nat
  /\ MaxStalls \in Nat /\ LastOnset \in Nat /\ MaxCalls \in Nat

VARIABLES
  wr_total, wr_buf_idx, wr_pos,         \* the writer's position
  rd_frame, rd_frac, rdbuf, rdpos,      \* the reader's position
  target_fill, rate_int,                \* the controller
  underruns,                            \* frames the last callback had to pad
  exec, frame_samples,                  \* this machine's frame: its time, its samples
  due,                                  \* frame_deadline_us, from the start of the frame
  left, busy,                           \* time to the end of the frame, time it takes
  next_call,                            \* time to the next callback
  calls, stalls,                        \* callbacks so far; stalls so far
  stopped                               \* history: how long the worker was held up or parked

writer  == <<wr_total, wr_buf_idx, wr_pos>>
reader  == <<rd_frame, rd_frac, rdbuf, rdpos, rate_int, underruns>>
pacing  == <<due, left, busy, stalls, stopped>>
machine == <<exec, frame_samples>>
vars    == <<writer, reader, pacing, machine, target_fill, next_call, calls>>

STEP_ONE == 65536
STEP_MIN == 54067
STEP_MAX == 69134
RATE_MIN == -5040000
RATE_MAX == 1580000
FRAME_PERIOD == FrameSize
Capacity == NBUFFERS * FrameSize

Clamp(x, lo, hi) == IF x < lo THEN lo ELSE IF x > hi THEN hi ELSE x
CeilDiv(a, b)    == (a + b - 1) \div b
-----------------------------------------------------------------------------
Init ==
  /\ wr_total = 0 /\ wr_buf_idx = 0 /\ wr_pos = 0
  /\ rd_frame = 0 /\ rd_frac = 0 /\ rdbuf = 0 /\ rdpos = 0
  /\ target_fill \in Targets /\ rate_int = 0 /\ underruns = 0
  /\ exec \in Execs /\ frame_samples \in Lengths
  /\ due = 0 /\ left = exec /\ busy = exec
  /\ next_call \in Phases /\ calls = 0 /\ stalls = 0 /\ stopped = 0

(* The writer: Soundnik::sample once for every sample of the machine frame. *)
WriteFrame ==
  /\ wr_total' = wr_total + frame_samples
  /\ wr_pos' = (wr_pos + frame_samples) % FrameSize
  /\ wr_buf_idx' = (wr_buf_idx + (wr_pos + frame_samples) \div FrameSize) % NBUFFERS

\* The deadline of the frame that ends, one period on, from now.
Deadline == due - busy + FRAME_PERIOD

\* When the next frame begins: a worker in time waits for its deadline.
Wait == IF Deadline > 0 THEN Deadline ELSE 0

\* Mutant: the lost time is never given up.
PaceUnanchored(time) ==
  /\ due' = Deadline - Wait
  /\ busy' = time /\ left' = Wait + time

(* The end of worker_loop: a worker that is late starts over at once, and   *)
(* gives up the lost time when it is more than four frames.                 *)
Pace(time) ==
  /\ due' = IF -Deadline > 4 * FRAME_PERIOD THEN 0 ELSE Deadline - Wait
  /\ busy' = time /\ left' = Wait + time

\* The paused branch: a period of sleep for every poll of the input, then
\* the deadline is re-anchored and the next frame begins.
Park(polls) ==
  /\ due' = 0 /\ busy' = exec
  /\ left' = Wait + polls * FRAME_PERIOD + exec

\* Something out of the ordinary that holds the worker up for a time.
Stop(time) ==
  /\ stalls < MaxStalls /\ calls <= LastOnset
  /\ stalls' = stalls + 1 /\ stopped' = stopped + time

\* A machine frame ends; the next one takes its normal time or a stall, or
\* a window is open by then.
Worker ==
  /\ left <= next_call /\ next_call' = next_call - left
  /\ WriteFrame
  /\ \/ Pace(exec) /\ UNCHANGED <<stalls, stopped>>
     \/ \E time \in Stalls : Pace(time) /\ Stop(time)
     \/ \E polls \in Pauses : Park(polls) /\ Stop(polls * FRAME_PERIOD)
  /\ UNCHANGED <<reader, target_fill, machine, calls>>

\* Config window: set_buffer_ms moves the target.
SetBufferMs ==
  /\ Stop(0) /\ target_fill' \in Targets \ {target_fill}
  /\ UNCHANGED <<writer, reader, machine, due, left, busy, next_call, calls>>
-----------------------------------------------------------------------------
(* The reader. *)

Fill == wr_total - rd_frame

\* The integrator, clamped against wind-up.
Integrated == Clamp(rate_int + (Fill - target_fill), RATE_MIN, RATE_MAX)

\* Mutant: the sign of the error.
StepReversed == Clamp(STEP_ONE - ((Fill - target_fill) * 30) \div 1024
                               - (Integrated * 149) \div 65536, STEP_MIN, STEP_MAX)

\* The PI controller: the shifts round towards minus infinity.
Step == Clamp(STEP_ONE + ((Fill - target_fill) * 30) \div 1024
                       + (Integrated * 149) \div 65536, STEP_MIN, STEP_MAX)

(* The loop over n output frames in closed form. Frames are read until      *)
(* rd_frame reaches the snapshot wr of wr_total; from then on one frame is  *)
(* padded and the reader re-anchored one frame behind the writer, which     *)
(* gives it 1 or 2 more reads, and so on.                                   *)
Anchor(wr) == IF wr > 0 THEN wr - 1 ELSE 0

Readable(wr, frame, frac, step) ==
  IF frame >= wr THEN 0 ELSE CeilDiv((wr - frame) * 65536 - frac, step)

Advanced(frame, acc, padded) ==
  [frame |-> frame + acc \div 65536, frac |-> acc % 65536, padded |-> padded]

Consumed(wr, frame, frac, step, n) ==
  LET rest  == n - Readable(wr, frame, frac, step)
      cycle == IF wr = 0 THEN 1 ELSE 1 + CeilDiv(65536, step)
  IN  IF rest <= 0 THEN Advanced(frame, frac + n * step, 0)
      ELSE Advanced(Anchor(wr), ((rest - 1) % cycle) * step, CeilDiv(rest, cycle))

\* Mutant: one block at most in a call.
FollowOneBlock(buf, pos, adv) ==
  /\ rdpos' = (pos + adv) % FrameSize
  /\ rdbuf' = (buf + (IF pos + adv >= FrameSize THEN 1 ELSE 0)) % NBUFFERS

\* rdbuf and rdpos are recomputed at an anchor and moved along after it.
FollowRing(buf, pos, adv) ==
  /\ rdpos' = (pos + adv) % FrameSize
  /\ rdbuf' = (buf + (pos + adv) \div FrameSize) % NBUFFERS

Callback ==
  /\ next_call <= left /\ calls < MaxCalls
  /\ left' = left - next_call /\ next_call' = Reqn /\ calls' = calls + 1
  /\ rate_int' = Integrated
  /\ LET c == Consumed(wr_total, rd_frame, rd_frac, Step, Reqn)
         a == Anchor(wr_total)
     IN  /\ rd_frame' = c.frame /\ rd_frac' = c.frac /\ underruns' = c.padded
         /\ IF c.padded = 0 THEN FollowRing(rdbuf, rdpos, c.frame - rd_frame)
            ELSE FollowRing((a % Capacity) \div FrameSize, a % FrameSize, c.frame - a)
  /\ UNCHANGED <<writer, target_fill, machine, due, busy, stalls, stopped>>

\* The bound on the callbacks is reached.
Done == calls = MaxCalls /\ UNCHANGED vars

Next == Worker \/ SetBufferMs \/ Callback \/ Done

Spec == Init /\ [][Next]_vars
-----------------------------------------------------------------------------
\* Every variable keeps its range; a reader is never more than one frame
\* ahead of the writer it last saw (the code's loop may step over it).
TypeOK ==
  /\ wr_total \in Nat /\ wr_buf_idx \in 0..NBUFFERS - 1 /\ wr_pos \in 0..FrameSize - 1
  /\ rd_frame \in 0..wr_total + 1 /\ rd_frac \in 0..STEP_ONE - 1
  /\ rdbuf \in 0..NBUFFERS - 1 /\ rdpos \in 0..FrameSize - 1
  /\ target_fill \in Targets /\ rate_int \in RATE_MIN..RATE_MAX
  /\ underruns \in 0..Reqn /\ due <= 0 /\ due >= -4 * FRAME_PERIOD

\* The incremental block indices of both threads stay what the counters
\* say (sound.h 28-31: "derives every ring position from this counter").
PositionsDerived ==
  /\ wr_buf_idx * FrameSize + wr_pos = wr_total % Capacity
  /\ rdbuf * FrameSize + rdpos = rd_frame % Capacity

\* sound.h 28-31: the callback "can never read ahead of the writer or
\* mistake a stale buffer for fresh data". The widest kernel reads three
\* frames behind rd_frame: none of them may have been written over
\* (sound.cpp 270-271: "the fill controller keeps the read head well inside the ring").
HeadInRing == Fill <= Capacity - 4

\* A worker that was held up or parked for a short time only, whenever that
\* was, has not wound the controller up so far that the writer laps the
\* reader afterwards (sound.cpp 130-141, emulator.cpp 115-142).
BriefStopHarmless == stopped <= BriefStop => HeadInRing

\* With the worker in time, nothing in the way and frames of one block each
\* the output is continuous one second after the start: no frame is padded
\* any more (sound.cpp 112-113: "continuous at exactly the hardware rate;
\* nothing is ever repeated or skipped in chunks").
Continuous ==
  calls > 43 /\ stalls = 0 /\ frame_samples = FrameSize => underruns = 0
=============================================================================
