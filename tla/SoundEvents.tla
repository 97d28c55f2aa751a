----------------------------- MODULE SoundEvents -----------------------------
(***************************************************************************)
(* From the machine's OUTs to the samples: Soundnik::push_event stamps a   *)
(* write with the sound clock and queues it, and once a frame              *)
(* process_frame renders every sample whose boundary has passed, replaying *)
(* on the mirrors what the program had written by then.  Both ends of the  *)
(* queue are the worker's, one after the other.                            *)
(*                                                                         *)
(* A chip stands for all of them: its state is its last two writes, so a   *)
(* lost, repeated or reordered write shows.                                *)
(***************************************************************************)
EXTENDS Naturals, Sequences, FiniteSetsExt

CONSTANTS
  Values,       \* what a program writes
  Rates,        \* pairs <<SOUND_CLOCK_RATE, sampleRate>>, <<1497600, 44100>> in the code
  FrameClocks,  \* sound clocks of a frame
  OutClocks,    \* sound clocks of an OUT, the fastest way to write
  CAPACITY,     \* slots of the queue, one of which stays free
  MaxClock      \* bound on the sound clock

VARIABLES
  rate,         \* the pair in use
  sound_clock, frame_start,
  events,       \* the queue: records [clock, value]
  next_sample_clock, cps_frac_acc,
  samples,      \* samples since the last reset
  chip,         \* what the program has written
  mirror,       \* what has been replayed
  lateness      \* how long after its clock each event of the last frame was replayed

vars == <<rate, sound_clock, frame_start, events, next_sample_clock, cps_frac_acc,
          samples, chip, mirror, lateness>>

(* What the numbers of the code have in common: samples are longer than a     *)
(* clock and not longer than a frame, and OUTs alone, in a frame and the        *)
(* sample before it, do not fill the queue (29952 clocks, 6 an OUT, 8192 slots). *)
QueueSuffices ==
  /\ CAPACITY \in Nat /\ FrameClocks \in Nat /\ OutClocks \in 1..FrameClocks
  /\ Rates \subseteq Nat \X Nat
  /\ \A r \in Rates :
       /\ r[2] > 0 /\ r[1] >= r[2] /\ r[1] <= FrameClocks * r[2]
       /\ FrameClocks + r[1] \div r[2] <= (CAPACITY - 1) * OutClocks

cps_whole == rate[1] \div rate[2]
cps_frac_num == rate[1] % rate[2]
sound_frame_size == (FrameClocks * rate[2]) \div rate[1]
Budget == 8 * sound_frame_size  \* samples of one process_frame

\* Slip: reset() without reset_mirrors().
FreshChips ==
  /\ sound_clock' = 0 /\ frame_start' = 0 /\ events' = <<>>
  /\ next_sample_clock' = 0 /\ cps_frac_acc' = 0 /\ samples' = 0
  /\ chip' = <<0, 0>> /\ mirror' = mirror /\ lateness' = {}

\* reset() and reset_mirrors()
Fresh ==
  /\ sound_clock' = 0 /\ frame_start' = 0 /\ events' = <<>>
  /\ next_sample_clock' = 0 /\ cps_frac_acc' = 0 /\ samples' = 0
  /\ chip' = <<0, 0>> /\ mirror' = <<0, 0>> /\ lateness' = {}

Init ==
  /\ rate \in Rates
  /\ sound_clock = 0 /\ frame_start = 0 /\ events = <<>>
  /\ next_sample_clock = 0 /\ cps_frac_acc = 0 /\ samples = 0
  /\ chip = <<0, 0>> /\ mirror = <<0, 0>> /\ lateness = {}

Written(c, v) == <<c[2], v>>

\* The writes of a chip, then those of a queue, and the state they leave.
WriteAt(c, q, i) == IF i <= 2 THEN c[i] ELSE q[i - 2].value
Played(c, q) == <<WriteAt(c, q, Len(q) + 1), WriteAt(c, q, Len(q) + 2)>>

\* push(): a full queue drops the event.
Push(e) == IF Len(events) = CAPACITY - 1 THEN events ELSE Append(events, e)

FrameGoesOn == sound_clock < frame_start + FrameClocks

\* An OUT of single_step(): the event carries the clock its instruction began at.
Out(v) ==
  /\ FrameGoesOn
  /\ chip' = Written(chip, v)
  /\ events' = Push([clock |-> sound_clock, value |-> v])
  /\ sound_clock' = sound_clock + OutClocks
  /\ UNCHANGED <<rate, frame_start, next_sample_clock, cps_frac_acc, samples, mirror,
                 lateness>>

\* Any other instruction
AdvanceClock(n) ==
  /\ FrameGoesOn
  /\ sound_clock' = sound_clock + n
  /\ UNCHANGED <<rate, frame_start, events, next_sample_clock, cps_frac_acc, samples,
                 chip, mirror, lateness>>

-----------------------------------------------------------------------------
(* process_frame() *)

\* How many events at the head of the queue have come due.
Due(q, t) == Max({n \in 0..Len(q) : \A i \in 1..n : q[i].clock <= t})

\* Replays the events due by t.
Replay(r, t) ==
  LET n == Due(r.events, t) IN
  [r EXCEPT !.mirror = Played(@, SubSeq(r.events, 1, n)),
            !.lateness = @ \union {t - r.events[i].clock : i \in 1..n},
            !.events = SubSeq(@, n + 1, Len(@))]

\* Slip: the fraction of a clock is rounded away.
NextSampleRounded(r) == [r EXCEPT !.next = @ + cps_whole]

\* next_sample_dt(): a sample takes cps_whole clocks or one more.
NextSample(r) ==
  IF r.acc + cps_frac_num >= rate[2]
  THEN [r EXCEPT !.acc = @ + cps_frac_num - rate[2], !.next = @ + cps_whole + 1]
  ELSE [r EXCEPT !.acc = @ + cps_frac_num, !.next = @ + cps_whole]

\* A turn of the loop, which idles when the next boundary is ahead.
RenderSample(r) ==
  IF r.next > sound_clock THEN r
  ELSE NextSample([Replay(r, r.next) EXCEPT !.samples = @ + 1])

Begun == [events |-> events, mirror |-> mirror, lateness |-> {}, samples |-> samples,
          next |-> next_sample_clock, acc |-> cps_frac_acc]

Rendered[k \in 0..Budget] == IF k = 0 THEN Begun ELSE RenderSample(Rendered[k - 1])

\* process_frame() at the end of execute_frame(), with the skip ahead when the
\* budget did not do.
ProcessFrame ==
  LET r == Rendered[Budget]
      s == IF r.next <= sound_clock
           THEN [Replay(r, sound_clock) EXCEPT !.next = sound_clock] ELSE r IN
  /\ ~FrameGoesOn
  /\ sound_clock <= MaxClock
  /\ events' = s.events /\ mirror' = s.mirror /\ lateness' = s.lateness
  /\ next_sample_clock' = s.next /\ cps_frac_acc' = s.acc /\ samples' = s.samples
  /\ frame_start' = sound_clock
  /\ UNCHANGED <<rate, sound_clock, chip>>

\* Board::reset(), between two frames
Reset ==
  /\ sound_clock = frame_start
  /\ Fresh
  /\ UNCHANGED rate

Next ==
  \/ \E v \in Values : Out(v)
  \/ \E n \in 1..OutClocks : AdvanceClock(n)
  \/ ProcessFrame
  \/ Reset

Spec == Init /\ [][Next]_vars

-----------------------------------------------------------------------------
(* The mirrors never lose the program: replaying what is queued would bring    *)
(* them to the state of the real chips, even when every instruction of the     *)
(* frames is an OUT, so the queue never drops one.                             *)
MirrorFollows == Played(mirror, events) = chip

(* Events are heard on time and the samples do not drift: each event is        *)
(* replayed at a boundary at or after its clock and at most a sample later,    *)
(* and after k samples the next boundary is at exactly k sample lengths,       *)
(* rounded down.                                                               *)
HeardOnTime ==
  /\ \A late \in lateness : late * rate[2] < rate[1] + rate[2]
  /\ next_sample_clock = (samples * rate[1]) \div rate[2]

TypeOK ==
  /\ Len(events) < CAPACITY
  /\ \A i \in DOMAIN events : events[i].value \in Values /\ events[i].clock <= sound_clock
  /\ cps_frac_acc < rate[2] /\ frame_start <= sound_clock

=============================================================================
