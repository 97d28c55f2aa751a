--------------------------- MODULE SoundRingProofs ---------------------------
(***************************************************************************)
(* The positions of the ring for any number and size of blocks, any size   *)
(* of a call, any length of a machine frame, any timing of the two threads *)
(* with any stalls and pauses, and any target: the reader is never more    *)
(* than one frame ahead of the writer, the controller stays within its     *)
(* bounds, and the block indices both threads move along stay what the     *)
(* counters say.                                                           *)
(*                                                                         *)
(* What a fill never exceeds and when the output is continuous depend on   *)
(* the pace of the two threads and on the constants of the controller:     *)
(* they are model-checked (BriefStopHarmless, Continuous).                 *)
(***************************************************************************)
EXTENDS SoundRing, NumberLemmas

RingInv == /\ TypeOK /\ PositionsDerived /\ due \in Int /\ busy \in Nat
           /\ exec \in Execs /\ frame_samples \in Lengths

-----------------------------------------------------------------------------
LEMMA Sizes == /\ NBUFFERS \in Nat /\ NBUFFERS > 0
               /\ FrameSize \in Nat /\ FrameSize > 0
               /\ Reqn \in Nat /\ Reqn > 0
<1>1. NBUFFERS \in Nat \ {0} /\ FrameSize \in Nat \ {0} /\ Reqn \in Nat \ {0}
  BY SoundRingAssumption
<1> QED BY <1>1

LEMMA CapacityType == Capacity \in Nat /\ Capacity > 0
BY Sizes, MulPositive DEF Capacity

LEMMA CeilDivBounds ==
  ASSUME NEW a \in Nat, a > 0, NEW b \in Nat, b > 0
  PROVE  /\ CeilDiv(a, b) \in Nat /\ CeilDiv(a, b) >= 1 /\ CeilDiv(a, b) <= a
         /\ CeilDiv(a, b) * b \in Nat
         /\ CeilDiv(a, b) * b >= a /\ CeilDiv(a, b) * b <= a + b - 1
<1> DEFINE x == a + b - 1
           d == x \div b
           m == x % b
<1>1. x \in Nat /\ x = a + b - 1
  OBVIOUS
<1> HIDE DEF x
<1>2. d \in Nat /\ m \in 0..(b - 1) /\ x = d * b + m
  BY <1>1, DivModSum
<1> HIDE DEF d, m
<1>3. d * b \in Nat /\ d * b >= a /\ d * b <= a + b - 1
  BY <1>1, <1>2
<1>4. d >= 1
  <2>1. d = 0 => d * b = 0
    OBVIOUS
  <2> QED BY <1>2, <1>3, <2>1
<1>5. d <= a
  <2>1. ASSUME d > a PROVE FALSE
    <3>1. PICK e \in Nat : d = a + 1 + e
      BY <1>2, <2>1
    <3>2. PICK f \in Nat : b = f + 1
      OBVIOUS
    <3>3. d * b = a * f + a + b + e * b /\ a * f \in Nat /\ e * b \in Nat
      BY <3>1, <3>2
    <3> QED BY <1>3, <3>3
  <2> QED BY <1>2, <2>1
<1> QED BY <1>2, <1>3, <1>4, <1>5 DEF CeilDiv, d, x

\* The position of an anchor is derived from its frame number.
LEMMA AnchorPosition ==
  ASSUME NEW a \in Nat
  PROVE  /\ (a % Capacity) \div FrameSize \in 0..(NBUFFERS - 1)
         /\ a % FrameSize \in 0..(FrameSize - 1)
         /\ ((a % Capacity) \div FrameSize) * FrameSize + (a % FrameSize) = a % Capacity
<1> DEFINE k == (a \div FrameSize) % NBUFFERS
           r == a % FrameSize
           x == a % Capacity
<1>1. k \in 0..(NBUFFERS - 1) /\ r \in 0..(FrameSize - 1) /\ k * FrameSize + r = x
  <2>1. Located(NBUFFERS, FrameSize, 0, 0, 0) /\ 0 \in Nat /\ a \in Nat
    BY CapacityType, Sizes DEF Capacity, Located
  <2>2. Located(NBUFFERS, FrameSize, 0 + a,
                (0 + (0 + a) \div FrameSize) % NBUFFERS, (0 + a) % FrameSize)
    BY ONLY <2>1, BlockMove, Sizes, Zenon
  <2>3. 0 + a = a /\ 0 + (0 + a) \div FrameSize = a \div FrameSize
    BY Sizes
  <2>4. Located(NBUFFERS, FrameSize, a, k, r)
    BY <2>2, <2>3
  <2> QED BY <2>4 DEF Capacity, Located
<1> HIDE DEF k, r, x
<1>2. x \div FrameSize = k
  BY <1>1, DivModUnique, Sizes
<1> QED BY <1>1, <1>2 DEF r, x

-----------------------------------------------------------------------------
(* A call of the callback: how far it moves and how much it pads.          *)

LEMMA Units == STEP_ONE = 65536 /\ STEP_MAX = 69134 /\ STEP_MIN = 54067
BY DEF STEP_ONE, STEP_MAX, STEP_MIN

LEMMA AdvancedType ==
  ASSUME NEW f \in Nat, NEW acc \in Nat, NEW p \in Nat
  PROVE  /\ Advanced(f, acc, p).frame \in Nat
         /\ Advanced(f, acc, p).frame >= f
         /\ Advanced(f, acc, p).frame * STEP_ONE <= f * STEP_ONE + acc
         /\ Advanced(f, acc, p).frac \in Nat /\ Advanced(f, acc, p).frac < STEP_ONE
         /\ Advanced(f, acc, p).padded = p
<1> DEFINE d == acc \div 65536
           m == acc % 65536
<1>1. d \in Nat /\ d * 65536 <= acc /\ m \in Nat /\ m < 65536
  BY SMT
<1> HIDE DEF d, m
<1>2. /\ f + d \in Nat /\ f + d >= f /\ (f + d) * STEP_ONE <= f * STEP_ONE + acc
      /\ m \in Nat /\ m < STEP_ONE
  BY <1>1, Units, SMT
<1>3. Advanced(f, acc, p) = [frame |-> f + d, frac |-> m, padded |-> p]
  BY SMT DEF Advanced, d, m
<1> QED BY <1>2, <1>3

LEMMA ReadsOn ==
  ASSUME NEW wr \in Nat, NEW f \in Nat, NEW frac \in Nat, frac < STEP_ONE,
         NEW step \in Nat, step > 0, step <= STEP_MAX,
         NEW n \in Nat, n - Readable(wr, f, frac, step) <= 0, n > 0
  PROVE  f < wr /\ frac + n * step \in Nat /\ frac + n * step < (wr - f + 2) * STEP_ONE
<1> DEFINE D == (wr - f) * 65536 - frac
           c == CeilDiv(D, step)
<1>1. f < wr
  BY SMT DEF Readable
<1>2. D \in Nat /\ D > 0
  BY <1>1, Units, SMT
<1>3. Readable(wr, f, frac, step) = c
  BY <1>1, SMT DEF Readable
<1>4. c \in Nat /\ c * step \in Nat /\ c * step <= D + step - 1
  <2> HIDE DEF D
  <2>1. step \in Nat /\ step > 0
    OBVIOUS
  <2> QED BY ONLY <1>2, <2>1, CeilDivBounds, SMT
<1>5. n <= c
  <2> HIDE DEF c
  <2> QED BY <1>3, <1>4, SMT
<1> HIDE DEF c
<1>6. n * step \in Nat /\ n * step <= c * step
  BY <1>4, <1>5, MulMono
<1> DEFINE ns == n * step
           cs == c * step
<1>7. ns \in Nat /\ cs \in Nat /\ ns <= cs /\ cs <= D + step - 1
  BY <1>4, <1>6
<1> HIDE DEF ns, cs
<1>8. frac + ns \in Nat /\ frac + ns < (wr - f + 2) * STEP_ONE
  BY <1>1, <1>7, Units, SMT
<1> QED BY <1>1, <1>8 DEF ns

LEMMA ReadableType ==
  ASSUME NEW wr \in Nat, NEW f \in Nat, NEW frac \in Nat, frac < STEP_ONE,
         NEW step \in Nat, step > 0
  PROVE  Readable(wr, f, frac, step) \in Nat
<1>1. CASE f >= wr
  BY <1>1, SMT DEF Readable
<1>2. CASE f < wr
  <2> DEFINE D == (wr - f) * 65536 - frac
  <2>1. D \in Nat /\ D > 0 /\ step \in Nat /\ step > 0
    BY <1>2, Units, SMT
  <2>2. Readable(wr, f, frac, step) = CeilDiv(D, step)
    BY <1>2, SMT DEF Readable
  <2> HIDE DEF D
  <2> QED BY ONLY <2>1, <2>2, CeilDivBounds, SMT
<1> QED BY <1>1, <1>2

\* The frames between two anchors, and how far the last of them gets.
Cycle(wr, step) == IF wr = 0 THEN 1 ELSE 1 + CeilDiv(65536, step)
Last(wr, step, rest) == ((rest - 1) % Cycle(wr, step)) * step

\* After the last anchor of a call at most two frames are read.
LEMMA ReadsPadded ==
  ASSUME NEW wr \in Nat, NEW step \in Nat, step > 0, step <= STEP_MAX, NEW rest \in Nat, rest > 0
  PROVE  /\ CeilDiv(rest, Cycle(wr, step)) \in Nat
         /\ CeilDiv(rest, Cycle(wr, step)) >= 1 /\ CeilDiv(rest, Cycle(wr, step)) <= rest
         /\ Last(wr, step, rest) \in Nat /\ Last(wr, step, rest) < 3 * STEP_ONE
         /\ wr = 0 => Last(wr, step, rest) = 0
<1> DEFINE k == CeilDiv(STEP_ONE, step)
           cycle == Cycle(wr, step)
           m == (rest - 1) % cycle
<1>1. k \in Nat /\ k >= 1 /\ k * step \in Nat /\ k * step <= STEP_ONE + step - 1
  <2>1. STEP_ONE \in Nat /\ STEP_ONE > 0 /\ step \in Nat /\ step > 0
    BY Units, SMT
  <2> QED BY ONLY <2>1, CeilDivBounds, SMT
<1>2. cycle = IF wr = 0 THEN 1 ELSE 1 + k
  BY Units, SMT DEF Cycle
<1> HIDE DEF k, cycle
<1>3. cycle \in Nat /\ cycle > 0 /\ cycle - 1 = (IF wr = 0 THEN 0 ELSE k)
  BY <1>1, <1>2, SMT
<1>4. m \in Nat /\ m <= cycle - 1
  BY <1>3, SMT
<1> HIDE DEF m
<1>5. m * step \in Nat /\ (wr = 0 => m * step = 0) /\ (wr # 0 => m * step <= k * step)
  <2>1. wr = 0 => m = 0
    BY <1>3, <1>4, SMT
  <2>2. wr # 0 => m <= k
    BY <1>3, <1>4, SMT
  <2>3. wr # 0 => m * step <= k * step
    BY <1>1, <1>4, <2>2, MulMono, SMT
  <2>4. m = 0 => m * step = 0
    BY SMT
  <2>5. m * step \in Nat
    BY <1>4, SMT
  <2> QED BY <2>1, <2>3, <2>4, <2>5
<1>6. m * step < 3 * STEP_ONE
  <2> DEFINE ms == m * step
             ks == k * step
  <2>1. ms \in Nat /\ ks \in Nat /\ ks <= STEP_ONE + step - 1 /\ (ms = 0 \/ ms <= ks)
    BY <1>1, <1>5
  <2> HIDE DEF ms, ks
  <2>2. ms < 3 * STEP_ONE
    BY <2>1, Units, SMT
  <2> QED BY <2>2 DEF ms
<1>7. /\ CeilDiv(rest, cycle) \in Nat
      /\ CeilDiv(rest, cycle) >= 1 /\ CeilDiv(rest, cycle) <= rest
  <2>1. rest \in Nat /\ rest > 0
    OBVIOUS
  <2> QED BY ONLY <1>3, <2>1, CeilDivBounds, SMT
<1>8. Last(wr, step, rest) = m * step
  BY Zenon DEF Last, m, cycle
<1> QED BY ONLY <1>5, <1>6, <1>7, <1>8, Zenon DEF cycle

LEMMA AnchorType ==
  ASSUME NEW wr \in Nat
  PROVE  Anchor(wr) \in Nat /\ (IF wr = 0 THEN Anchor(wr) = 0 ELSE Anchor(wr) + 2 = wr + 1)
BY SMT DEF Anchor

LEMMA ConsumedType ==
  ASSUME NEW wr \in Nat, NEW f \in Nat, f <= wr + 1, NEW frac \in Nat, frac < STEP_ONE,
         NEW step \in Nat, step > 0, step <= STEP_MAX, NEW n \in Nat, n > 0
  PROVE  /\ Consumed(wr, f, frac, step, n).frame \in Nat
         /\ Consumed(wr, f, frac, step, n).frame <= wr + 1
         /\ Consumed(wr, f, frac, step, n).frac \in Nat
         /\ Consumed(wr, f, frac, step, n).frac < STEP_ONE
         /\ Consumed(wr, f, frac, step, n).padded \in Nat
         /\ Consumed(wr, f, frac, step, n).padded <= n
         /\ Consumed(wr, f, frac, step, n).padded = 0 => Consumed(wr, f, frac, step, n).frame >= f
         /\ Consumed(wr, f, frac, step, n).padded # 0 =>
              Consumed(wr, f, frac, step, n).frame >= Anchor(wr)
<1> DEFINE rest == n - Readable(wr, f, frac, step)
           c    == Consumed(wr, f, frac, step, n)
<1>0. /\ wr \in Nat /\ f \in Nat /\ f <= wr + 1 /\ step \in Nat /\ step > 0 /\ step <= STEP_MAX
      /\ n \in Nat /\ n > 0 /\ frac \in Nat /\ frac < STEP_ONE /\ 0 \in Nat
  OBVIOUS
<1>1. rest \in Int /\ rest <= n
  <2>1. Readable(wr, f, frac, step) \in Nat
    BY ONLY <1>0, ReadableType, Zenon
  <2> QED BY <2>1, SMT
<1>2. c = IF rest <= 0 THEN Advanced(f, frac + n * step, 0)
          ELSE Advanced(Anchor(wr), Last(wr, step, rest), CeilDiv(rest, Cycle(wr, step)))
  BY SMT DEF Consumed, Last, Cycle
<1>3. CASE rest <= 0
  <2> DEFINE acc == frac + n * step
  <2>1. f < wr /\ acc \in Nat /\ acc < (wr - f + 2) * STEP_ONE
    BY ONLY <1>0, <1>3, ReadsOn, Zenon
  <2>2. c = Advanced(f, acc, 0)
    BY <1>2, <1>3
  <2> HIDE DEF acc, c
  <2>3. /\ c.frame \in Nat /\ c.frame >= f /\ c.frame * STEP_ONE <= f * STEP_ONE + acc
        /\ c.frac \in Nat /\ c.frac < STEP_ONE /\ c.padded = 0
    BY ONLY <1>0, <2>1, <2>2, AdvancedType, Zenon
  <2>4. c.frame <= wr + 1
    <3> DEFINE x == c.frame
    <3>1. x \in Nat /\ x * STEP_ONE <= f * STEP_ONE + acc
      BY <2>3
    <3> HIDE DEF x
    <3>2. x <= wr + 1
      BY <1>0, <2>1, <3>1, Units, SMT
    <3> QED BY <3>2 DEF x
  <2> QED BY <1>0, <2>3, <2>4, SMT DEF c
<1>4. CASE rest > 0
  <2> DEFINE p   == CeilDiv(rest, Cycle(wr, step))
             acc == Last(wr, step, rest)
             a   == Anchor(wr)
  <2>1. rest \in Nat /\ ~(rest <= 0)
    BY <1>1, <1>4, SMT
  <2>2. c = Advanced(a, acc, p)
    BY <1>2, <2>1
  <2> HIDE DEF rest
  <2>3. p \in Nat /\ p >= 1 /\ p <= rest /\ acc \in Nat /\ acc < 3 * STEP_ONE /\ (wr = 0 => acc = 0)
    BY ONLY <1>0, <1>4, <2>1, ReadsPadded, Zenon
  <2>4. a \in Nat /\ (IF wr = 0 THEN a = 0 ELSE a + 2 = wr + 1)
    BY ONLY <1>0, AnchorType, Zenon
  <2> HIDE DEF acc, c, p, a
  <2>5. /\ c.frame \in Nat /\ c.frame >= a /\ c.frame * STEP_ONE <= a * STEP_ONE + acc
        /\ c.frac \in Nat /\ c.frac < STEP_ONE /\ c.padded = p
    BY ONLY <2>2, <2>3, <2>4, AdvancedType, Zenon
  <2>6. c.frame <= wr + 1
    <3> DEFINE x == c.frame
    <3>1. x \in Nat /\ x * STEP_ONE <= a * STEP_ONE + acc
      BY <2>5
    <3> HIDE DEF x
    <3>2. x <= wr + 1
      BY ONLY <1>0, <2>3, <2>4, <3>1, Units, SMT
    <3> QED BY <3>2 DEF x
  <2>7. c.padded \in Nat /\ c.padded <= n /\ c.padded # 0
    BY <1>0, <1>1, <2>3, <2>5, SMT
  <2> QED BY <2>5, <2>6, <2>7 DEF a, c
<1> QED BY <1>1, <1>3, <1>4, SMT

-----------------------------------------------------------------------------
(* The invariant.                                                          *)

\* Targets and times are naturals.
LEMMA Ranges ==
  /\ Targets \subseteq Nat /\ Execs \subseteq Nat /\ Stalls \subseteq Nat
  /\ Phases \subseteq Nat /\ Lengths \subseteq Nat
BY SoundRingAssumption

LEMMA ClampType ==
  ASSUME NEW x \in Int, NEW lo \in Int, NEW hi \in Int, lo <= hi
  PROVE  Clamp(x, lo, hi) \in lo..hi
BY SMT DEF Clamp

LEMMA RateBounds == RATE_MIN \in Int /\ RATE_MAX \in Int /\ RATE_MIN <= 0 /\ 0 <= RATE_MAX
BY SMT DEF RATE_MIN, RATE_MAX

\* The controller never asks for less or more than the kernels can do.
LEMMA StepType ==
  ASSUME RingInv
  PROVE  /\ Integrated \in RATE_MIN..RATE_MAX
         /\ Step \in Nat /\ Step > 0 /\ Step <= STEP_MAX
<1>1. Fill - target_fill \in Int /\ rate_int \in Int
  <2>1. wr_total \in Nat /\ rd_frame \in Nat /\ target_fill \in Nat
    BY Ranges, SMT DEF RingInv, TypeOK
  <2>2. rate_int \in Int
    BY RateBounds, SMT DEF RingInv, TypeOK
  <2> QED BY <2>1, <2>2, SMT DEF Fill
<1>2. Integrated \in RATE_MIN..RATE_MAX
  <2> DEFINE y == rate_int + (Fill - target_fill)
  <2>1. y \in Int
    BY <1>1, SMT
  <2>2. Integrated = Clamp(y, RATE_MIN, RATE_MAX)
    BY DEF Integrated
  <2> HIDE DEF y
  <2>3. RATE_MIN \in Int /\ RATE_MAX \in Int /\ RATE_MIN <= RATE_MAX
    BY RateBounds, SMT
  <2> QED BY ONLY <2>1, <2>2, <2>3, ClampType, Zenon
<1>3. Integrated \in Int
  BY <1>2, RateBounds, SMT
<1> DEFINE e == Fill - target_fill
           x == STEP_ONE + (e * 30) \div 1024 + (Integrated * 149) \div 65536
<1>4. e \in Int
  BY <1>1
<1> HIDE DEF e
<1>5. x \in Int
  BY <1>3, <1>4, Units, SMT
<1>6. Step = Clamp(x, STEP_MIN, STEP_MAX)
  BY SMT DEF Step, x, e
<1> HIDE DEF x
<1>7. Step \in STEP_MIN..STEP_MAX
  <2>1. STEP_MIN \in Int /\ STEP_MAX \in Int /\ STEP_MIN <= STEP_MAX
    BY Units, SMT
  <2> QED BY ONLY <1>5, <1>6, <2>1, ClampType, Zenon
<1> QED BY <1>2, <1>7, Units, SMT

LEMMA InitRing == Init => RingInv
<1> SUFFICES ASSUME Init PROVE RingInv
  OBVIOUS
<1>1. /\ wr_total = 0 /\ wr_buf_idx = 0 /\ wr_pos = 0 /\ rd_frame = 0 /\ rd_frac = 0
      /\ rdbuf = 0 /\ rdpos = 0 /\ underruns = 0 /\ due = 0 /\ rate_int = 0
      /\ target_fill \in Targets /\ exec \in Execs /\ frame_samples \in Lengths
      /\ busy \in Nat
  BY Ranges DEF Init
<1>2. 0 * FrameSize + 0 = 0 % Capacity
  BY CapacityType, Sizes, SMT
<1>3. PositionsDerived
  BY <1>1, <1>2 DEF PositionsDerived
<1>4. TypeOK
  BY <1>1, Sizes, RateBounds, Units, SMT DEF TypeOK, FRAME_PERIOD
<1> QED BY <1>1, <1>3, <1>4 DEF RingInv

LEMMA WorkerStep ==
  ASSUME RingInv, Worker
  PROVE  RingInv'
<1>1. /\ WriteFrame
      /\ UNCHANGED <<reader, target_fill, machine>>
      /\ (\E time \in Nat : Pace(time)) \/ (\E polls : Park(polls))
  BY Ranges DEF Worker, RingInv
<1>2. FRAME_PERIOD \in Nat /\ due \in Int /\ busy \in Nat /\ exec \in Nat
  BY Sizes, Ranges DEF FRAME_PERIOD, RingInv
<1>3. busy' \in Nat /\ due' \in Int /\ due' <= 0 /\ due' >= -4 * FRAME_PERIOD
  <2>1. ASSUME NEW time \in Nat, Pace(time)
        PROVE  busy' \in Nat /\ due' \in Int /\ due' <= 0 /\ due' >= -4 * FRAME_PERIOD
    <3>1. /\ busy' = time
          /\ due' = IF -Deadline > 4 * FRAME_PERIOD THEN 0
                    ELSE Deadline - (IF Deadline > 0 THEN Deadline ELSE 0)
      BY <2>1 DEF Pace, Wait
    <3>2. Deadline \in Int
      BY <1>2 DEF Deadline
    <3> QED BY <1>2, <3>1, <3>2, SMT
  <2>2. ASSUME NEW polls, Park(polls)
        PROVE  busy' \in Nat /\ due' \in Int /\ due' <= 0 /\ due' >= -4 * FRAME_PERIOD
    BY <1>2, <2>2, SMT DEF Park
  <2> QED BY <1>1, <2>1, <2>2
<1>4. /\ wr_total' = wr_total + frame_samples
      /\ wr_buf_idx' \in 0..(NBUFFERS - 1) /\ wr_pos' \in 0..(FrameSize - 1)
      /\ wr_buf_idx' * FrameSize + wr_pos' = wr_total' % Capacity
  <2>1. /\ wr_total \in Nat /\ frame_samples \in Nat
        /\ Located(NBUFFERS, FrameSize, wr_total, wr_buf_idx, wr_pos)
    BY Ranges DEF RingInv, TypeOK, PositionsDerived, Capacity, Located
  <2>2. Located(NBUFFERS, FrameSize, wr_total + frame_samples,
                (wr_buf_idx + (wr_pos + frame_samples) \div FrameSize) % NBUFFERS,
                (wr_pos + frame_samples) % FrameSize)
    BY ONLY <2>1, Sizes, BlockMove, Zenon
  <2> QED BY ONLY <1>1, <2>2 DEF WriteFrame, Capacity, Located
<1>5. /\ rd_frame' = rd_frame /\ rd_frac' = rd_frac /\ rdbuf' = rdbuf /\ rdpos' = rdpos
      /\ rate_int' = rate_int /\ underruns' = underruns
      /\ target_fill' = target_fill /\ exec' = exec /\ frame_samples' = frame_samples
  BY <1>1 DEF reader, machine
<1>6. wr_total' \in Nat /\ rd_frame \in 0..wr_total' + 1
  <2>1. frame_samples \in Nat
    BY Ranges DEF RingInv
  <2> QED BY <1>4, <2>1, SMT DEF RingInv, TypeOK
<1>7. TypeOK'
  BY <1>3, <1>4, <1>5, <1>6 DEF RingInv, TypeOK, FRAME_PERIOD
<1>8. PositionsDerived'
  BY <1>4, <1>5 DEF RingInv, PositionsDerived
<1> QED BY <1>3, <1>5, <1>7, <1>8 DEF RingInv

LEMMA SetBufferStep ==
  ASSUME RingInv, SetBufferMs
  PROVE  RingInv'
<1>1. target_fill' \in Targets
  BY DEF SetBufferMs
<1>2. UNCHANGED <<writer, reader, machine, due, busy>>
  BY DEF SetBufferMs
<1> QED BY <1>1, <1>2 DEF RingInv, TypeOK, PositionsDerived, writer, reader, machine

LEMMA CallbackStep ==
  ASSUME RingInv, Callback
  PROVE  RingInv'
<1> DEFINE c == Consumed(wr_total, rd_frame, rd_frac, Step, Reqn)
           a == Anchor(wr_total)
<1>1. /\ wr_total \in Nat /\ rd_frame \in Nat /\ rd_frame <= wr_total + 1
      /\ rd_frac \in Nat /\ rd_frac < STEP_ONE
  BY Units, SMTT(20) DEF RingInv, TypeOK
<1>2. Step \in Nat /\ Step > 0 /\ Step <= STEP_MAX /\ rate_int' \in RATE_MIN..RATE_MAX
  BY StepType DEF Callback
<1>3. /\ c.frame \in Nat /\ c.frame <= wr_total + 1
      /\ c.frac \in Nat /\ c.frac < STEP_ONE
      /\ c.padded \in Nat /\ c.padded <= Reqn
      /\ c.padded = 0 => c.frame >= rd_frame
      /\ c.padded # 0 => c.frame >= a
  BY ONLY <1>1, <1>2, Sizes, ConsumedType, Zenon
<1>4. a \in Nat
  BY <1>1, AnchorType
<1>5. /\ rd_frame' = c.frame /\ rd_frac' = c.frac /\ underruns' = c.padded
      /\ IF c.padded = 0 THEN FollowRing(rdbuf, rdpos, c.frame - rd_frame)
         ELSE FollowRing((a % Capacity) \div FrameSize, a % FrameSize, c.frame - a)
      /\ UNCHANGED <<writer, target_fill, machine, due, busy>>
  BY DEF Callback
<1> HIDE DEF c, a
<1>6. /\ rdbuf' \in 0..(NBUFFERS - 1) /\ rdpos' \in 0..(FrameSize - 1)
      /\ rdbuf' * FrameSize + rdpos' = rd_frame' % Capacity
  <2>1. ASSUME NEW t \in Nat, NEW k, NEW q, Located(NBUFFERS, FrameSize, t, k, q),
               t <= c.frame, FollowRing(k, q, c.frame - t)
        PROVE  Located(NBUFFERS, FrameSize, rd_frame', rdbuf', rdpos')
    <3> DEFINE m == c.frame - t
    <3>1. t \in Nat /\ m \in Nat /\ t + m = c.frame
      BY <1>3, <2>1, SMT
    <3>2. /\ rdpos' = (q + m) % FrameSize
          /\ rdbuf' = (k + (q + m) \div FrameSize) % NBUFFERS
      BY <2>1 DEF FollowRing
    <3> HIDE DEF m
    <3>3. Located(NBUFFERS, FrameSize, t + m,
                  (k + (q + m) \div FrameSize) % NBUFFERS, (q + m) % FrameSize)
      BY ONLY <2>1, <3>1, Sizes, BlockMove, Zenon
    <3> QED BY <1>5, <3>1, <3>2, <3>3, Zenon
  <2>2. CASE c.padded = 0
    <3>1. Located(NBUFFERS, FrameSize, rd_frame, rdbuf, rdpos)
      BY DEF RingInv, TypeOK, PositionsDerived, Capacity, Located
    <3> QED BY <1>1, <1>3, <1>5, <2>1, <2>2, <3>1 DEF Capacity, Located
  <2>3. CASE c.padded # 0
    <3> DEFINE k == (a % Capacity) \div FrameSize
               q == a % FrameSize
    <3>1. Located(NBUFFERS, FrameSize, a, k, q)
      BY <1>4, AnchorPosition DEF Capacity, Located
    <3>2. FollowRing(k, q, c.frame - a)
      BY <1>5, <2>3
    <3> HIDE DEF k, q
    <3> QED BY <1>3, <1>4, <2>1, <2>3, <3>1, <3>2 DEF Capacity, Located
  <2> QED BY <2>2, <2>3
<1>7. /\ wr_total' = wr_total /\ wr_buf_idx' = wr_buf_idx /\ wr_pos' = wr_pos
      /\ target_fill' = target_fill /\ due' = due /\ busy' = busy
      /\ exec' = exec /\ frame_samples' = frame_samples
  BY <1>5 DEF writer, machine
<1>8. /\ rd_frame' \in 0..wr_total + 1 /\ rd_frac' \in 0..STEP_ONE - 1
      /\ underruns' \in 0..Reqn
  <2> DEFINE f == c.frame
             r == c.frac
             p == c.padded
  <2>1. /\ f \in Nat /\ f <= wr_total + 1 /\ r \in Nat /\ r < STEP_ONE
        /\ p \in Nat /\ p <= Reqn
    BY <1>3
  <2>2. rd_frame' = f /\ rd_frac' = r /\ underruns' = p
    BY <1>5
  <2> HIDE DEF f, r, p
  <2>3. f \in 0..wr_total + 1
    BY <1>1, <2>1, SMT
  <2>4. r \in 0..STEP_ONE - 1
    <3>1. STEP_ONE \in Int
      BY Units
    <3> QED BY ONLY <2>1, <3>1, SMT
  <2>5. p \in 0..Reqn
    BY <2>1, Sizes, SMT
  <2> QED BY <2>2, <2>3, <2>4, <2>5
<1>9. TypeOK'
  BY <1>2, <1>6, <1>7, <1>8 DEF RingInv, TypeOK, FRAME_PERIOD
<1>10. PositionsDerived'
  BY <1>6, <1>7 DEF RingInv, PositionsDerived
<1> QED BY <1>7, <1>9, <1>10 DEF RingInv

(* Every reachable state of the ring satisfies its invariant.              *)
THEOREM Invariant == Spec => []RingInv
<1>1. RingInv /\ [Next]_vars => RingInv'
  <2> SUFFICES ASSUME RingInv, [Next]_vars PROVE RingInv'
    OBVIOUS
  <2>1. CASE UNCHANGED vars
    BY <2>1 DEF vars, writer, reader, pacing, machine, RingInv, TypeOK, PositionsDerived
  <2>2. CASE Done
    BY <2>1, <2>2 DEF Done
  <2> QED BY <2>1, <2>2, WorkerStep, SetBufferStep, CallbackStep DEF Next
<1> QED BY <1>1, InitRing, PTL DEF Spec

(* Type correctness; with it, the reader stays within one frame of the     *)
(* writer and no call pads more frames than it was asked for.              *)
THEOREM TypeCorrect == Spec => []TypeOK
<1>1. RingInv => TypeOK
  BY DEF RingInv
<1> QED BY <1>1, Invariant, PTL

(* The block indices both threads move along are what the counters say,    *)
(* after any number of underruns, however many blocks a call crosses.      *)
THEOREM PositionsFollow == Spec => []PositionsDerived
<1>1. RingInv => PositionsDerived
  BY DEF RingInv
<1> QED BY <1>1, Invariant, PTL
=============================================================================
