-------------------------- MODULE SoundEventsProofs --------------------------
(***************************************************************************)
(* Proofs about the queue from the machine's OUTs to the samples, for any  *)
(* pair of rates, frame and queue that fit each other (QueueSuffices): the *)
(* queue never drops a write, the mirrors follow the chips, the loop of    *)
(* process_frame always catches up and nothing is heard late.              *)
(*                                                                         *)
(* And about the counters those writes set: the mirror of an 8253 counter  *)
(* that the sound is made from never drifts from the counter itself.       *)
(***************************************************************************)
EXTENDS SoundEvents, NumberLemmas

Event == [clock : Nat, value : Values]
Chip  == (Values \cup {0}) \X (Values \cup {0})

\* From a boundary to a clock it is less than a sample and a clock.
WithinSample(boundary, clock) == boundary * rate[2] < clock * rate[2] + rate[1] + rate[2]

\* The boundary of the next sample after k samples, with the fraction of a clock.
OnGrid(k, next, acc) ==
  /\ k \in Nat /\ next \in Nat /\ acc \in Nat /\ acc < rate[2]
  /\ next * rate[2] + acc = k * rate[1]

\* A queue is in order, and no faster than a program of OUTs alone.
Ordered(q) ==
  /\ q \in Seq(Event)
  /\ \A i \in 1..Len(q) : q[i].clock + (Len(q) - i + 1) * OutClocks <= sound_clock
  /\ \A i, j \in 1..Len(q) : i <= j => q[i].clock <= q[j].clock

\* What is queued and still to be heard, from a boundary on.
Waiting(q, next) == Ordered(q) /\ \A i \in 1..Len(q) : WithinSample(next, q[i].clock)

OnTime(late) == late \subseteq Int /\ \A l \in late : l * rate[2] < rate[1] + rate[2]

Clocks ==
  /\ rate \in Rates /\ sound_clock \in Nat /\ frame_start \in Nat
  /\ frame_start <= sound_clock /\ sound_clock < frame_start + FrameClocks + OutClocks
  /\ OnGrid(samples, next_sample_clock, cps_frac_acc)
  /\ WithinSample(next_sample_clock, frame_start)
  /\ (next_sample_clock > frame_start \/ (next_sample_clock = 0 /\ frame_start = 0))

Heard ==
  /\ Waiting(events, next_sample_clock) /\ Len(events) < CAPACITY
  /\ chip \in Chip /\ mirror \in Chip /\ Played(mirror, events) = chip
  /\ OnTime(lateness)

EventInv == Clocks /\ Heard
-----------------------------------------------------------------------------
(* Numbers *)

\* What QueueSuffices says of the rates in use.
LEMMA RateFacts ==
  ASSUME QueueSuffices, rate \in Rates
  PROVE  /\ rate[1] \in Nat /\ rate[2] \in Nat /\ rate[2] > 0
         /\ cps_whole \in Nat /\ cps_whole > 0 /\ cps_whole <= FrameClocks
         /\ cps_frac_num \in Nat /\ cps_frac_num < rate[2]
         /\ rate[1] = cps_whole * rate[2] + cps_frac_num
         /\ FrameClocks + cps_whole <= (CAPACITY - 1) * OutClocks
         /\ CAPACITY \in Nat /\ FrameClocks \in Nat /\ OutClocks \in 1..FrameClocks
<1>1. /\ CAPACITY \in Nat /\ FrameClocks \in Nat /\ OutClocks \in 1..FrameClocks
      /\ rate \in Nat \X Nat /\ rate[2] > 0 /\ rate[1] >= rate[2]
      /\ rate[1] <= FrameClocks * rate[2]
      /\ FrameClocks + cps_whole <= (CAPACITY - 1) * OutClocks
  BY DEF QueueSuffices, cps_whole
<1>2. rate[1] \in Nat /\ rate[2] \in Nat
  BY <1>1
<1> DEFINE x == rate[1]
           y == rate[2]
<1>3. x \in Nat /\ y \in Nat /\ y > 0 /\ x >= y
  BY <1>1, <1>2
<1> HIDE DEF x, y
<1>4. x = (x \div y) * y + (x % y) /\ x \div y \in Nat /\ x % y \in 0..(y - 1)
  BY <1>3, DivModSum
<1>5. x \div y # 0
  <2> DEFINE d == x \div y
             m == x % y
  <2>1. x = d * y + m /\ d \in Nat /\ m \in 0..(y - 1)
    BY <1>4
  <2> HIDE DEF d, m
  <2>2. d # 0
    BY <2>1, <1>3
  <2> QED BY <2>2 DEF d
<1>6. cps_whole = x \div y /\ cps_frac_num = x % y
  BY DEF cps_whole, cps_frac_num, x, y
<1>7. /\ cps_whole \in Nat /\ cps_whole > 0
      /\ cps_frac_num \in Nat /\ cps_frac_num < y /\ x = cps_whole * y + cps_frac_num
  BY <1>3, <1>4, <1>5, <1>6
\* A sample has no more whole clocks than the frame that holds it.
<1>8. cps_whole <= FrameClocks
  <2>1. x <= FrameClocks * y /\ FrameClocks \in Nat /\ FrameClocks * y \in Nat
    BY <1>1, <1>3 DEF x, y
  <2> DEFINE k == FrameClocks + 1
  <2>2. k * y = FrameClocks * y + y /\ k \in Nat /\ k - 1 = FrameClocks
    BY <1>3, <2>1
  <2> HIDE DEF k
  <2>3. x < k * y
    BY <1>3, <2>1, <2>2
  <2>4. x \div y \in 0..(k - 1)
    BY <1>3, <2>2, <2>3, DivBelow
  <2> QED BY <1>6, <2>1, <2>2, <2>4
<1> QED BY <1>1, <1>3, <1>7, <1>8 DEF x, y

\* The boundary after the next is a sample further.
LEMMA GridStep ==
  ASSUME NEW x \in Nat, NEW y \in Nat, NEW c \in Nat, NEW f \in Nat,
         x = c * y + f, f < y, NEW k \in Nat, NEW n \in Nat, NEW a \in Nat, a < y,
         n * y + a = k * x
  PROVE  /\ (n + c) * y + (a + f) = (k + 1) * x
         /\ (n + c + 1) * y + (a + f - y) = (k + 1) * x
         /\ (n + c) * y <= n * y + a + x
         /\ a + f >= y => (n + c + 1) * y <= n * y + a + x
<1>1. /\ (n + c) * y = n * y + c * y /\ (n + c + 1) * y = n * y + c * y + y
      /\ (k + 1) * x = k * x + x
      /\ n * y \in Nat /\ c * y \in Nat /\ k * x \in Nat
  OBVIOUS
<1> DEFINE ny == n * y
           cy == c * y
           kx == k * x
           p == (n + c) * y
           q == (n + c + 1) * y
           kk == (k + 1) * x
<1>2. /\ p = ny + cy /\ q = ny + cy + y /\ kk = kx + x /\ x = cy + f /\ ny + a = kx
      /\ ny \in Nat /\ cy \in Nat /\ kx \in Nat
  BY <1>1
<1> HIDE DEF ny, cy, kx, p, q, kk
<1>3. /\ p + (a + f) = kk /\ q + (a + f - y) = kk
      /\ p <= ny + a + x /\ (a + f >= y => q <= ny + a + x)
  BY <1>2
<1> QED BY <1>3 DEF ny, p, q, kk

-----------------------------------------------------------------------------
(* Queues and the chip they drive *)

\* Nothing queued changes nothing.
LEMMA PlayedNothing ==
  ASSUME NEW c \in Chip
  PROVE  Played(c, <<>>) = c
BY DEF Played, WriteAt, Chip

\* A write at the end of the queue is the chip's last.
LEMMA PlayedAppend ==
  ASSUME NEW c \in Chip, NEW q \in Seq(Event), NEW e \in Event
  PROVE  Played(c, Append(q, e)) = Written(Played(c, q), e.value)
<1>1. Len(Append(q, e)) = Len(q) + 1 /\ Len(q) \in Nat
  OBVIOUS
<1>2. Append(q, e)[Len(q) + 1] = e
      /\ \A i \in 1..Len(q) : Append(q, e)[i] = q[i]
  OBVIOUS
<1>3. WriteAt(c, Append(q, e), Len(q) + 2) = WriteAt(c, q, Len(q) + 2)
  <2>1. CASE Len(q) + 2 <= 2
    BY <2>1 DEF WriteAt
  <2>2. CASE Len(q) + 2 > 2
    <3>1. Len(q) + 2 - 2 \in 1..Len(q)
      BY <1>1, <2>2
    <3> QED BY <1>1, <1>2, <2>2, <3>1 DEF WriteAt
  <2> QED BY <1>1, <2>1, <2>2
<1>4. WriteAt(c, Append(q, e), Len(q) + 3) = e.value
  BY <1>1, <1>2 DEF WriteAt
<1> QED BY <1>1, <1>3, <1>4 DEF Played, Written

\* Replaying the head of a queue, then the rest, is replaying it all.
LEMMA PlayedTwice ==
  ASSUME NEW c \in Chip, NEW q \in Seq(Event), NEW n \in 0..Len(q)
  PROVE  Played(Played(c, SubSeq(q, 1, n)), SubSeq(q, n + 1, Len(q))) = Played(c, q)
<1> DEFINE h == SubSeq(q, 1, n)
           t == SubSeq(q, n + 1, Len(q))
           d == Played(c, h)
<1>1. /\ Len(q) \in Nat /\ Len(h) = n /\ Len(t) = Len(q) - n
      /\ \A i \in 1..n : h[i] = q[i]
      /\ \A i \in 1..(Len(q) - n) : t[i] = q[n + i]
  OBVIOUS
<1> HIDE DEF h, t
<1>2. d[1] = WriteAt(c, h, n + 1) /\ d[2] = WriteAt(c, h, n + 2)
  BY <1>1 DEF Played
<1> HIDE DEF d
<1>3. ASSUME NEW i \in 1..(n + 2) PROVE WriteAt(c, h, i) = WriteAt(c, q, i)
  <2>1. CASE i <= 2
    BY <2>1 DEF WriteAt
  <2>2. CASE i > 2
    <3>1. i - 2 \in 1..n
      BY <2>2
    <3> QED BY <1>1, <2>2, <3>1 DEF WriteAt
  <2> QED BY <2>1, <2>2
<1>4. ASSUME NEW i \in 1..(Len(q) - n + 2)
      PROVE  WriteAt(d, t, i) = WriteAt(c, q, n + i)
  <2>1. CASE i = 1 \/ i = 2
    <3>1. WriteAt(d, t, i) = WriteAt(c, h, n + i) /\ n + i \in 1..(n + 2)
      BY <1>2, <2>1 DEF WriteAt
    <3> QED BY <1>3, <3>1
  <2>2. CASE i > 2
    <3>1. i - 2 \in 1..(Len(q) - n) /\ n + (i - 2) = n + i - 2 /\ n + i > 2
      BY <1>1, <2>2
    <3>2. t[i - 2] = q[n + i - 2]
      BY <1>1, <3>1
    <3> QED BY <2>2, <3>1, <3>2 DEF WriteAt
  <2> QED BY <2>1, <2>2
<1>5. Played(d, t) = Played(c, q)
  <2>1. /\ WriteAt(d, t, Len(t) + 1) = WriteAt(c, q, Len(q) + 1)
        /\ WriteAt(d, t, Len(t) + 2) = WriteAt(c, q, Len(q) + 2)
    <3>1. /\ Len(t) + 1 \in 1..(Len(q) - n + 2) /\ Len(t) + 2 \in 1..(Len(q) - n + 2)
          /\ n + (Len(t) + 1) = Len(q) + 1 /\ n + (Len(t) + 2) = Len(q) + 2
      BY <1>1
    <3> QED BY <1>4, <3>1
  <2> QED BY <2>1 DEF Played
<1> QED BY <1>5 DEF d, h, t

\* The values a chip can hold stay values.
LEMMA PlayedIsChip ==
  ASSUME NEW c \in Chip, NEW q \in Seq(Event)
  PROVE  Played(c, q) \in Chip
<1>1. ASSUME NEW i \in 1..(Len(q) + 2) PROVE WriteAt(c, q, i) \in Values \cup {0}
  <2>1. CASE i = 1 \/ i = 2
    BY <2>1 DEF WriteAt, Chip
  <2>2. CASE i > 2
    <3>1. i - 2 \in 1..Len(q)
      BY <2>2
    <3>2. q[i - 2] \in Event
      BY <3>1
    <3> QED BY <2>2, <3>2 DEF WriteAt, Event
  <2> QED BY <2>1, <2>2
<1>2. Len(q) + 1 \in 1..(Len(q) + 2) /\ Len(q) + 2 \in 1..(Len(q) + 2)
  OBVIOUS
<1> QED BY <1>1, <1>2 DEF Played, Chip

\* The events due are a head of the queue, and of a queue in order all that are due.
LEMMA DueIsHead ==
  ASSUME NEW q \in Seq(Event), NEW t \in Nat,
         \A i, j \in 1..Len(q) : i <= j => q[i].clock <= q[j].clock
  PROVE  /\ Due(q, t) \in 0..Len(q)
         /\ \A i \in 1..Due(q, t) : q[i].clock <= t
         /\ \A i \in (Due(q, t) + 1)..Len(q) : q[i].clock > t
<1> DEFINE T == {n \in 0..Len(q) : \A i \in 1..n : q[i].clock <= t}
           d == Due(q, t)
<1>1. 0 \in T /\ T \subseteq 0..Len(q) /\ Len(q) \in Nat
  OBVIOUS
<1>2. \E m \in T : \A k \in T : m >= k
  <2> HIDE DEF T
  <2>1. \E m \in T : \A k \in T : k <= m
    BY <1>1, GreatestBelow
  <2> QED BY <1>1, <2>1
<1>3. d = CHOOSE m \in T : \A k \in T : m >= k
  BY Zenon DEF Due, Max
<1>4. d \in T /\ \A k \in T : d >= k
  <2> HIDE DEF T, d
  <2> QED BY <1>2, <1>3
<1>5. d \in 0..Len(q) /\ \A i \in 1..d : q[i].clock <= t
  <2> HIDE DEF d
  <2> QED BY <1>4
<1>6. ASSUME NEW i \in (d + 1)..Len(q) PROVE q[i].clock > t
  <2> HIDE DEF d
  <2>1. d + 1 \notin T /\ d + 1 \in 0..Len(q)
    <3>1. d + 1 \in 0..Len(q)
      BY <1>5
    <3>2. d \in Nat
      BY <1>5
    <3> HIDE DEF T
    <3> QED BY <1>4, <3>1, <3>2
  <2>2. PICK j \in 1..(d + 1) : ~(q[j].clock <= t)
    BY <2>1
  <2>3. j = d + 1
    BY <1>5, <2>2
  <2>4. q[j] \in Event /\ q[i] \in Event /\ q[j].clock <= q[i].clock
    BY <1>5, <2>3
  <2> QED BY <2>2, <2>4 DEF Event
<1> HIDE DEF d
<1> QED BY <1>5, <1>6 DEF d

-----------------------------------------------------------------------------
(* The loop of process_frame() *)

Rec == [events : Seq(Event), mirror : Chip, lateness : SUBSET Int, samples : Nat,
        next : Nat, acc : Nat]

\* What a turn of the loop keeps.
LoopInv(r) ==
  /\ r \in Rec
  /\ OnGrid(r.samples, r.next, r.acc)
  /\ WithinSample(r.next, sound_clock)
  /\ Waiting(r.events, r.next) /\ Len(r.events) < CAPACITY
  /\ OnTime(r.lateness)
  /\ Played(r.mirror, r.events) = chip

\* Every event due at a boundary is heard then, less than a sample and a clock late.
LEMMA ReplayKeeps ==
  ASSUME QueueSuffices, rate \in Rates, sound_clock \in Nat, NEW r, LoopInv(r),
         NEW z, z = Replay(r, r.next)
  PROVE  /\ z \in Rec /\ z.samples = r.samples /\ z.next = r.next /\ z.acc = r.acc
         /\ Ordered(z.events) /\ \A i \in 1..Len(z.events) : z.events[i].clock > r.next
         /\ Len(z.events) < CAPACITY /\ OnTime(z.lateness)
         /\ Played(z.mirror, z.events) = chip
<1> DEFINE q == r.events
           t == r.next
           n == Due(q, t)
           late == {t - q[i].clock : i \in 1..n}
<1>1. /\ r \in Rec /\ q \in Seq(Event) /\ t \in Nat /\ r.mirror \in Chip
      /\ Ordered(q) /\ OnTime(r.lateness) /\ Played(r.mirror, q) = chip
      /\ \A i \in 1..Len(q) : WithinSample(t, q[i].clock)
      /\ \A i, j \in 1..Len(q) : i <= j => q[i].clock <= q[j].clock
      /\ \A i \in 1..Len(q) : q[i].clock + (Len(q) - i + 1) * OutClocks <= sound_clock
  BY DEF LoopInv, Waiting, Ordered, Rec
<1>2. /\ n \in 0..Len(q) /\ \A i \in 1..n : q[i].clock <= t
      /\ \A i \in (n + 1)..Len(q) : q[i].clock > t
  <2> HIDE DEF q, t
  <2> QED BY <1>1, DueIsHead
<1>3. z = [r EXCEPT !.mirror = Played(r.mirror, SubSeq(q, 1, n)),
                    !.lateness = r.lateness \union late,
                    !.events = SubSeq(q, n + 1, Len(q))]
  BY Zenon DEF Replay
<1> HIDE DEF n
<1>4. OnTime(r.lateness \union late)
  <2>1. ASSUME NEW i \in 1..n
        PROVE  /\ t - q[i].clock \in Int
               /\ (t - q[i].clock) * rate[2] < rate[1] + rate[2]
    <3>1. i \in 1..Len(q)
      BY <1>1, <1>2
    <3>2. q[i].clock \in Nat
      <4> HIDE DEF q
      <4>1. q[i] \in Event
        BY <1>1, <3>1
      <4> QED BY <4>1 DEF Event
    <3>3. WithinSample(t, q[i].clock)
      BY <1>1, <3>1
    <3> DEFINE k == q[i].clock
               y == rate[2]
               x == rate[1]
    <3>4. k \in Nat /\ y \in Nat /\ x \in Nat /\ t \in Nat /\ t * y < k * y + x + y
      BY <1>1, <3>2, <3>3, RateFacts DEF WithinSample
    <3> HIDE DEF k, y, x, t
    <3>5. (t - k) * y = t * y - k * y /\ t * y \in Nat /\ k * y \in Nat /\ t - k \in Int
      BY <3>4
    <3> QED BY <3>4, <3>5 DEF k, y, x
  <2>2. \A l \in late : l \in Int /\ l * rate[2] < rate[1] + rate[2]
    BY <2>1
  <2> HIDE DEF late
  <2> QED BY <1>1, <2>2 DEF OnTime
<1>5. /\ SubSeq(q, n + 1, Len(q)) \in Seq(Event)
      /\ Len(SubSeq(q, n + 1, Len(q))) = Len(q) - n
      /\ \A i \in 1..(Len(q) - n) : SubSeq(q, n + 1, Len(q))[i] = q[n + i]
      /\ SubSeq(q, 1, n) \in Seq(Event)
  <2> HIDE DEF q
  <2> QED BY <1>1, <1>2
<1> DEFINE m == Played(r.mirror, SubSeq(q, 1, n))
           e == SubSeq(q, n + 1, Len(q))
<1>6. m \in Chip /\ Played(m, e) = chip
  <2>1. m \in Chip
    BY <1>1, <1>5, PlayedIsChip
  <2>2. Played(m, e) = Played(r.mirror, q)
    BY <1>1, <1>2, PlayedTwice
  <2> QED BY <1>1, <2>1, <2>2
<1> HIDE DEF m, late
<1>7. e \in Seq(Event) /\ Ordered(e) /\ (\A i \in 1..Len(e) : e[i].clock > t)
      /\ Len(e) < CAPACITY
  <2>1. e \in Seq(Event) /\ Len(e) = Len(q) - n /\ Len(q) \in Nat /\ n \in Nat
    BY <1>1, <1>2, <1>5
  <2>2. ASSUME NEW i \in 1..Len(e)
        PROVE  e[i] = q[n + i] /\ n + i \in (n + 1)..Len(q) /\ n + i \in 1..Len(q)
               /\ Len(e) - i + 1 = Len(q) - (n + i) + 1
    BY <1>5, <2>1
  <2> HIDE DEF e, q, t
  <2>3. \A i \in 1..Len(e) : e[i].clock > t
    BY <1>2, <2>2
  <2>4. \A i \in 1..Len(e) : e[i].clock + (Len(e) - i + 1) * OutClocks <= sound_clock
    BY <1>1, <2>2
  <2>5. \A i, j \in 1..Len(e) : i <= j => e[i].clock <= e[j].clock
    <3> TAKE i, j \in 1..Len(e)
    <3>1. i <= j => n + i <= n + j
      BY <2>1
    <3> QED BY <1>1, <2>2, <3>1
  <2>6. Len(e) < CAPACITY
    <3>1. Len(q) < CAPACITY /\ CAPACITY \in Nat
      BY RateFacts DEF LoopInv, q
    <3> QED BY <2>1, <3>1
  <2> QED BY <2>1, <2>3, <2>4, <2>5, <2>6 DEF Ordered
<1> HIDE DEF e
<1>8. z = [r EXCEPT !.mirror = m, !.lateness = r.lateness \union late, !.events = e]
  BY <1>3 DEF m, e
<1>9. r.lateness \union late \in SUBSET Int
  BY <1>4 DEF OnTime
<1> DEFINE l == r.lateness \union late
<1>10. z = [r EXCEPT !.mirror = m, !.lateness = l, !.events = e] /\ l \in SUBSET Int
       /\ r \in Rec /\ e \in Seq(Event) /\ m \in Chip
  BY <1>1, <1>6, <1>7, <1>8, <1>9
<1> HIDE DEF l
<1>11. /\ z \in Rec /\ z.samples = r.samples /\ z.next = r.next /\ z.acc = r.acc
       /\ z.events = e /\ z.mirror = m /\ z.lateness = l
  BY <1>10 DEF Rec
<1> QED BY <1>4, <1>6, <1>7, <1>11 DEF l

\* A turn keeps the loop's invariant, and moves on while a boundary has passed.
LEMMA RenderKeeps ==
  ASSUME QueueSuffices, rate \in Rates, sound_clock \in Nat, NEW r, LoopInv(r)
  PROVE  /\ LoopInv(RenderSample(r))
         /\ r.next > sound_clock => RenderSample(r).next = r.next
         /\ r.next <= sound_clock => RenderSample(r).next >= r.next + cps_whole
<1>1. CASE r.next > sound_clock
  <2>1. RenderSample(r) = r /\ ~(r.next <= sound_clock)
    BY <1>1 DEF RenderSample, LoopInv, Rec
  <2> QED BY <1>1, <2>1
<1>2. CASE r.next <= sound_clock
  <2> DEFINE z == Replay(r, r.next)
             w == [z EXCEPT !.samples = z.samples + 1]
             x == rate[1]
             y == rate[2]
             c == cps_whole
             f == cps_frac_num
             k == r.samples
             n == r.next
             a == r.acc
             carry == a + f >= y
             nn == IF carry THEN n + c + 1 ELSE n + c
             aa == IF carry THEN a + f - y ELSE a + f
             s == RenderSample(r)
  <2>1. /\ z \in Rec /\ z.samples = k /\ z.next = n /\ z.acc = a
        /\ Ordered(z.events) /\ \A i \in 1..Len(z.events) : z.events[i].clock > n
        /\ Len(z.events) < CAPACITY
        /\ OnTime(z.lateness) /\ Played(z.mirror, z.events) = chip
    <3> HIDE DEF z
    <3> QED BY ReplayKeeps DEF z
  <2>2. s = NextSample(w)
    <3>1. ~(r.next > sound_clock)
      BY <1>2 DEF LoopInv, Rec
    <3>2. s = NextSample([Replay(r, r.next) EXCEPT !.samples = @ + 1])
      BY <3>1, Zenon DEF RenderSample
    <3> QED BY <3>2, Zenon
  <2>3. /\ x \in Nat /\ y \in Nat /\ y > 0 /\ c \in Nat /\ c > 0 /\ f \in Nat /\ f < y
        /\ x = c * y + f
    BY RateFacts
  <2>4. /\ k \in Nat /\ n \in Nat /\ a \in Nat /\ a < y /\ n * y + a = k * x
        /\ n * y < sound_clock * y + x + y
    BY DEF LoopInv, OnGrid, WithinSample
  <2> HIDE DEF z, x, y, c, f, k, n, a
  <2>5. /\ w \in Rec /\ w.samples = k + 1 /\ w.next = n /\ w.acc = a
        /\ w.events = z.events /\ w.mirror = z.mirror /\ w.lateness = z.lateness
    BY <2>1, <2>4 DEF Rec
  <2> HIDE DEF w
  <2>6. nn \in Nat /\ aa \in Nat /\ aa < y /\ nn >= n + c
    BY <2>3, <2>4
  <2>7. s = [w EXCEPT !.acc = aa, !.next = nn]
    <3> HIDE DEF s
    <3>1. CASE carry
      <4>1. w.acc + cps_frac_num >= rate[2]
        BY <2>5, <3>1 DEF f, y
      <4>2. s = [w EXCEPT !.acc = w.acc + cps_frac_num - rate[2],
                          !.next = w.next + cps_whole + 1]
        BY <2>2, <4>1, Zenon DEF NextSample
      <4>3. nn = n + c + 1 /\ aa = a + f - y
        BY <3>1
      <4> QED BY <2>5, <4>2, <4>3, Zenon DEF f, y, c
    <3>2. CASE ~carry
      <4>1. ~(w.acc + cps_frac_num >= rate[2])
        BY <2>5, <3>2 DEF f, y
      <4>2. s = [w EXCEPT !.acc = w.acc + cps_frac_num, !.next = w.next + cps_whole]
        BY <2>2, <4>1, Zenon DEF NextSample
      <4>3. nn = n + c /\ aa = a + f
        BY <3>2
      <4> QED BY <2>5, <4>2, <4>3, Zenon DEF f, y, c
    <3> QED BY <3>1, <3>2
  <2> HIDE DEF nn, aa, s
  <2>8. /\ s \in Rec /\ s.samples = k + 1 /\ s.next = nn /\ s.acc = aa
        /\ s.events = z.events /\ s.mirror = z.mirror /\ s.lateness = z.lateness
    BY <2>5, <2>6, <2>7 DEF Rec
  <2>9. nn * y + aa = (k + 1) * x /\ nn * y <= n * y + a + x
    <3>1. /\ (n + c) * y + (a + f) = (k + 1) * x
          /\ (n + c + 1) * y + (a + f - y) = (k + 1) * x
          /\ (n + c) * y <= n * y + a + x
          /\ a + f >= y => (n + c + 1) * y <= n * y + a + x
      BY <2>3, <2>4, GridStep
    <3>2. CASE carry
      <4>1. nn = n + c + 1 /\ aa = a + f - y
        BY <3>2 DEF nn, aa
      <4> QED BY <3>1, <3>2, <4>1
    <3>3. CASE ~carry
      <4>1. nn = n + c /\ aa = a + f
        BY <3>3 DEF nn, aa
      <4> QED BY <3>1, <4>1
    <3> QED BY <3>2, <3>3
  <2>10. ASSUME NEW t \in Nat, n <= t PROVE nn * y < t * y + x + y
    <3>1. n * y <= t * y /\ n * y \in Nat /\ t * y \in Nat
      BY <2>3, <2>4, <2>10, MulMono
    <3>2. nn * y \in Nat
      BY <2>3, <2>6
    <3> QED BY <2>3, <2>4, <2>9, <3>1, <3>2
  <2>11. OnGrid(s.samples, s.next, s.acc)
    <3>1. k + 1 \in Nat
      BY <2>4
    <3> QED BY <2>6, <2>8, <2>9, <3>1 DEF OnGrid, x, y
  <2>12. WithinSample(s.next, sound_clock)
    <3>1. n <= sound_clock
      BY <1>2 DEF n
    <3> QED BY <2>8, <2>10, <3>1 DEF WithinSample, x, y
  <2>13. Waiting(s.events, s.next)
    <3>1. ASSUME NEW i \in 1..Len(z.events) PROVE WithinSample(nn, z.events[i].clock)
      <4>1. z.events[i] \in Event
        BY <2>1 DEF Ordered
      <4>2. z.events[i].clock \in Nat /\ n <= z.events[i].clock
        BY <2>1, <2>4, <4>1 DEF Event
      <4> QED BY <2>10, <4>2 DEF WithinSample, x, y
    <3> QED BY <2>1, <2>8, <3>1 DEF Waiting
  <2>14. LoopInv(s)
    BY <2>1, <2>8, <2>11, <2>12, <2>13 DEF LoopInv
  <2> QED BY <1>2, <2>4, <2>6, <2>8, <2>14 DEF s, n, c
<1> QED
  <2>1. r.next \in Nat
    BY DEF LoopInv, Rec
  <2> QED BY <1>1, <1>2, <2>1

\* The budget is a number of turns, and more than two frames of samples.
LEMMA BudgetFacts ==
  ASSUME QueueSuffices, rate \in Rates
  PROVE  Budget \in Nat /\ Budget * cps_whole > 2 * FrameClocks
<1> DEFINE c == cps_whole
           F == FrameClocks
           x == rate[1]
           y == rate[2]
           q == (F * y) \div x
           n == (F * y) % x
<1>1. /\ c \in Nat /\ c > 0 /\ F \in Nat /\ x \in Nat /\ y \in Nat /\ y > 0
      /\ cps_frac_num \in Nat /\ cps_frac_num < y /\ x = c * y + cps_frac_num
  BY RateFacts
<1>2. Budget = 8 * q /\ x <= F * y
  BY DEF Budget, sound_frame_size, QueueSuffices
<1> HIDE DEF c, F, x, y
\* A sample is shorter than twice its whole clocks.
<1>3. c * y \in Nat /\ y <= c * y /\ x > 0 /\ x <= 2 * (c * y)
  <2>1. 1 \in Nat /\ 1 <= c
    BY <1>1
  <2>2. 1 * y <= c * y /\ c * y \in Nat
    BY <1>1, <2>1, MulMono
  <2> DEFINE p == c * y
  <2>3. p \in Nat /\ y <= p /\ x = p + cps_frac_num
    BY <1>1, <2>2
  <2> HIDE DEF p
  <2>4. y <= p /\ x > 0 /\ x <= 2 * p
    BY <1>1, <2>3
  <2> QED BY <2>2, <2>4 DEF p
<1>4. F * y \in Nat
  BY <1>1
<1>5. q \in Nat /\ n \in Nat /\ n < x /\ F * y = q * x + n
  <2> DEFINE z == F * y
  <2>1. z \in Nat
    BY <1>4
  <2> HIDE DEF z
  <2>2. z = (z \div x) * x + (z % x) /\ z \div x \in Nat /\ z % x \in Nat /\ z % x < x
    BY <1>1, <1>3, <2>1, DivModSum
  <2> QED BY <2>2 DEF z
<1> HIDE DEF q, n
<1>6. q # 0
  BY <1>1, <1>2, <1>3, <1>4, <1>5
\* A frame is shorter than twice its whole samples.
<1>7. q * x \in Nat /\ F * y < 2 * (q * x)
  <2>1. 1 \in Nat /\ 1 <= q
    BY <1>5, <1>6
  <2>2. 1 * x <= q * x /\ q * x \in Nat
    BY <1>1, <1>5, <2>1, MulMono
  <2> QED BY <1>1, <1>4, <1>5, <2>2
\* The two together, and the length of a frame divided out.
<1>8. F * y < (4 * (q * c)) * y
  <2>1. 2 * (c * y) \in Nat
    BY <1>3
  <2>2. x * q <= (2 * (c * y)) * q
    BY <1>1, <1>3, <1>5, <2>1, MulMono
  <2>3. x * q = q * x /\ (2 * (c * y)) * q = 2 * ((q * c) * y)
    BY <1>1, <1>5
  <2>4. (4 * (q * c)) * y = 4 * ((q * c) * y) /\ (q * c) * y \in Nat
    BY <1>1, <1>5
  <2> QED BY <1>4, <1>7, <2>2, <2>3, <2>4
<1>9. F < 4 * (q * c)
  <2>1. 4 * (q * c) \in Nat
    BY <1>1, <1>5
  <2>2. SUFFICES ASSUME 4 * (q * c) <= F PROVE FALSE
    BY <1>1, <2>1
  <2>3. (4 * (q * c)) * y <= F * y /\ (4 * (q * c)) * y \in Nat
    BY <1>1, <2>1, <2>2, MulMono
  <2> QED BY <1>4, <1>8, <2>3
<1>10. (8 * q) * c = 8 * (q * c) /\ 8 * q \in Nat /\ q * c \in Nat
  BY <1>1, <1>5
<1>11. 2 * F < 8 * (q * c)
  BY <1>1, <1>9, <1>10
<1> QED
  <2>1. Budget * c > 2 * F /\ Budget \in Nat
    BY <1>2, <1>10, <1>11
  <2> QED BY <2>1 DEF c, F

\* Rendered is what its recursion says.
LEMMA RenderedRecursion ==
  ASSUME QueueSuffices, rate \in Rates, sound_clock \in Nat, LoopInv(Begun)
  PROVE  /\ Rendered[0] = Begun
         /\ \A i \in 1..Budget : Rendered[i] = RenderSample(Rendered[i - 1])
<1> DEFINE S == {r \in Rec : LoopInv(r)}
           D == [p \in S \X (1..Budget) |-> RenderSample(p[1])]
<1>1. Budget \in Nat
  BY BudgetFacts
<1>2. Begun \in S
  BY DEF LoopInv
<1>3. D \in [S \X (1..Budget) -> S]
  <2>1. ASSUME NEW r \in S PROVE RenderSample(r) \in S
    <3>1. LoopInv(RenderSample(r))
      BY RenderKeeps
    <3> QED BY <3>1 DEF LoopInv
  <2> HIDE DEF S
  <2> QED BY <2>1
<1>4. \A r \in S, i \in 1..Budget : D[<<r, i>>] = RenderSample(r)
  <2> HIDE DEF S
  <2> QED OBVIOUS
<1> HIDE DEF S, D
<1>5. PICK f \in [0..Budget -> S] : Follows(f, Budget, Begun, D)
  BY <1>1, <1>2, <1>3, RecursionHasFunction
<1>6. f = [i \in 0..Budget |-> IF i = 0 THEN Begun ELSE RenderSample(f[i - 1])]
  <2>1. ASSUME NEW i \in 0..Budget
        PROVE  f[i] = IF i = 0 THEN Begun ELSE RenderSample(f[i - 1])
    <3>1. CASE i = 0
      BY <1>5, <3>1 DEF Follows
    <3>2. CASE i # 0
      <4>1. i \in 1..Budget /\ i - 1 \in 0..Budget
        BY <1>1, <3>2
      <4>2. f[i - 1] \in S
        BY <4>1
      <4>3. f[i] = D[<<f[i - 1], i>>]
        BY <1>5, <4>1 DEF Follows
      <4> QED BY <1>4, <3>2, <4>1, <4>2, <4>3
    <3> QED BY <3>1, <3>2
  <2> QED BY <2>1
<1>7. Rendered = [k \in 0..Budget |-> IF k = 0 THEN Begun ELSE RenderSample(Rendered[k - 1])]
  <2>1. Rendered = CHOOSE g : g = [k \in 0..Budget |->
                                     IF k = 0 THEN Begun ELSE RenderSample(g[k - 1])]
    BY Zenon DEF Rendered
  <2>2. \E g : g = [k \in 0..Budget |-> IF k = 0 THEN Begun ELSE RenderSample(g[k - 1])]
    BY <1>6
  <2> QED BY <2>1, <2>2, Zenon
<1> QED
  <2>1. 0 \in 0..Budget
    BY <1>1
  <2>2. \A i \in 1..Budget : i \in 0..Budget /\ i # 0
    BY <1>1
  <2> QED BY <1>7, <2>1, <2>2

\* The loop keeps its invariant and ends with every sample of the frame rendered.
LEMMA LoopCatchesUp ==
  ASSUME QueueSuffices, EventInv
  PROVE  LoopInv(Rendered[Budget]) /\ Rendered[Budget].next > sound_clock
<1> DEFINE y == rate[2]
           c == cps_whole
           F == FrameClocks
           O == OutClocks
           n == next_sample_clock
           T == {i \in 0..Budget :
                   /\ LoopInv(Rendered[i])
                   /\ Rendered[i].next > sound_clock \/ Rendered[i].next >= n + i * c}
<1>1. /\ rate \in Rates /\ sound_clock \in Nat /\ frame_start \in Nat
      /\ frame_start <= sound_clock /\ sound_clock < frame_start + F + O
      /\ OnGrid(samples, n, cps_frac_acc) /\ WithinSample(n, frame_start)
      /\ n \in Nat /\ n >= frame_start
  BY DEF EventInv, Clocks, OnGrid
<1>2. /\ rate[1] \in Nat /\ y \in Nat /\ c \in Nat /\ F \in Nat /\ O \in 1..F
  BY <1>1, RateFacts
<1>3. Budget \in Nat /\ Budget * c > 2 * F
  BY <1>1, BudgetFacts
<1>4. LoopInv(Begun)
  <2>1. WithinSample(n, sound_clock)
    <3>1. frame_start * y <= sound_clock * y /\ frame_start * y \in Nat
          /\ sound_clock * y \in Nat
      BY <1>1, <1>2, MulMono
    <3>2. n * y \in Nat
      BY <1>1, <1>2
    <3> QED BY <1>1, <1>2, <3>1, <3>2 DEF WithinSample
  <2>2. Begun \in Rec
    BY <1>1 DEF Begun, Rec, EventInv, Heard, Waiting, Ordered, OnGrid
  <2>3. OnTime({})
    BY DEF OnTime
  <2> QED BY <1>1, <2>1, <2>2, <2>3 DEF LoopInv, Begun, EventInv, Heard
<1>5. /\ Rendered[0] = Begun
      /\ \A i \in 1..Budget : Rendered[i] = RenderSample(Rendered[i - 1])
  BY <1>1, <1>4, RenderedRecursion
<1>6. 0 \in T
  <2>1. Begun.next = n /\ 0 * c = 0 /\ 0 \in 0..Budget
    BY <1>2, <1>3 DEF Begun
  <2> QED BY <1>1, <1>4, <1>5, <2>1
<1>7. ASSUME NEW i \in Nat, i < Budget, i \in T PROVE i + 1 \in T
  <2> DEFINE r == Rendered[i]
             s == Rendered[i + 1]
  <2>1. /\ i + 1 \in 1..Budget /\ i + 1 \in 0..Budget /\ (i + 1) - 1 = i
    BY <1>3, <1>7
  <2>2. LoopInv(r) /\ (r.next > sound_clock \/ r.next >= n + i * c)
    BY <1>7
  <2>3. s = RenderSample(r)
    BY <1>5, <2>1
  <2> HIDE DEF r, s, T
  <2>4. /\ LoopInv(s)
        /\ r.next > sound_clock => s.next = r.next
        /\ r.next <= sound_clock => s.next >= r.next + c
    BY <1>1, <2>2, <2>3, RenderKeeps
  <2>5. s.next > sound_clock \/ s.next >= n + (i + 1) * c
    <3>1. r.next \in Nat /\ s.next \in Nat
      BY <2>2, <2>4 DEF LoopInv, Rec
    <3>2. (i + 1) * c = i * c + c /\ i * c \in Nat
      BY <1>2
    <3> HIDE DEF c, n
    <3> QED BY <1>1, <1>2, <2>2, <2>4, <3>1, <3>2
  <2> QED BY <2>1, <2>4, <2>5 DEF T, s
<1>8. Budget \in T
  <2>1. \A i \in 0..Budget : i \in T
    <3> HIDE DEF T
    <3> QED BY <1>3, <1>6, <1>7, SetInduction
  <2> HIDE DEF T
  <2> QED BY <1>3, <2>1
<1> DEFINE last == Rendered[Budget]
           b == Budget * c
<1>9. LoopInv(last) /\ (last.next > sound_clock \/ last.next >= n + b)
  BY <1>8
<1>10. last.next \in Nat
  BY <1>9 DEF LoopInv, Rec
<1>11. b \in Nat /\ b > 2 * F
  BY <1>2, <1>3
<1> HIDE DEF last, b
<1>12. last.next > sound_clock
  BY <1>1, <1>2, <1>9, <1>10, <1>11
<1> QED BY <1>9, <1>12 DEF last

-----------------------------------------------------------------------------
(* The invariant *)

\* What every frame starts from.
LEMMA FreshHolds ==
  ASSUME QueueSuffices, rate \in Rates, sound_clock = 0, frame_start = 0, events = <<>>,
         next_sample_clock = 0, cps_frac_acc = 0, samples = 0,
         chip = <<0, 0>>, mirror = <<0, 0>>, lateness = {}
  PROVE  EventInv
<1>1. /\ rate[1] \in Nat /\ rate[2] \in Nat /\ rate[2] > 0
      /\ FrameClocks \in Nat /\ OutClocks \in 1..FrameClocks /\ CAPACITY \in Nat
      /\ cps_whole \in Nat /\ FrameClocks + cps_whole <= (CAPACITY - 1) * OutClocks
  BY RateFacts
<1>2. 0 * rate[2] = 0 /\ 0 * rate[1] = 0
  BY <1>1
<1>3. Clocks
  BY <1>1, <1>2 DEF Clocks, OnGrid, WithinSample
<1>4. CAPACITY > 0
  <2>1. CASE CAPACITY = 0
    <3>1. (CAPACITY - 1) * OutClocks = 0 - OutClocks
      BY <1>1, <2>1
    <3> QED BY <1>1, <3>1
  <2> QED BY <1>1, <2>1
<1>5. Waiting(events, next_sample_clock) /\ Len(events) = 0
  BY DEF Waiting, Ordered
<1>6. chip \in Chip /\ mirror \in Chip /\ Played(mirror, events) = chip
  <2>1. <<0, 0>> \in Chip
    BY DEF Chip
  <2> QED BY <2>1, PlayedNothing
<1>7. OnTime(lateness)
  BY DEF OnTime
<1> QED BY <1>1, <1>3, <1>4, <1>5, <1>6, <1>7 DEF EventInv, Heard

\* While a frame goes on there is room for an event: the oldest was written at most
\* a sample before the frame, and the others, an OUT each, after it.
LEMMA QueueHasRoom ==
  ASSUME QueueSuffices, EventInv, FrameGoesOn
  PROVE  Len(events) \in Nat /\ Len(events) < CAPACITY - 1
<1> DEFINE x == rate[1]
           y == rate[2]
           c == cps_whole
           f == cps_frac_num
           F == FrameClocks
           O == OutClocks
           n == next_sample_clock
           start == frame_start
           now == sound_clock
           len == Len(events)
           cap == CAPACITY - 1
           q == events[1].clock
<1>1. /\ rate \in Rates /\ now \in Nat /\ start \in Nat /\ n \in Nat /\ now < start + F
      /\ n > start \/ (n = 0 /\ start = 0)
      /\ Ordered(events) /\ \A i \in 1..Len(events) : WithinSample(n, events[i].clock)
      /\ events \in Seq(Event) /\ len \in Nat
  BY DEF EventInv, Clocks, Heard, Waiting, Ordered, OnGrid, FrameGoesOn
<1>2. /\ x \in Nat /\ y \in Nat /\ y > 0 /\ c \in Nat /\ f \in Nat /\ f < y /\ x = c * y + f
      /\ F + c <= cap * O /\ F \in Nat /\ O \in Nat /\ O > 0 /\ cap \in Int /\ c > 0
  BY <1>1, RateFacts, SMTT(20)
<1>3. cap > 0
  <2> HIDE DEF cap, F, c, O
  <2>1. ASSUME cap <= 0 PROVE FALSE
    <3>1. PICK k \in Nat : cap = 0 - k
      BY <1>2, <2>1
    <3>2. cap * O = 0 - k * O /\ k * O \in Nat
      BY <1>2, <3>1
    <3> QED BY <1>2, <3>2
  <2> QED BY <1>2, <2>1
<1>4. CASE len = 0
  BY <1>3, <1>4
<1>5. CASE len # 0
  <2>1. 1 \in 1..len
    BY <1>1, <1>5
  <2>2. q \in Nat
    <3>1. events[1] \in Event
      BY <1>1, <2>1
    <3> QED BY <3>1 DEF Event
  <2>3. n * y < q * y + x + y
    BY <1>1, <2>1 DEF WithinSample
  <2>4. q + len * O <= now
    <3>1. q + (len - 1 + 1) * O <= now
      BY <1>1, <2>1 DEF Ordered
    <3>2. len - 1 + 1 = len
      BY <1>1
    <3> QED BY <3>1, <3>2
  <2> HIDE DEF x, y, c, f, F, O, n, start, now, len, cap, q
  <2>5. start <= q + c
    <3>1. CASE n > start
      <4>1. ASSUME start > q + c PROVE FALSE
        <5>1. q + c + 2 <= n /\ q + c + 2 \in Nat
          BY <1>1, <1>2, <2>2, <3>1, <4>1
        <5>2. (q + c + 2) * y <= n * y /\ n * y \in Nat
          BY <1>1, <1>2, <5>1, MulMono
        <5>3. (q + c + 2) * y = q * y + c * y + 2 * y /\ q * y \in Nat /\ c * y \in Nat
          BY <1>2, <2>2
        <5> DEFINE ny == n * y
                   qy == q * y
                   cy == c * y
                   all == (q + c + 2) * y
        <5>4. /\ all <= ny /\ all = qy + cy + 2 * y /\ ny < qy + x + y /\ x = cy + f /\ f < y
              /\ ny \in Nat /\ qy \in Nat /\ cy \in Nat /\ y \in Nat /\ f \in Nat /\ x \in Nat
          BY <1>2, <2>3, <5>2, <5>3
        <5> HIDE DEF ny, qy, cy, all
        <5> QED BY <5>4
      <4> QED BY <1>1, <1>2, <2>2, <4>1
    <3>2. CASE n = 0 /\ start = 0
      BY <1>2, <2>2, <3>2
    <3> QED BY <1>1, <3>1, <3>2
  <2>6. len * O < cap * O
    <3> DEFINE lo == len * O
               co == cap * O
    <3>1. lo \in Nat /\ co \in Int /\ q + lo <= now /\ F + c <= co
      BY <1>1, <1>2, <2>4
    <3> HIDE DEF lo, co
    <3>2. lo < co
      BY <1>1, <1>2, <2>2, <2>5, <3>1
    <3> QED BY <3>2 DEF lo, co
  <2>7. ASSUME len >= cap PROVE FALSE
    <3>1. cap \in Nat /\ cap <= len
      BY <1>2, <1>3, <2>7
    <3>2. cap * O <= len * O /\ cap * O \in Nat /\ len * O \in Nat
      BY <1>1, <1>2, <3>1, MulMono
    <3> QED BY <2>6, <3>2
  <2>8. len \in Nat /\ len < cap
    BY <1>1, <1>2, <2>7
  <2> QED BY <2>8 DEF len, cap
<1> QED BY <1>4, <1>5

\* The clock moves on, while the frame goes on.
LEMMA ClockMoves ==
  ASSUME QueueSuffices, EventInv, FrameGoesOn, NEW n \in 1..OutClocks,
         sound_clock' = sound_clock + n,
         UNCHANGED <<rate, frame_start, next_sample_clock, cps_frac_acc, samples>>
  PROVE  Clocks'
<1>1. OutClocks \in Nat /\ FrameClocks \in Nat
  BY RateFacts DEF EventInv, Clocks
<1> QED BY <1>1 DEF EventInv, Clocks, FrameGoesOn, OnGrid, WithinSample

LEMMA OutKeeps ==
  ASSUME QueueSuffices, EventInv, NEW v \in Values, Out(v)
  PROVE  EventInv'
<1> DEFINE e == [clock |-> sound_clock, value |-> v]
           now == sound_clock
<1>1. /\ rate \in Rates /\ now \in Nat /\ frame_start \in Nat /\ frame_start <= now
      /\ next_sample_clock \in Nat /\ WithinSample(next_sample_clock, frame_start)
      /\ Ordered(events) /\ events \in Seq(Event) /\ Len(events) \in Nat
      /\ \A i \in 1..Len(events) : WithinSample(next_sample_clock, events[i].clock)
  BY DEF EventInv, Clocks, Heard, Waiting, Ordered, OnGrid
<1>2. /\ rate[1] \in Nat /\ rate[2] \in Nat /\ OutClocks \in Nat /\ OutClocks > 0
      /\ CAPACITY \in Nat
  <2>1. rate[1] \in Nat /\ rate[2] \in Nat
    BY <1>1, RateFacts
  <2>2. OutClocks \in Nat /\ OutClocks > 0 /\ CAPACITY \in Nat
    BY DEF QueueSuffices
  <2> QED BY <2>1, <2>2
<1>3. FrameGoesOn /\ sound_clock' = now + OutClocks /\ chip' = Written(chip, v)
      /\ events' = Push(e) /\ mirror' = mirror /\ lateness' = lateness /\ rate' = rate
      /\ next_sample_clock' = next_sample_clock
  BY DEF Out
<1>4. events' = Append(events, e) /\ Len(events) < CAPACITY - 1
  BY <1>2, <1>3, QueueHasRoom DEF Push
<1>5. e \in Event
  BY <1>1 DEF Event
<1>6. Clocks'
  <2>1. OutClocks \in 1..OutClocks
    BY <1>2
  <2> QED BY <1>3, <2>1, ClockMoves DEF Out
<1>7. WithinSample(next_sample_clock, now)
  <2>1. frame_start * rate[2] <= now * rate[2] /\ frame_start * rate[2] \in Nat
        /\ now * rate[2] \in Nat
    BY <1>1, <1>2, MulMono
  <2>2. next_sample_clock * rate[2] \in Nat
    BY <1>1, <1>2
  <2> DEFINE ny == next_sample_clock * rate[2]
             sy == frame_start * rate[2]
             cy == now * rate[2]
  <2>3. ny \in Nat /\ sy \in Nat /\ cy \in Nat /\ sy <= cy /\ ny < sy + rate[1] + rate[2]
    BY <1>1, <2>1, <2>2 DEF WithinSample
  <2> HIDE DEF ny, sy, cy
  <2>4. ny < cy + rate[1] + rate[2]
    BY <1>2, <2>3
  <2> QED BY <2>4 DEF WithinSample, ny, cy
<1>8. /\ events' \in Seq(Event) /\ Len(events') = Len(events) + 1
      /\ events'[Len(events) + 1] = e
      /\ \A i \in 1..Len(events) : events'[i] = events[i]
  BY <1>1, <1>4, <1>5
<1>9. \A i \in 1..Len(events') : events'[i].clock <= now
  <2> TAKE i \in 1..Len(events')
  <2>1. CASE i = Len(events) + 1
    BY <1>1, <1>8, <2>1
  <2>2. CASE i \in 1..Len(events)
    <3> DEFINE t == events[i].clock
               k == Len(events) - i + 1
               ko == k * OutClocks
    <3>1. events[i] \in Event /\ events'[i] = events[i] /\ k \in Nat /\ t + ko <= now
      BY <1>1, <1>8, <2>2 DEF Ordered
    <3>2. t \in Nat
      BY <3>1 DEF Event
    <3> HIDE DEF k, t
    <3>3. ko \in Nat
      BY <1>2, <3>1
    <3> HIDE DEF ko
    <3>4. t <= now
      BY <1>1, <3>1, <3>2, <3>3
    <3> QED BY <3>1, <3>4 DEF t
  <2>3. i = Len(events) + 1 \/ i \in 1..Len(events)
    BY <1>1, <1>8
  <2> QED BY <2>1, <2>2, <2>3
<1>10. Ordered(events)'
  <2>1. ASSUME NEW i \in 1..Len(events')
        PROVE  events'[i].clock + (Len(events') - i + 1) * OutClocks <= now + OutClocks
    <3>1. CASE i = Len(events) + 1
      <4> DEFINE k == Len(events') - i + 1
      <4>1. k = 1 /\ events'[i].clock = now
        BY <1>1, <1>8, <3>1
      <4> HIDE DEF k
      <4>2. k * OutClocks = OutClocks
        BY <1>2, <4>1
      <4> QED BY <1>1, <1>2, <4>1, <4>2 DEF k
    <3>2. CASE i \in 1..Len(events)
      <4>1. events[i] \in Event
        BY <1>1, <3>2
      <4>2. events[i].clock + (Len(events) - i + 1) * OutClocks <= now
        BY <1>1, <3>2 DEF Ordered
      <4> DEFINE k == Len(events) - i + 1
      <4>3. k \in Nat /\ Len(events') - i + 1 = k + 1
        BY <1>1, <1>8, <3>2
      <4> HIDE DEF k
      <4>4. (k + 1) * OutClocks = k * OutClocks + OutClocks /\ k * OutClocks \in Nat
        BY <1>2, <4>3
      <4> DEFINE ko == k * OutClocks
                 t == events[i].clock
      <4>5. t \in Nat /\ ko \in Nat /\ t + ko <= now /\ events'[i].clock = t
            /\ (k + 1) * OutClocks = ko + OutClocks
        BY <1>8, <3>2, <4>1, <4>2, <4>4 DEF Event, k
      <4> HIDE DEF ko, t
      <4>6. t + (ko + OutClocks) <= now + OutClocks
        BY <1>1, <1>2, <4>5
      <4> QED BY <4>3, <4>5, <4>6
    <3>3. i = Len(events) + 1 \/ i \in 1..Len(events)
      BY <1>1, <1>8
    <3> QED BY <3>1, <3>2, <3>3
  <2>2. ASSUME NEW i \in 1..Len(events'), NEW j \in 1..Len(events'), i <= j
        PROVE  events'[i].clock <= events'[j].clock
    <3>1. CASE j = Len(events) + 1
      BY <1>8, <1>9, <3>1
    <3>2. CASE j \in 1..Len(events)
      <4>1. i \in 1..Len(events)
        BY <1>1, <1>8, <2>2, <3>2
      <4>2. events[i].clock <= events[j].clock
        BY <1>1, <2>2, <3>2, <4>1 DEF Ordered
      <4> QED BY <1>8, <3>2, <4>1, <4>2
    <3>3. j = Len(events) + 1 \/ j \in 1..Len(events)
      BY <1>1, <1>8
    <3> QED BY <3>1, <3>2, <3>3
  <2> QED BY <1>3, <1>8, <2>1, <2>2 DEF Ordered
<1>11. Waiting(events, next_sample_clock)'
  <2>1. ASSUME NEW i \in 1..Len(events')
        PROVE  WithinSample(next_sample_clock, events'[i].clock)
    <3>1. CASE i = Len(events) + 1
      BY <1>7, <1>8, <3>1
    <3>2. CASE i \in 1..Len(events)
      BY <1>1, <1>8, <3>2
    <3>3. i = Len(events) + 1 \/ i \in 1..Len(events)
      BY <1>1, <1>8
    <3> QED BY <3>1, <3>2, <3>3
  <2> QED BY <1>3, <1>10, <2>1 DEF Waiting, WithinSample
<1>12. chip' \in Chip /\ mirror' \in Chip /\ Played(mirror', events') = chip'
  <2>1. chip \in Chip /\ mirror \in Chip /\ Played(mirror, events) = chip
    BY DEF EventInv, Heard
  <2>2. Played(mirror, Append(events, e)) = Written(chip, v)
    BY <1>1, <1>5, <2>1, PlayedAppend
  <2>3. Written(chip, v) \in Chip
    BY <2>1 DEF Written, Chip
  <2> QED BY <1>3, <1>4, <2>1, <2>2, <2>3
<1>13. OnTime(lateness)'
  BY <1>3 DEF EventInv, Heard, OnTime
<1>14. (Len(events) < CAPACITY)'
  BY <1>1, <1>2, <1>4, <1>8
<1>15. (Played(mirror, events) = chip)'
  BY <1>12 DEF Played, WriteAt
<1> QED BY <1>6, <1>11, <1>12, <1>13, <1>14, <1>15 DEF EventInv, Heard

LEMMA AdvanceKeeps ==
  ASSUME QueueSuffices, EventInv, NEW n \in 1..OutClocks, AdvanceClock(n)
  PROVE  EventInv'
<1>1. FrameGoesOn /\ sound_clock' = sound_clock + n
      /\ UNCHANGED <<rate, frame_start, events, next_sample_clock, cps_frac_acc, samples,
                     chip, mirror, lateness>>
  BY DEF AdvanceClock
<1>2. Clocks'
  BY <1>1, ClockMoves
<1>3. sound_clock \in Nat /\ n \in Nat /\ Ordered(events) /\ events \in Seq(Event)
      /\ OutClocks \in Nat
  BY RateFacts DEF EventInv, Clocks, Heard, Waiting, Ordered
<1>4. Ordered(events)'
  <2>1. ASSUME NEW i \in 1..Len(events)
        PROVE  events[i].clock + (Len(events) - i + 1) * OutClocks <= sound_clock + n
    <3> DEFINE t == events[i].clock
               k == Len(events) - i + 1
               ko == k * OutClocks
    <3>1. events[i] \in Event /\ k \in Nat /\ t + ko <= sound_clock
      BY <1>3 DEF Ordered
    <3>2. t \in Nat
      BY <3>1 DEF Event
    <3> HIDE DEF k, t
    <3>3. ko \in Nat
      BY <1>3, <3>1
    <3> HIDE DEF ko
    <3>4. t + ko <= sound_clock + n
      BY <1>3, <3>1, <3>2, <3>3
    <3> QED BY <3>4 DEF t, k, ko
  <2> QED BY <1>1, <1>3, <2>1 DEF Ordered
<1>5. Waiting(events, next_sample_clock)'
  BY <1>1, <1>4 DEF EventInv, Heard, Waiting, WithinSample
<1>6. (Played(mirror, events) = chip)' /\ (Len(events) < CAPACITY)' /\ OnTime(lateness)'
      /\ chip' \in Chip /\ mirror' \in Chip
  BY <1>1 DEF EventInv, Heard, Played, WriteAt, OnTime
<1> QED BY <1>2, <1>5, <1>6 DEF EventInv, Heard

\* process_frame() never skips ahead.
LEMMA ProcessKeeps ==
  ASSUME QueueSuffices, EventInv, ProcessFrame
  PROVE  EventInv'
<1> DEFINE r == Rendered[Budget]
<1>1. LoopInv(r) /\ r.next > sound_clock
  BY LoopCatchesUp
<1>2. sound_clock \in Nat /\ r.next \in Nat /\ rate \in Rates /\ Len(events) < CAPACITY
  BY <1>1 DEF EventInv, Clocks, Heard, LoopInv, Rec
<1>3. ~(r.next <= sound_clock)
  <2> HIDE DEF r
  <2> QED BY <1>1, <1>2
<1>4. /\ events' = r.events /\ mirror' = r.mirror /\ lateness' = r.lateness
      /\ next_sample_clock' = r.next /\ cps_frac_acc' = r.acc /\ samples' = r.samples
      /\ frame_start' = sound_clock /\ sound_clock' = sound_clock /\ rate' = rate
      /\ chip' = chip
  BY <1>3, Zenon DEF ProcessFrame
<1> HIDE DEF r
<1>5. FrameClocks \in Nat /\ OutClocks \in 1..FrameClocks /\ cps_whole \in Nat
      /\ FrameClocks + cps_whole <= (CAPACITY - 1) * OutClocks /\ CAPACITY \in Nat
      /\ rate[1] \in Nat /\ rate[2] \in Nat
  BY <1>2, RateFacts
<1>6. Clocks'
  BY <1>1, <1>2, <1>4, <1>5 DEF LoopInv, Clocks, OnGrid, WithinSample
<1>7. Waiting(events, next_sample_clock)'
  BY <1>1, <1>4 DEF LoopInv, Waiting, Ordered, WithinSample
<1>8. (Played(mirror, events) = chip)' /\ OnTime(lateness)' /\ chip' \in Chip /\ mirror' \in Chip
  BY <1>1, <1>4 DEF LoopInv, Rec, Played, WriteAt, OnTime, EventInv, Heard
<1>9. Len(r.events) < CAPACITY
  BY <1>1 DEF LoopInv
<1> QED BY <1>4, <1>6, <1>7, <1>8, <1>9 DEF EventInv, Heard

\* The inductive invariant: it holds at first, every step keeps it.
LEMMA EventInvStarts ==
  ASSUME QueueSuffices
  PROVE  Init => EventInv
BY FreshHolds DEF Init

LEMMA EventInvRestarts ==
  ASSUME QueueSuffices
  PROVE  Init' => EventInv'
BY EventInvStarts, PTL

LEMMA EventInvSteps ==
  ASSUME QueueSuffices
  PROVE  EventInv /\ [Next]_vars => EventInv'
<1> SUFFICES ASSUME EventInv, [Next]_vars PROVE EventInv'
  OBVIOUS
<1>1. ASSUME NEW v \in Values, Out(v) PROVE EventInv'
  BY <1>1, OutKeeps
<1>2. ASSUME NEW n \in 1..OutClocks, AdvanceClock(n) PROVE EventInv'
  BY <1>2, AdvanceKeeps
<1>3. CASE ProcessFrame
  BY <1>3, ProcessKeeps
<1>4. CASE Reset
  <2>1. Init'
    BY <1>4 DEF Reset, Fresh, Init, EventInv, Clocks
  <2> QED BY <2>1, EventInvRestarts
<1>5. CASE UNCHANGED vars
  BY <1>5 DEF vars, EventInv, Clocks, Heard, OnGrid, Waiting, Ordered, WithinSample, OnTime,
     Played, WriteAt
<1> QED BY <1>1, <1>2, <1>3, <1>4, <1>5 DEF Next

(* The queue is in order and what waits in it has still to be heard: events    *)
(* older than the next boundary are gone, none is a sample and a clock older.  *)
THEOREM EventInvariant ==
  ASSUME QueueSuffices
  PROVE  Spec => []EventInv
<1>1. Init => EventInv
  BY EventInvStarts
<1>2. EventInv /\ [Next]_vars => EventInv'
  BY EventInvSteps
<1> QED BY <1>1, <1>2, PTL DEF Spec

(* Replaying what is queued always brings the mirrors of the generator to the  *)
(* state of the chips: no write of the program is dropped, repeated or moved.  *)
THEOREM MirrorsFollow ==
  ASSUME QueueSuffices
  PROVE  Spec => []MirrorFollows
<1>1. EventInv => MirrorFollows
  BY DEF EventInv, Heard, MirrorFollows
<1> QED BY <1>1, EventInvariant, PTL

(* Every event is heard less than a sample and a clock after its OUT, and the  *)
(* next boundary is exactly where the samples rendered so far put it.          *)
THEOREM HeardWithoutDrift ==
  ASSUME QueueSuffices
  PROVE  Spec => []HeardOnTime
<1>1. EventInv => HeardOnTime
  <2> SUFFICES ASSUME EventInv PROVE HeardOnTime
    OBVIOUS
  <2> DEFINE x == rate[1]
             y == rate[2]
             n == next_sample_clock
             a == cps_frac_acc
  <2>1. /\ n \in Nat /\ a \in Nat /\ a < y /\ n * y + a = samples * x
        /\ y \in Nat /\ y > 0
    BY RateFacts DEF EventInv, Clocks, OnGrid
  <2>2. (n * y + a) \div y = n
    <3> HIDE DEF n, y, a
    <3> QED BY <2>1, DivModUnique
  <2>3. n = (samples * x) \div y
    BY <2>1, <2>2
  <2> QED BY <2>3 DEF HeardOnTime, EventInv, Heard, OnTime
<1> QED BY <1>1, EventInvariant, PTL

(* The queue always has its free slot, and holds nothing from the future. *)
THEOREM TypeCorrect ==
  ASSUME QueueSuffices
  PROVE  Spec => []TypeOK
<1>1. EventInv => TypeOK
  <2> SUFFICES ASSUME EventInv PROVE TypeOK
    OBVIOUS
  <2>1. OutClocks \in Nat /\ sound_clock \in Nat /\ events \in Seq(Event)
        /\ DOMAIN events = 1..Len(events) /\ Len(events) \in Nat
    BY RateFacts, SMTT(20) DEF EventInv, Clocks, Heard, Waiting, Ordered
  <2>2. ASSUME NEW i \in 1..Len(events)
        PROVE  events[i].value \in Values /\ events[i].clock <= sound_clock
    <3> DEFINE t == events[i].clock
               k == Len(events) - i + 1
               ko == k * OutClocks
    <3>1. events[i] \in Event /\ k \in Nat /\ t + ko <= sound_clock
      BY <2>1 DEF EventInv, Heard, Waiting, Ordered
    <3>2. t \in Nat /\ events[i].value \in Values
      BY <3>1 DEF Event
    <3> HIDE DEF k, t
    <3>3. ko \in Nat
      BY <2>1, <3>1
    <3> HIDE DEF ko
    <3>4. t <= sound_clock
      BY <2>1, <3>1, <3>2, <3>3
    <3> QED BY <3>2, <3>4 DEF t
  <2> QED BY <2>1, <2>2 DEF TypeOK, EventInv, Clocks, Heard, OnGrid
<1> QED BY <1>1, EventInvariant, PTL

-----------------------------------------------------------------------------
(***************************************************************************)
(* The counters the sound is made from (module Timer): MirrorStaysInStep.  *)
(*                                                                         *)
(* The mirror takes a sample at once where the counter takes it clock by   *)
(* clock, so the clocks come first: what n of them do to a level that      *)
(* stays (FlatClocks), to a mode 0 (OnceClocks), to half a square wave     *)
(* (HalfClocks, HalfEnds), each by induction over n.  Then the same sample *)
(* of the mirror: a closed form, or half wave after half wave, by          *)
(* induction over the half waves (HalfWaveStaysAbreast).                   *)
(*                                                                         *)
(* Between samples the two agree (Agreed), but that a latch command takes  *)
(* the counter a clock ahead, which it then waits for (Ahead).             *)
(***************************************************************************)
CONSTANTS Base, Bytes, SampleLengths, Clocked, MaxPortAccesses
VARIABLES counter, channel, exact, accesses, sample

T == INSTANCE Timer WITH chip <- counter, mirror <- channel

\* What a counter and a channel of the mirror hold, and a count of its clocks.
Counter ==
  [write_state : 0..1, latch_mode : 0..3, out : 0..1, value : Int, mode : 0..3, lsb : Nat,
   loadvalue : Nat, armed : BOOLEAN, load : BOOLEAN, enabled : BOOLEAN, delay : Nat, high : Int]
Channel ==
  [mode : 0..3, latch_mode : 0..3, write_state : 0..1, write_lsb : Nat, loadvalue : Nat,
   enabled : BOOLEAN, out : 0..1, value : Int, delay : Nat, armed : BOOLEAN, load : BOOLEAN]
Tally == [u : Counter, high : Int]

\* A counter stays one when its flags, its level or its delay are set.
LEMMA FlagsSet ==
  ASSUME NEW u \in Counter, NEW e \in BOOLEAN, NEW l \in BOOLEAN, NEW a \in BOOLEAN
  PROVE  [u EXCEPT !.enabled = e, !.load = l, !.armed = a] \in Counter
BY DEF Counter

LEMMA LevelSet ==
  ASSUME NEW u \in Counter, NEW v \in Int, NEW o \in 0..1, NEW h \in Int
  PROVE  [u EXCEPT !.value = v, !.out = o, !.high = h] \in Counter
BY DEF Counter

LEMMA WaitSet ==
  ASSUME NEW u \in Counter, NEW d \in Nat, NEW h \in Int
  PROVE  [u EXCEPT !.delay = d, !.high = h] \in Counter
BY DEF Counter

\* A clock leaves a counter a counter.
LEMMA ClockKeepsType ==
  ASSUME Base \in Nat, NEW u \in Counter
  PROVE  T!Count(u) \in Counter
<1> DEFINE c == T!Count(u)
           W == Base * Base
<1>1. W \in Nat
  OBVIOUS
<1> HIDE DEF W
<1>2. CASE u.delay > 0
  <2> DEFINE d == u.delay - 1
             h == u.out
  <2>1. d \in Nat /\ h \in Int
    BY <1>2 DEF Counter
  <2>2. c = [u EXCEPT !.delay = d, !.high = h]
    BY <1>2 DEF T!Count
  <2> HIDE DEF d, h, c
  <2> QED BY <2>1, <2>2, WaitSet DEF c
<1>3. CASE ~(u.delay > 0) /\ ~u.enabled /\ ~u.load
  BY <1>3 DEF Counter, T!Count
<1>4. CASE ~(u.delay > 0) /\ (u.enabled \/ u.load) /\ u.mode = 0
  <2> DEFINE v == IF u.load THEN u.loadvalue ELSE u.value
             out  == IF u.load THEN 0 ELSE u.out
             arm  == u.load \/ u.armed
             over == v - 1 <= 0
             v1 == IF over THEN v - 1 + W ELSE v - 1
             o1 == IF over /\ arm /\ v # 0 THEN 1 ELSE out
             h1 == IF over /\ arm THEN 2 - v ELSE out
             a1 == arm /\ ~over
             w == [u EXCEPT !.enabled = TRUE, !.load = FALSE, !.armed = a1]
  <2>1. c = T!TickOnce(u)
    BY <1>4 DEF T!Count
  <2>2. v \in Int /\ out \in 0..1 /\ arm \in BOOLEAN /\ a1 \in BOOLEAN
    BY DEF Counter
  <2>3. v1 \in Int /\ o1 \in 0..1 /\ h1 \in Int
    <3> HIDE DEF v, out, arm
    <3> QED BY <1>1, <2>2
  <2>5. T!TickOnce(u) = [w EXCEPT !.value = v1, !.out = o1, !.high = h1]
    BY Zenon DEF T!TickOnce, T!Wide, W
  <2> HIDE DEF v1, o1, h1, a1
  <2>6. w \in Counter
    BY <2>2, FlagsSet
  <2> HIDE DEF w
  <2>7. [w EXCEPT !.value = v1, !.out = o1, !.high = h1] \in Counter
    BY <2>3, <2>6, LevelSet
  <2> QED BY <2>1, <2>5, <2>7
<1>5. CASE ~(u.delay > 0) /\ (u.enabled \/ u.load) /\ u.mode \in {1, 2}
  <2>1. c = T!TickRate(u)
    BY <1>5 DEF T!Count
  <2> DEFINE v == (IF u.load /\ ~u.enabled /\ u.mode = 2 THEN u.loadvalue ELSE u.value) - 1
             reload == IF u.loadvalue = 0 THEN W
                       ELSE u.loadvalue + (IF u.mode = 1 THEN 1 ELSE 0)
             v1 == IF v <= 0 THEN v + reload ELSE v
             o1 == u.out
             a1 == u.armed
             w == [u EXCEPT !.enabled = TRUE, !.load = FALSE, !.armed = a1]
  <2>2. v \in Int /\ reload \in Int /\ o1 \in 0..1 /\ o1 \in Int /\ a1 \in BOOLEAN
    BY <1>1 DEF Counter
  <2>3. v1 \in Int
    <3> HIDE DEF v, reload
    <3> QED BY <2>2
  <2>4. T!TickRate(u) = [u EXCEPT !.enabled = TRUE, !.load = FALSE, !.high = o1, !.value = v1]
    BY Zenon DEF T!TickRate, T!Wide, W
  <2>5. [u EXCEPT !.enabled = TRUE, !.load = FALSE, !.high = o1, !.value = v1]
          = [w EXCEPT !.value = v1, !.out = o1, !.high = o1]
    <3> HIDE DEF v1
    <3> QED BY DEF Counter
  <2> HIDE DEF v1, o1, a1
  <2>6. w \in Counter
    BY <2>2, FlagsSet
  <2> HIDE DEF w
  <2>7. [w EXCEPT !.value = v1, !.out = o1, !.high = o1] \in Counter
    BY <2>2, <2>3, <2>6, LevelSet
  <2> QED BY <2>1, <2>4, <2>5, <2>7
<1>6. CASE ~(u.delay > 0) /\ (u.enabled \/ u.load) /\ u.mode = 3
  <2>1. c = T!TickSquare(u)
    BY <1>6 DEF T!Count
  <2> DEFINE from == IF u.load /\ ~u.enabled THEN u.loadvalue ELSE u.value
             step == IF from = u.loadvalue /\ from % 2 = 1
                     THEN IF u.out = 0 THEN 3 ELSE 1
                     ELSE 2
             v == from - step
             o1 == IF v <= 0 THEN 1 - u.out ELSE u.out
             v1 == IF v <= 0 THEN v + (IF u.loadvalue = 0 THEN W ELSE u.loadvalue) ELSE v
             a1 == u.armed
             w == [u EXCEPT !.enabled = TRUE, !.load = FALSE, !.armed = a1]
  <2>2. from \in Int /\ step \in Int /\ u.out \in 0..1 /\ u.loadvalue \in Nat /\ a1 \in BOOLEAN
    BY <1>1 DEF Counter
  <2>3. o1 \in 0..1 /\ o1 \in Int /\ v1 \in Int
    <3> HIDE DEF from, step
    <3> QED BY <1>1, <2>2
  <2>4. T!TickSquare(u) = [u EXCEPT !.enabled = TRUE, !.load = FALSE, !.out = o1, !.high = o1,
                                    !.value = v1]
    BY Zenon DEF T!TickSquare, T!Wide, W
  <2>5. [u EXCEPT !.enabled = TRUE, !.load = FALSE, !.out = o1, !.high = o1, !.value = v1]
          = [w EXCEPT !.value = v1, !.out = o1, !.high = o1]
    <3> HIDE DEF v1, o1
    <3> QED BY DEF Counter
  <2> HIDE DEF v1, o1, a1
  <2>6. w \in Counter
    BY <2>2, FlagsSet
  <2> HIDE DEF w
  <2>7. [w EXCEPT !.value = v1, !.out = o1, !.high = o1] \in Counter
    BY <2>3, <2>6, LevelSet
  <2> QED BY <2>1, <2>4, <2>5, <2>7
<1> QED BY <1>2, <1>3, <1>4, <1>5, <1>6 DEF Counter

\* Counted is what its recursion says.
LEMMA CountedRecursion ==
  ASSUME Base \in Nat, NEW u \in Counter, NEW n \in Nat
  PROVE  \E f \in [0..n -> Tally] :
           /\ f[0] = [u |-> u, high |-> 0] /\ T!Counted(u, n) = f[n]
           /\ \A i \in 1..n : f[i] = [u |-> T!Count(f[i - 1].u),
                                      high |-> f[i - 1].high + T!Count(f[i - 1].u).high]
<1> DEFINE z == [u |-> u, high |-> 0]
           Clock(s) == LET c == T!Count(s.u) IN [u |-> c, high |-> s.high + c.high]
           Rule(f) == [k \in 0..n |-> IF k = 0 THEN z
                         ELSE LET s == f[k - 1]
                                  c == T!Count(s.u) IN [u |-> c, high |-> s.high + c.high]]
           D == [p \in Tally \X (1..n) |-> Clock(p[1])]
<1>1. ASSUME NEW s \in Tally PROVE Clock(s) \in Tally
  <2> DEFINE c == T!Count(s.u)
  <2>1. s.u \in Counter /\ s.high \in Int
    BY DEF Tally
  <2>2. c \in Counter
    BY <2>1, ClockKeepsType
  <2> HIDE DEF c
  <2>3. c.high \in Int
    BY <2>2 DEF Counter
  <2>4. [u |-> c, high |-> s.high + c.high] \in Tally
    BY <2>1, <2>2, <2>3 DEF Tally
  <2> QED BY <2>4 DEF c
<1>2. z \in Tally
  BY DEF Tally
<1>3. D \in [Tally \X (1..n) -> Tally] /\ \A s \in Tally, i \in 1..n : D[<<s, i>>] = Clock(s)
  <2> HIDE DEF Clock
  <2> QED BY <1>1
<1> HIDE DEF D, z, Clock
<1>4. PICK f \in [0..n -> Tally] : Follows(f, n, z, D)
  BY <1>2, <1>3, RecursionHasFunction
<1>5. f = Rule(f)
  <2>1. ASSUME NEW i \in 0..n
        PROVE  f[i] = IF i = 0 THEN z ELSE Clock(f[i - 1])
    <3>1. CASE i = 0
      BY <1>4, <3>1 DEF Follows
    <3>2. CASE i # 0
      <4>1. i \in 1..n /\ i - 1 \in 0..n
        BY <3>2
      <4>2. f[i - 1] \in Tally /\ f[i] = D[<<f[i - 1], i>>]
        BY <1>4, <4>1 DEF Follows
      <4> QED BY <1>3, <3>2, <4>1, <4>2
    <3> QED BY <3>1, <3>2
  <2> QED BY <2>1 DEF Clock
<1> DEFINE run == CHOOSE g : g = Rule(g)
<1>6. run = Rule(run)
  BY <1>5, Zenon
<1>7. T!Counted(u, n) = run[n]
  BY Zenon DEF T!Counted, z
<1> DEFINE S == {i \in 0..n : run[i] \in Tally}
<1>8. 0 \in S
  <2>1. run[0] = z
    <3> HIDE DEF run
    <3> QED BY <1>6
  <2> HIDE DEF run
  <2> QED BY <1>2, <2>1
<1>9. \A i \in 1..n : run[i] = Clock(run[i - 1])
  <2> HIDE DEF run
  <2>1. TAKE i \in 1..n
  <2>2. i \in 0..n /\ i # 0
    OBVIOUS
  <2>3. Rule(run)[i] = Clock(run[i - 1])
    BY <2>2 DEF Clock
  <2> QED BY <1>6, <2>3
<1>10. ASSUME NEW i \in Nat, i < n, i \in S PROVE i + 1 \in S
  <2>1. i + 1 \in 1..n /\ i + 1 \in 0..n /\ (i + 1) - 1 = i
    BY <1>10
  <2> HIDE DEF run
  <2> QED BY <1>1, <1>9, <1>10, <2>1
<1>11. \A i \in 0..n : i \in S
  <2> HIDE DEF S
  <2> QED BY <1>8, <1>10, SetInduction
<1>12. run \in [0..n -> Tally] /\ run[0] = z
  <2> HIDE DEF run
  <2> QED BY <1>6, <1>11
<1> HIDE DEF run
<1> QED BY <1>7, <1>9, <1>12, Zenon DEF z, Clock

\* The counter after n clocks, and the clocks of them it was high.
After(u, n) == T!Counted(u, n).u
Highs(u, n) == T!Counted(u, n).high

LEMMA ClockByClock ==
  ASSUME Base \in Nat, NEW u \in Counter, NEW n \in Nat
  PROVE  /\ After(u, 0) = u /\ Highs(u, 0) = 0
         /\ After(u, n) \in Counter /\ Highs(u, n) \in Int
         /\ After(u, n + 1) = T!Count(After(u, n))
         /\ Highs(u, n + 1) = Highs(u, n) + T!Count(After(u, n)).high
<1> DEFINE Runs(f, m) ==
             /\ f[0] = [u |-> u, high |-> 0] /\ T!Counted(u, m) = f[m]
             /\ \A i \in 1..m : f[i] = [u |-> T!Count(f[i - 1].u),
                                        high |-> f[i - 1].high + T!Count(f[i - 1].u).high]
<1>1. ASSUME NEW m \in Nat PROVE \E f \in [0..m -> Tally] : Runs(f, m)
  BY <1>1, CountedRecursion, Zenon
<1>2. PICK f \in [0..n -> Tally] : Runs(f, n)
  BY <1>1
<1>3. PICK g \in [0..(n + 1) -> Tally] : Runs(g, n + 1)
  <2>1. n + 1 \in Nat
    OBVIOUS
  <2> QED BY <1>1, <2>1
<1>4. PICK z \in [0..0 -> Tally] : Runs(z, 0)
  BY <1>1
<1> DEFINE S == {i \in 0..n : f[i] = g[i]}
<1>5. 0 \in S
  BY <1>2, <1>3
<1>6. ASSUME NEW i \in Nat, i < n, i \in S PROVE i + 1 \in S
  <2>1. i + 1 \in 1..n /\ i + 1 \in 0..n /\ i + 1 \in 1..(n + 1) /\ (i + 1) - 1 = i
    BY <1>6
  <2>2. f[i + 1] = [u |-> T!Count(f[(i + 1) - 1].u),
                    high |-> f[(i + 1) - 1].high + T!Count(f[(i + 1) - 1].u).high]
    BY <1>2, <2>1, Zenon
  <2>3. g[i + 1] = [u |-> T!Count(g[(i + 1) - 1].u),
                    high |-> g[(i + 1) - 1].high + T!Count(g[(i + 1) - 1].u).high]
    BY <1>3, <2>1, Zenon
  <2>4. f[i + 1] = g[i + 1]
    BY <1>6, <2>1, <2>2, <2>3
  <2> QED BY <2>1, <2>4
<1>7. f[n] = g[n]
  <2>1. \A i \in 0..n : i \in S
    <3> HIDE DEF S
    <3> QED BY <1>5, <1>6, SetInduction
  <2> QED BY <2>1
<1>8. n + 1 \in 1..(n + 1) /\ (n + 1) - 1 = n /\ n \in 0..n
  OBVIOUS
<1>9. g[n + 1] = [u |-> T!Count(g[n].u), high |-> g[n].high + T!Count(g[n].u).high]
  BY <1>3, <1>8
<1>10. f[n].u \in Counter /\ f[n].high \in Int
  BY <1>2, <1>8 DEF Tally
<1>11. After(u, 0) = u /\ Highs(u, 0) = 0
  BY <1>4 DEF After, Highs
<1>12. After(u, n) = f[n].u /\ Highs(u, n) = f[n].high
  BY <1>2 DEF After, Highs
<1>13. After(u, n + 1) = T!Count(g[n].u) /\ Highs(u, n + 1) = g[n].high + T!Count(g[n].u).high
  BY <1>3, <1>9 DEF After, Highs
<1> QED BY <1>7, <1>10, <1>11, <1>12, <1>13

\* n clocks after m others are m + n clocks.
LEMMA ClocksAdd ==
  ASSUME Base \in Nat, NEW u \in Counter, NEW m \in Nat, NEW n \in Nat
  PROVE  /\ After(u, m + n) = After(After(u, m), n)
         /\ Highs(u, m + n) = Highs(u, m) + Highs(After(u, m), n)
<1> DEFINE w == After(u, m)
           S == {i \in 0..n : /\ After(u, m + i) = After(w, i)
                              /\ Highs(u, m + i) = Highs(u, m) + Highs(w, i)}
<1>1. w \in Counter /\ Highs(u, m) \in Int
  BY ClockByClock
<1> HIDE DEF w
<1>2. 0 \in S
  <2>1. After(w, 0) = w /\ Highs(w, 0) = 0 /\ m + 0 = m
    BY <1>1, ClockByClock
  <2> QED BY <1>1, <2>1 DEF w
<1>3. ASSUME NEW i \in Nat, i < n, i \in S PROVE i + 1 \in S
  <2>1. m + i \in Nat /\ (m + i) + 1 = m + (i + 1) /\ i + 1 \in 0..n
    BY <1>3
  <2>2. /\ After(w, i + 1) = T!Count(After(w, i)) /\ Highs(w, i) \in Int
        /\ Highs(w, i + 1) = Highs(w, i) + T!Count(After(w, i)).high
        /\ After(w, i) \in Counter
    BY <1>1, ClockByClock
  <2>3. /\ After(u, (m + i) + 1) = T!Count(After(u, m + i))
        /\ Highs(u, (m + i) + 1) = Highs(u, m + i) + T!Count(After(u, m + i)).high
    BY <2>1, ClockByClock
  <2>4. T!Count(After(w, i)).high \in Int
    <3>1. T!Count(After(w, i)) \in Counter
      BY <2>2, ClockKeepsType
    <3> QED BY <3>1 DEF Counter
  <2>5. After(u, m + i) = After(w, i) /\ Highs(u, m + i) = Highs(u, m) + Highs(w, i)
    BY <1>3
  <2>6. /\ After(u, m + (i + 1)) = After(w, i + 1)
        /\ Highs(u, m + (i + 1)) = Highs(u, m) + Highs(w, i + 1)
    BY <1>1, <2>1, <2>2, <2>3, <2>4, <2>5
  <2> QED BY <2>1, <2>6
<1>4. n \in S
  <2>1. \A i \in 0..n : i \in S
    <3> HIDE DEF S
    <3> QED BY <1>2, <1>3, SetInduction
  <2> QED BY <2>1
<1> QED BY <1>4 DEF w

\* Counters that a clock makes the same are the same from then on.
LEMMA SameFromTheFirstClock ==
  ASSUME Base \in Nat, NEW u \in Counter, NEW w \in Counter, T!Count(u) = T!Count(w),
         NEW n \in Nat, n > 0
  PROVE  After(u, n) = After(w, n) /\ Highs(u, n) = Highs(w, n)
<1>1. PICK k \in Nat : n = 1 + k
  <2>1. n - 1 \in Nat /\ n = 1 + (n - 1)
    OBVIOUS
  <2> QED BY <2>1
<1>2. ASSUME NEW x \in Counter
      PROVE  /\ After(x, n) = After(T!Count(x), k)
             /\ Highs(x, n) = T!Count(x).high + Highs(T!Count(x), k)
  <2>1. /\ After(x, 0) = x /\ Highs(x, 0) = 0
        /\ After(x, 0 + 1) = T!Count(After(x, 0))
        /\ Highs(x, 0 + 1) = Highs(x, 0) + T!Count(After(x, 0)).high
    BY <1>2, ClockByClock
  <2>2. T!Count(x) \in Counter
    BY <1>2, ClockKeepsType
  <2>3. After(x, 1) = T!Count(x) /\ Highs(x, 1) = T!Count(x).high
    BY <2>1, <2>2 DEF Counter
  <2>4. /\ After(x, 1 + k) = After(After(x, 1), k)
        /\ Highs(x, 1 + k) = Highs(x, 1) + Highs(After(x, 1), k)
    BY <1>2, ClocksAdd
  <2> QED BY <1>1, <2>3, <2>4
<1> QED BY <1>2

\* The clocks of a delay: the level stays.
Waited(u, w, n) ==
  \E h \in Int : w = [u EXCEPT !.delay = u.delay - n, !.high = h]

\* A delay of the counter passes clock by clock and changes nothing else.
LEMMA DelayClocks ==
  ASSUME Base \in Nat, NEW u \in Counter, NEW n \in Nat, n <= u.delay
  PROVE  Waited(u, After(u, n), n) /\ Highs(u, n) = n * u.out
<1> DEFINE o == u.out
           S == {i \in 0..n : Waited(u, After(u, i), i) /\ Highs(u, i) = i * o}
<1>0. o \in 0..1 /\ o \in Int /\ u.delay \in Nat
  BY DEF Counter
<1>1. 0 \in S
  <2> DEFINE h == u.high
  <2>1. After(u, 0) = u /\ Highs(u, 0) = 0
    BY ClockByClock
  <2>2. u = [u EXCEPT !.delay = u.delay - 0, !.high = h] /\ h \in Int
    <3>1. u.delay - 0 = u.delay
      BY <1>0
    <3>2. u = [u EXCEPT !.delay = u.delay, !.high = u.high]
      BY DEF Counter
    <3> QED BY <3>1, <3>2 DEF Counter
  <2> HIDE DEF h, o
  <2>3. Waited(u, u, 0)
    BY <2>2 DEF Waited
  <2> QED BY <1>0, <2>1, <2>3
<1>2. ASSUME NEW i \in Nat, i < n, i \in S PROVE i + 1 \in S
  <2> DEFINE w == After(u, i)
             d == u.delay - i
             e == u.delay - (i + 1)
  <2>1. PICK h \in Int : w = [u EXCEPT !.delay = u.delay - i, !.high = h]
    BY <1>2 DEF Waited
  <2>2. Highs(u, i) = i * o /\ i + 1 \in 0..n
    BY <1>2
  <2>3. w \in Counter /\ After(u, i + 1) = T!Count(w)
        /\ Highs(u, i + 1) = Highs(u, i) + T!Count(w).high
    BY <1>2, ClockByClock
  <2> HIDE DEF w
  <2>4. w.delay = d /\ w.out = o /\ d - 1 = e /\ d > 0
    BY <1>0, <1>2, <2>1 DEF Counter
  <2>5. T!Count(w) = [w EXCEPT !.delay = @ - 1, !.high = w.out]
    BY <2>4, Zenon DEF T!Count
  <2>6. T!Count(w) = [u EXCEPT !.delay = e, !.high = o]
    <3>1. T!Count(w) = [w EXCEPT !.delay = e, !.high = o]
      BY <2>3, <2>4, <2>5
    <3> HIDE DEF d, e, o
    <3> QED BY <2>1, <3>1 DEF Counter
  <2>7. T!Count(w).high = o
    <3> HIDE DEF e, o
    <3> QED BY <2>6 DEF Counter
  <2>8. Waited(u, T!Count(w), i + 1)
    <3> HIDE DEF o
    <3> QED BY <1>0, <2>6 DEF Waited
  <2>9. (i + 1) * o = i * o + o
    <3> HIDE DEF o
    <3> QED BY <1>0
  <2> QED BY <2>2, <2>3, <2>7, <2>8, <2>9
<1>3. n \in S
  <2>1. \A i \in 0..n : i \in S
    <3> HIDE DEF S
    <3> QED BY <1>1, <1>2, SetInduction
  <2> QED BY <2>1
<1> QED BY <1>3

(* A level that no clock changes: a counter that waits for its count, one of   *)
(* modes 1 and 2, and a mode 0 that has ended.                                 *)
Active(u) == u.enabled \/ u.load

Flat(u) == \/ ~Active(u)
           \/ u.mode \in {1, 2}
           \/ u.mode = 0 /\ u.enabled /\ ~u.load /\ u.out = 1 /\ ~u.armed

\* The counter after such a clock.
SameLevel(u, w) ==
  /\ w.mode = u.mode /\ w.latch_mode = u.latch_mode /\ w.lsb = u.lsb /\ w.out = u.out
  /\ w.armed = u.armed /\ w.loadvalue = u.loadvalue /\ (u.delay = 0 => w.delay = 0)
  /\ u.mode \in {1, 2} \/ (w.enabled = u.enabled /\ w.load = u.load)

\* A level that no clock changes stays so after a clock.
LEMMA FlatClock ==
  ASSUME Base \in Nat, NEW u \in Counter, Flat(u)
  PROVE  SameLevel(u, T!Count(u)) /\ Flat(T!Count(u)) /\ T!Count(u).high = u.out
<1> DEFINE c == T!Count(u)
<1>1. CASE u.delay > 0
  <2>1. c = [u EXCEPT !.delay = @ - 1, !.high = u.out]
    BY <1>1, Zenon DEF T!Count
  <2> HIDE DEF c
  <2>2. SameLevel(u, c) /\ c.high = u.out
    BY <1>1, <2>1 DEF Counter, SameLevel
  <2>3. Flat(c)
    BY <1>1, <2>1 DEF Counter, Flat, Active
  <2> QED BY <2>2, <2>3 DEF c
<1>2. CASE ~(u.delay > 0) /\ ~Active(u)
  <2>1. c = [u EXCEPT !.high = u.out]
    BY <1>2, Zenon DEF T!Count, Active
  <2> HIDE DEF c
  <2>2. SameLevel(u, c) /\ c.high = u.out
    BY <1>2, <2>1 DEF Counter, SameLevel
  <2>3. Flat(c)
    BY <1>2, <2>1 DEF Counter, Flat, Active
  <2> QED BY <2>2, <2>3 DEF c
<1>3. CASE ~(u.delay > 0) /\ Active(u) /\ u.mode \in {1, 2}
  <2> DEFINE v == T!TickRate(u).value
  <2>1. c = T!TickRate(u)
    BY <1>3 DEF T!Count, Active
  <2>2. /\ c.mode = u.mode /\ c.latch_mode = u.latch_mode /\ c.lsb = u.lsb /\ c.out = u.out
        /\ c.armed = u.armed /\ c.loadvalue = u.loadvalue /\ c.delay = u.delay
        /\ c.high = u.out
    <3> HIDE DEF c
    <3> QED BY <2>1 DEF T!TickRate, Counter
  <2> HIDE DEF c
  <2> QED BY <1>3, <2>2 DEF SameLevel, Flat, c
<1>4. CASE ~(u.delay > 0) /\ Active(u) /\ u.mode = 0
  <2>0. u.enabled /\ ~u.load /\ u.out = 1 /\ ~u.armed
    BY <1>4 DEF Flat
  <2>1. c = T!TickOnce(u)
    BY <1>4 DEF T!Count, Active
  <2>2. /\ c.mode = u.mode /\ c.latch_mode = u.latch_mode /\ c.lsb = u.lsb /\ c.out = u.out
        /\ c.armed = u.armed /\ c.loadvalue = u.loadvalue /\ c.delay = u.delay
        /\ c.high = u.out /\ c.enabled = u.enabled /\ c.load = u.load
    <3> HIDE DEF c
    <3> QED BY <2>0, <2>1 DEF T!TickOnce, Counter
  <2> HIDE DEF c
  <2> QED BY <1>4, <2>0, <2>2 DEF SameLevel, Flat, c
<1> QED BY <1>1, <1>2, <1>3, <1>4 DEF Flat

\* And after any number of them.
LEMMA FlatClocks ==
  ASSUME Base \in Nat, NEW u \in Counter, Flat(u), NEW n \in Nat
  PROVE  SameLevel(u, After(u, n)) /\ Highs(u, n) = n * u.out
<1> DEFINE o == u.out
           S == {i \in 0..n : /\ SameLevel(u, After(u, i)) /\ Flat(After(u, i))
                              /\ Highs(u, i) = i * o}
<1>0. o \in 0..1 /\ o \in Int
  BY DEF Counter
<1>1. 0 \in S
  <2>1. After(u, 0) = u /\ Highs(u, 0) = 0
    BY ClockByClock
  <2>2. SameLevel(u, u)
    BY DEF SameLevel
  <2> HIDE DEF o
  <2> QED BY <1>0, <2>1, <2>2
<1>2. ASSUME NEW i \in Nat, i < n, i \in S PROVE i + 1 \in S
  <2> DEFINE w == After(u, i)
             c == T!Count(w)
  <2>1. SameLevel(u, w) /\ Flat(w) /\ Highs(u, i) = i * o /\ i + 1 \in 0..n
    BY <1>2
  <2>2. w \in Counter /\ After(u, i + 1) = c /\ Highs(u, i + 1) = Highs(u, i) + c.high
    BY <1>2, ClockByClock
  <2> HIDE DEF w
  <2>3. SameLevel(w, c) /\ Flat(c) /\ c.high = w.out
    BY <2>1, <2>2, FlatClock
  <2> HIDE DEF c
  <2>4. SameLevel(u, c) /\ c.high = o
    BY <2>1, <2>3 DEF SameLevel
  <2>5. (i + 1) * o = i * o + o
    <3> HIDE DEF o
    <3> QED BY <1>0
  <2> QED BY <2>1, <2>2, <2>3, <2>4, <2>5
<1>3. n \in S
  <2>1. \A i \in 0..n : i \in S
    <3> HIDE DEF S
    <3> QED BY <1>1, <1>2, SetInduction
  <2> QED BY <2>1
<1> QED BY <1>3

\* Mode 0: n clocks into a count.
Counting(u) == /\ u.mode = 0 /\ u.delay = 0 /\ u.enabled /\ ~u.load
               /\ u.out = 0 /\ u.armed /\ u.value > 0

\* What the clocks of a running counter leave alone.
SameSetup(u, w) == /\ w.mode = u.mode /\ w.latch_mode = u.latch_mode /\ w.lsb = u.lsb
                   /\ w.loadvalue = u.loadvalue /\ w.delay = 0 /\ w.enabled

\* The counter w, n clocks after u: on its way, or high for good.
CountedDown(u, w, n) ==
  /\ SameSetup(u, w) /\ ~w.load
  /\ IF n < u.value THEN w.out = 0 /\ w.armed /\ w.value = u.value - n
                    ELSE w.out = 1 /\ ~w.armed

\* Mode 0 comes a clock nearer to its end, and is high in the last one.
LEMMA OnceClock ==
  ASSUME Base \in Nat, NEW u \in Counter, Counting(u)
  PROVE  CountedDown(u, T!Count(u), 1) /\ T!Count(u).high = IF u.value = 1 THEN 1 ELSE 0
<1> DEFINE c == T!Count(u)
           v == u.value
<1>1. c = T!TickOnce(u)
  <2>1. u.delay = 0 /\ ~(u.delay > 0) /\ u.enabled /\ u.mode = 0
    BY DEF Counting
  <2> QED BY <2>1 DEF T!Count
<1>2. v \in Int /\ v > 0
  BY DEF Counting, Counter
<1> HIDE DEF c
<1>3. /\ c.mode = u.mode /\ c.latch_mode = u.latch_mode /\ c.lsb = u.lsb
      /\ c.loadvalue = u.loadvalue /\ c.delay = 0 /\ c.enabled /\ ~c.load
  BY <1>1 DEF T!TickOnce, Counter, Counting
<1>4. CASE v = 1
  <2>1. c.out = 1 /\ ~c.armed /\ c.high = 1
    BY <1>1, <1>4 DEF T!TickOnce, Counter, Counting
  <2> QED BY <1>2, <1>3, <1>4, <2>1 DEF CountedDown, SameSetup, c
<1>5. CASE v # 1
  <2>1. c.out = 0 /\ c.armed /\ c.high = 0 /\ c.value = v - 1
    BY <1>1, <1>2, <1>5 DEF T!TickOnce, Counter, Counting
  <2> QED BY <1>2, <1>3, <1>5, <2>1 DEF CountedDown, SameSetup, c
<1> QED BY <1>4, <1>5

\* So it is high from the clock that reaches zero on.
LEMMA OnceClocks ==
  ASSUME Base \in Nat, NEW u \in Counter, Counting(u), NEW n \in Nat
  PROVE  /\ CountedDown(u, After(u, n), n)
         /\ Highs(u, n) = IF n < u.value THEN 0 ELSE n - u.value + 1
<1> DEFINE v == u.value
           S == {i \in 0..n : /\ CountedDown(u, After(u, i), i)
                              /\ Highs(u, i) = IF i < v THEN 0 ELSE i - v + 1}
<1>0. v \in Int /\ v > 0
  BY DEF Counting, Counter
<1>1. 0 \in S
  <2>1. After(u, 0) = u /\ Highs(u, 0) = 0
    BY ClockByClock
  <2>2. CountedDown(u, u, 0)
    BY DEF CountedDown, SameSetup, Counting, Counter
  <2> QED BY <1>0, <2>1, <2>2
<1>2. ASSUME NEW i \in Nat, i < n, i \in S PROVE i + 1 \in S
  <2> DEFINE w == After(u, i)
             c == T!Count(w)
  <2>1. CountedDown(u, w, i) /\ Highs(u, i) = (IF i < v THEN 0 ELSE i - v + 1) /\ i + 1 \in 0..n
    BY <1>2
  <2>2. w \in Counter /\ After(u, i + 1) = c /\ Highs(u, i + 1) = Highs(u, i) + c.high
    BY <1>2, ClockByClock
  <2> HIDE DEF w
  <2>3. u.mode = 0 /\ u.delay = 0
    BY DEF Counting
  <2>4. CASE i < v
    <3>1. Counting(w) /\ w.value = v - i
      BY <1>0, <1>2, <2>1, <2>3, <2>4 DEF Counting, CountedDown, SameSetup
    <3>2. CountedDown(w, c, 1) /\ c.high = IF w.value = 1 THEN 1 ELSE 0
      BY <2>2, <3>1, OnceClock
    <3> HIDE DEF c
    <3>3. CountedDown(u, c, i + 1)
      BY <1>0, <1>2, <2>1, <2>4, <3>1, <3>2 DEF CountedDown, SameSetup
    <3>4. Highs(u, i + 1) = IF i + 1 < v THEN 0 ELSE (i + 1) - v + 1
      BY <1>0, <1>2, <2>1, <2>2, <2>4, <3>1, <3>2
    <3> QED BY <2>1, <2>2, <3>3, <3>4
  <2>5. CASE ~(i < v)
    <3>1. Flat(w) /\ w.out = 1 /\ ~w.armed /\ ~w.load /\ SameSetup(u, w) /\ w.mode = 0
      BY <1>2, <2>1, <2>3, <2>5 DEF Flat, CountedDown, SameSetup
    <3>2. SameLevel(w, c) /\ c.high = 1
      BY <2>2, <3>1, FlatClock
    <3> HIDE DEF c
    <3>3. CountedDown(u, c, i + 1)
      <4>0. ~(w.mode \in {1, 2})
        BY <3>1
      <4>1. c.out = 1 /\ ~c.armed /\ ~c.load /\ c.enabled /\ c.delay = 0
        BY <3>1, <3>2, <4>0, Zenon DEF SameSetup, SameLevel
      <4>2. SameSetup(u, c)
        BY <3>1, <3>2, <4>1, Zenon DEF SameSetup, SameLevel
      <4>3. ~(i + 1 < u.value)
        BY <1>0, <1>2, <2>5
      <4> QED BY <4>1, <4>2, <4>3, Zenon DEF CountedDown
    <3>4. Highs(u, i + 1) = IF i + 1 < v THEN 0 ELSE (i + 1) - v + 1
      BY <1>0, <1>2, <2>1, <2>2, <2>5, <3>2
    <3> QED BY <2>1, <2>2, <3>3, <3>4
  <2> QED BY <2>4, <2>5
<1>3. n \in S
  <2>1. \A i \in 0..n : i \in S
    <3> HIDE DEF S
    <3> QED BY <1>1, <1>2, SetInduction
  <2> QED BY <2>1
<1> QED BY <1>3

(* Mode 3: where the counter, at u, and the mirror, at m, are in a wave of a   *)
(* count L whose level is out; and the clocks left of its half, as the mirror  *)
(* reckons them.                                                               *)
Even(n) == n % 2 = 0

Wave(u, m, out, L) ==
  /\ u > 0 /\ m > 0 /\ L >= 2
  /\ IF Even(L) THEN u = m /\ Even(u)
     ELSE IF out = 1 THEN (u = L /\ m = L) \/ (Even(u) /\ m = u - 1 /\ m < L)
     ELSE (u = L /\ m = L - 1) \/ (Even(u) /\ m = u /\ u < L)

Left(m, out, L) == IF out = 1 /\ m = L /\ L % 2 = 1 THEN (L + 1) \div 2 ELSE (m + 1) \div 2

\* The value of the counter after a clock, before a reload.
Stepped(u, out, L) == u - (IF u = L /\ L % 2 = 1 THEN IF out = 0 THEN 3 ELSE 1 ELSE 2)

\* A clock of a square wave leaves the counter within its half wave, a clock
\* less of which is left, or ends it with the count of the next.
LEMMA WaveClock ==
  ASSUME NEW u \in Int, NEW m \in Int, NEW out \in 0..1, NEW L \in Nat, Wave(u, m, out, L)
  PROVE  /\ Left(m, out, L) \in Nat /\ Left(m, out, L) >= 1
         /\ Left(m, out, L) > 1 =>
              /\ Stepped(u, out, L) > 0 /\ Wave(Stepped(u, out, L), m - 2, out, L)
              /\ Left(m - 2, out, L) = Left(m, out, L) - 1
         /\ Left(m, out, L) = 1 =>
              Stepped(u, out, L) <= 0 /\ Stepped(u, out, L) + L = L
<1>1. PICK h \in Nat : L = 2 * h \/ L = 2 * h + 1
  <2>1. L \div 2 \in Nat /\ (L = 2 * (L \div 2) \/ L = 2 * (L \div 2) + 1)
    OBVIOUS
  <2> QED BY <2>1
<1>2. CASE Even(L)
  <2>1. PICK k \in Nat : u = 2 * k
    <3>1. u \div 2 \in Nat /\ u = 2 * (u \div 2)
      BY <1>2 DEF Wave, Even
    <3> QED BY <3>1
  <2>2. m = u /\ k >= 1 /\ ~(L % 2 = 1) /\ L >= 2
    BY <1>2, <2>1 DEF Wave, Even
  <2>3. Stepped(u, out, L) = u - 2
    BY <2>2 DEF Stepped
  <2>4. Left(m, out, L) = k /\ Left(m - 2, out, L) = k - 1
    BY <2>1, <2>2 DEF Left
  <2>5. k > 1 => Wave(u - 2, m - 2, out, L)
    BY <1>2, <2>1, <2>2 DEF Wave, Even
  <2> QED BY <2>1, <2>2, <2>3, <2>4, <2>5
<1>3. CASE ~Even(L) /\ out = 1
  <2>1. L % 2 = 1 /\ L = 2 * h + 1 /\ h >= 1
    BY <1>1, <1>3 DEF Even, Wave
  <2>2. CASE u = L /\ m = L
    <3>1. Left(m, out, L) = h + 1
      BY <1>3, <2>1, <2>2 DEF Left
    <3>2. Stepped(u, out, L) = L - 1
      BY <1>3, <2>1, <2>2 DEF Stepped
    <3>3. Left(m - 2, out, L) = h
      BY <1>3, <2>1, <2>2 DEF Left
    <3>4. Wave(L - 1, m - 2, out, L)
      BY <1>3, <2>1, <2>2 DEF Wave, Even
    <3> QED BY <2>1, <2>2, <3>1, <3>2, <3>3, <3>4
  <2>3. CASE Even(u) /\ m = u - 1 /\ m < L
    <3>1. PICK k \in Nat : u = 2 * k
      <4>1. u \div 2 \in Nat /\ u = 2 * (u \div 2)
        BY <2>3 DEF Wave, Even
      <4> QED BY <4>1
    <3>2. k >= 1 /\ u # L /\ m # L
      BY <2>1, <2>3, <3>1 DEF Wave
    <3>3. Left(m, out, L) = k /\ Left(m - 2, out, L) = k - 1
      BY <2>1, <2>3, <3>1, <3>2 DEF Left
    <3>4. Stepped(u, out, L) = u - 2
      BY <3>2 DEF Stepped
    <3>5. k > 1 => Wave(u - 2, m - 2, out, L)
      BY <1>3, <2>1, <2>3, <3>1, <3>2 DEF Wave, Even
    <3> QED BY <3>1, <3>2, <3>3, <3>4, <3>5
  <2> QED BY <1>3, <2>2, <2>3 DEF Wave
<1>4. CASE ~Even(L) /\ out = 0
  <2>1. L % 2 = 1 /\ L = 2 * h + 1 /\ h >= 1
    BY <1>1, <1>4 DEF Even, Wave
  <2>2. CASE u = L /\ m = L - 1
    <3>1. Left(m, out, L) = h
      BY <1>4, <2>1, <2>2 DEF Left
    <3>2. Stepped(u, out, L) = L - 3
      BY <1>4, <2>1, <2>2 DEF Stepped
    <3>3. Left(m - 2, out, L) = h - 1
      BY <1>4, <2>1, <2>2 DEF Left
    <3>4. h > 1 => Wave(L - 3, m - 2, out, L)
      BY <1>4, <2>1, <2>2 DEF Wave, Even
    <3> QED BY <2>1, <2>2, <3>1, <3>2, <3>3, <3>4
  <2>3. CASE Even(u) /\ m = u /\ u < L
    <3>1. PICK k \in Nat : u = 2 * k
      <4>1. u \div 2 \in Nat /\ u = 2 * (u \div 2)
        BY <2>3 DEF Wave, Even
      <4> QED BY <4>1
    <3>2. k >= 1 /\ u # L /\ m # L
      BY <2>1, <2>3, <3>1 DEF Wave
    <3>3. Left(m, out, L) = k /\ Left(m - 2, out, L) = k - 1
      BY <1>4, <2>1, <2>3, <3>1, <3>2 DEF Left
    <3>4. Stepped(u, out, L) = u - 2
      BY <3>2 DEF Stepped
    <3>5. k > 1 => Wave(u - 2, m - 2, out, L)
      BY <1>4, <2>1, <2>3, <3>1, <3>2 DEF Wave, Even
    <3> QED BY <3>1, <3>2, <3>3, <3>4, <3>5
  <2> QED BY <1>4, <2>2, <2>3 DEF Wave
<1> QED BY <1>2, <1>3, <1>4

\* A mode 3 that counts.
Squaring(u) == u.mode = 3 /\ u.delay = 0 /\ u.enabled /\ u.loadvalue >= 2

\* TickSquare in these terms.
LEMMA SquareClock ==
  ASSUME Base \in Nat, NEW u \in Counter, Squaring(u)
  PROVE  LET c == T!Count(u)
             v == Stepped(u.value, u.out, u.loadvalue) IN
         /\ SameSetup(u, c) /\ c.high = c.out
         /\ v > 0 => c.out = u.out /\ c.value = v
         /\ v <= 0 => c.out = 1 - u.out /\ c.value = v + u.loadvalue
<1> DEFINE c == T!Count(u)
           L == u.loadvalue
           step == IF u.value = L /\ L % 2 = 1 THEN IF u.out = 0 THEN 3 ELSE 1 ELSE 2
           v == Stepped(u.value, u.out, L)
<1>1. c = T!TickSquare(u)
  <2>1. u.delay = 0 /\ ~(u.delay > 0) /\ u.enabled /\ u.mode = 3
    BY DEF Squaring
  <2> QED BY <2>1 DEF T!Count
<1>2. L \in Nat /\ L >= 2 /\ u.value \in Int /\ u.out \in 0..1 /\ u.enabled /\ v \in Int
      /\ v = u.value - step
  BY DEF Squaring, Counter, Stepped
<1>3. T!TickSquare(u) =
        [u EXCEPT !.enabled = TRUE, !.load = FALSE, !.out = IF v <= 0 THEN 1 - u.out ELSE u.out,
                  !.high = IF v <= 0 THEN 1 - u.out ELSE u.out,
                  !.value = IF v <= 0 THEN v + L ELSE v]
  <2>1. (IF u.load /\ ~u.enabled THEN u.loadvalue ELSE u.value) = u.value
    BY <1>2
  <2>2. (IF u.value = u.loadvalue /\ u.value % 2 = 1 THEN IF u.out = 0 THEN 3 ELSE 1 ELSE 2) = step
    BY <1>2
  <2>3. L # 0
    BY <1>2
  <2> QED BY <1>2, <2>1, <2>2, <2>3 DEF T!TickSquare
<1> HIDE DEF c, v
<1>4. SameSetup(u, c)
  BY <1>1, <1>2, <1>3 DEF SameSetup, Counter, Squaring
<1>5. CASE v > 0
  BY <1>1, <1>2, <1>3, <1>4, <1>5 DEF Counter, c, v
<1>6. CASE v <= 0
  BY <1>1, <1>2, <1>3, <1>4, <1>6 DEF Counter, c, v
<1> QED BY <1>2, <1>5, <1>6

\* j clocks into a half wave, and its end.
InHalf(u, m, w, j, h) ==
  /\ SameSetup(u, w) /\ w.out = u.out
  /\ Wave(w.value, m - 2 * j, u.out, u.loadvalue)
  /\ Left(m - 2 * j, u.out, u.loadvalue) = Left(m, u.out, u.loadvalue) - j
  /\ h = j * u.out

\* Until the half wave ends the level stays.
LEMMA HalfClocks ==
  ASSUME Base \in Nat, NEW u \in Counter, Squaring(u), NEW m \in Int,
         Wave(u.value, m, u.out, u.loadvalue), NEW n \in Nat, n < Left(m, u.out, u.loadvalue)
  PROVE  InHalf(u, m, After(u, n), n, Highs(u, n))
<1> DEFINE o == u.out
           L == u.loadvalue
           d == Left(m, o, L)
           S == {i \in 0..n : InHalf(u, m, After(u, i), i, Highs(u, i))}
<1>0. o \in 0..1 /\ o \in Int /\ L \in Nat /\ L >= 2 /\ u.value \in Int
  BY DEF Counter, Squaring
<1>1. d \in Nat
  BY <1>0, WaveClock
<1>2. 0 \in S
  <2>1. After(u, 0) = u /\ Highs(u, 0) = 0
    BY ClockByClock
  <2>2. SameSetup(u, u)
    BY DEF SameSetup, Squaring
  <2>3. 0 * o = 0 /\ m - 2 * 0 = m /\ d - 0 = d
    BY <1>0, <1>1
  <2>4. InHalf(u, m, u, 0, 0)
    BY <2>2, <2>3 DEF InHalf
  <2> QED BY <2>1, <2>4
<1>3. ASSUME NEW i \in Nat, i < n, i \in S PROVE i + 1 \in S
  <2> DEFINE w == After(u, i)
             c == T!Count(w)
             mi == m - 2 * i
             v == Stepped(w.value, o, L)
  <2>1. InHalf(u, m, w, i, Highs(u, i)) /\ i + 1 \in 0..n
    BY <1>3
  <2>2. w \in Counter /\ After(u, i + 1) = c /\ Highs(u, i + 1) = Highs(u, i) + c.high
    BY <1>3, ClockByClock
  <2> HIDE DEF w
  <2>3. SameSetup(u, w) /\ w.out = o /\ Wave(w.value, mi, o, L) /\ Left(mi, o, L) = d - i
        /\ Highs(u, i) = i * o
    BY <2>1 DEF InHalf
  <2>4. Squaring(w) /\ w.loadvalue = L /\ w.value \in Int
    BY <2>2, <2>3 DEF Squaring, SameSetup, Counter
  <2>5. mi \in Int /\ mi - 2 = m - 2 * (i + 1) /\ d - i > 1 /\ (d - i) - 1 = d - (i + 1)
    BY <1>1, <1>3
  <2> HIDE DEF mi, d
  <2>6. v > 0 /\ Wave(v, mi - 2, o, L) /\ Left(mi - 2, o, L) = Left(mi, o, L) - 1
    BY <1>0, <2>3, <2>4, <2>5, WaveClock
  <2>7. SameSetup(w, c) /\ c.high = c.out /\ c.out = o /\ c.value = v
    BY <2>2, <2>3, <2>4, <2>6, SquareClock
  <2> HIDE DEF c, v
  <2>8. SameSetup(u, c)
    BY <2>3, <2>7, Zenon DEF SameSetup
  <2>9. (i + 1) * o = i * o + o
    <3> HIDE DEF o
    <3> QED BY <1>0
  <2>10. Highs(u, i + 1) = (i + 1) * o
    BY <2>2, <2>3, <2>7, <2>9
  <2>11. Wave(c.value, m - 2 * (i + 1), o, L) /\ Left(m - 2 * (i + 1), o, L) = d - (i + 1)
    BY <2>3, <2>5, <2>6, <2>7
  <2>12. InHalf(u, m, c, i + 1, Highs(u, i + 1))
    <3> HIDE DEF c
    <3> QED BY <2>7, <2>8, <2>10, <2>11 DEF InHalf, d
  <2> QED BY <2>1, <2>2, <2>12
<1>4. n \in S
  <2>1. \A i \in 0..n : i \in S
    <3> HIDE DEF S
    <3> QED BY <1>2, <1>3, SetInduction
  <2> QED BY <2>1
<1> QED BY <1>4

NextHalf(u, w, d, h) ==
  /\ SameSetup(u, w) /\ w.out = 1 - u.out
  /\ Wave(w.value, T!Reload(1 - u.out, u.loadvalue), 1 - u.out, u.loadvalue)
  /\ h = d * u.out + (w.out - u.out)

\* When it ends the level changes, and the mirror knows the clock.
LEMMA HalfEnds ==
  ASSUME Base \in Nat, NEW u \in Counter, Squaring(u), NEW m \in Int,
         Wave(u.value, m, u.out, u.loadvalue)
  PROVE  LET d == Left(m, u.out, u.loadvalue) IN
         d \in Nat /\ d > 0 /\ NextHalf(u, After(u, d), d, Highs(u, d))
<1> DEFINE o == u.out
           L == u.loadvalue
           d == Left(m, o, L)
           i == d - 1
           w == After(u, i)
           c == T!Count(w)
           mi == m - 2 * i
           v == Stepped(w.value, o, L)
<1>0. o \in 0..1 /\ o \in Int /\ L \in Nat /\ L >= 2 /\ u.value \in Int
  BY DEF Counter, Squaring
<1>1. d \in Nat /\ d >= 1
  BY <1>0, WaveClock
<1>2. i \in Nat /\ i < d /\ i + 1 = d /\ d - i = 1
  BY <1>1
<1>3. InHalf(u, m, w, i, Highs(u, i))
  <2> HIDE DEF i
  <2> QED BY <1>2, HalfClocks
<1>4. w \in Counter /\ After(u, d) = c /\ Highs(u, d) = Highs(u, i) + c.high
  <2> HIDE DEF i
  <2> QED BY <1>2, ClockByClock
<1> HIDE DEF w, i
<1>5. SameSetup(u, w) /\ w.out = o /\ Wave(w.value, mi, o, L) /\ Left(mi, o, L) = 1
      /\ Highs(u, i) = i * o
  BY <1>2, <1>3 DEF InHalf
<1>6. Squaring(w) /\ w.loadvalue = L /\ w.value \in Int
  BY <1>4, <1>5 DEF Squaring, SameSetup, Counter
<1>7. mi \in Int
  BY <1>2
<1> HIDE DEF mi, d
<1>8. v <= 0 /\ v + L = L
  BY <1>0, <1>5, <1>6, <1>7, WaveClock
<1>9. SameSetup(w, c) /\ c.high = c.out /\ c.out = 1 - o /\ c.value = L
  BY <1>4, <1>5, <1>6, <1>8, SquareClock
<1> HIDE DEF c, v
<1>10. SameSetup(u, c)
  BY <1>5, <1>9, Zenon DEF SameSetup
<1>11. Wave(L, T!Reload(1 - o, L), 1 - o, L)
  BY <1>0 DEF Wave, Even, T!Reload
<1>12. Highs(u, d) = d * o + ((1 - o) - o)
  <2>1. CASE o = 0
    BY <1>1, <1>2, <1>4, <1>5, <1>9, <2>1
  <2>2. CASE o = 1
    BY <1>1, <1>2, <1>4, <1>5, <1>9, <2>2
  <2> QED BY <1>0, <2>1, <2>2
<1>13. NextHalf(u, c, d, Highs(u, d))
  BY <1>9, <1>10, <1>11, <1>12 DEF NextHalf
<1>14. d \in Nat /\ d > 0 /\ NextHalf(u, After(u, d), d, Highs(u, d))
  BY <1>1, <1>4, <1>13
<1> QED BY <1>14 DEF d

\* Half waves of the mirror, as IntegrateSquare takes them.
Part == [value : Int, out : 0..1, rem : Nat, high : Int]

\* The clocks of a half wave, and the mirror after it.
Span(s, L) == LET d == Left(s.value, s.out, L) IN IF d < 1 THEN 1 ELSE d

HalfWave(s, L) ==
  IF s.rem = 0 THEN s
  ELSE IF Span(s, L) > s.rem
       THEN [s EXCEPT !.value = @ - 2 * s.rem, !.rem = 0, !.high = @ + s.rem * s.out]
       ELSE [value |-> T!Reload(1 - s.out, L), out |-> 1 - s.out,
             rem |-> s.rem - Span(s, L), high |-> s.high + Span(s, L) * s.out]

\* A half wave of the mirror leaves it a state of the recursion.
LEMMA HalfWaveKeepsType ==
  ASSUME NEW L \in Nat, NEW s \in Part
  PROVE  HalfWave(s, L) \in Part
<1> DEFINE d == Span(s, L)
           p == s.rem * s.out
           q == d * s.out
           v == s.value - 2 * s.rem
           r == T!Reload(1 - s.out, L)
<1>1. /\ s.value \in Int /\ s.out \in 0..1 /\ s.out \in Int /\ s.rem \in Nat /\ s.high \in Int
      /\ 1 - s.out \in 0..1
  BY DEF Part
<1>2. d \in Nat /\ d > 0
  <2>1. Left(s.value, s.out, L) \in Int
    BY <1>1 DEF Left
  <2> QED BY <2>1 DEF Span
<1>3. p \in Int /\ q \in Int /\ v \in Int /\ r \in Int
  <2> HIDE DEF d
  <2>1. r \in Int
    BY <1>1 DEF T!Reload
  <2>2. p \in Int /\ q \in Int
    BY <1>1, <1>2
  <2> QED BY <1>1, <2>1, <2>2
<1>4. CASE s.rem = 0
  BY <1>4 DEF HalfWave
<1>5. CASE s.rem # 0 /\ d > s.rem
  <2> DEFINE t == s.high + p
  <2>1. HalfWave(s, L) = [s EXCEPT !.value = v, !.rem = 0, !.high = t]
    BY <1>5 DEF HalfWave
  <2>2. t \in Int
    BY <1>1, <1>3
  <2> HIDE DEF t, v, p
  <2>3. [s EXCEPT !.value = v, !.rem = 0, !.high = t] \in Part
    BY <1>3, <2>2 DEF Part
  <2> QED BY <2>1, <2>3
<1>6. CASE s.rem # 0 /\ ~(d > s.rem)
  <2> DEFINE t == s.high + q
             e == s.rem - d
             o == 1 - s.out
  <2>1. HalfWave(s, L) = [value |-> r, out |-> o, rem |-> e, high |-> t]
    BY <1>6 DEF HalfWave
  <2>2. t \in Int /\ e \in Nat /\ o \in 0..1
    <3> HIDE DEF d, q
    <3> QED BY <1>1, <1>2, <1>3, <1>6
  <2> HIDE DEF t, e, r, q, d, o
  <2>3. [value |-> r, out |-> o, rem |-> e, high |-> t] \in Part
    BY <1>1, <1>3, <2>2 DEF Part
  <2> QED BY <2>1, <2>3
<1> QED BY <1>4, <1>5, <1>6

\* What the mirror starts from: a count that waits is loaded.
Loaded(m) == IF ~m.enabled /\ m.load
             THEN [m EXCEPT !.value = m.loadvalue, !.enabled = TRUE, !.load = FALSE]
             ELSE m

\* IntegrateSquare is what its recursion says.
LEMMA SquareRecursion ==
  ASSUME NEW m \in Channel, m.loadvalue >= 2, Loaded(m) \in Channel, NEW n \in Nat
  PROVE  \E f \in [0..n -> Part] :
           /\ f[0] = [value |-> Loaded(m).value, out |-> Loaded(m).out, rem |-> n, high |-> 0]
           /\ \A i \in 1..n : f[i] = HalfWave(f[i - 1], m.loadvalue)
           /\ T!IntegrateSquare(m, n).high = f[n].high
           /\ T!IntegrateSquare(m, n).ch =
                [Loaded(m) EXCEPT !.value = f[n].value, !.out = f[n].out]
<1> DEFINE c == Loaded(m)
           L == m.loadvalue
           load == IF c.loadvalue = 0 THEN T!Wide ELSE c.loadvalue
           Dur(s) == LET d == IF s.out = 1 /\ s.value = load /\ load % 2 = 1
                              THEN (load + 1) \div 2 ELSE (s.value + 1) \div 2 IN
                     IF d < 1 THEN 1 ELSE d
           z == [value |-> c.value, out |-> c.out, rem |-> n, high |-> 0]
           Step(s) == IF s.rem = 0 THEN s
                      ELSE IF Dur(s) > s.rem
                      THEN [s EXCEPT !.value = @ - 2 * s.rem, !.rem = 0,
                                     !.high = @ + s.rem * s.out]
                      ELSE [value |-> T!Reload(1 - s.out, load), out |-> 1 - s.out,
                            rem |-> s.rem - Dur(s), high |-> s.high + Dur(s) * s.out]
           Rule(f) == [k \in 0..n |-> IF k = 0 THEN z ELSE Step(f[k - 1])]
           run == CHOOSE g : g = Rule(g)
           D == [p \in Part \X (1..n) |-> HalfWave(p[1], L)]
<1>1. c.loadvalue = L /\ L \in Nat /\ L # 0
  BY DEF Channel, Loaded
<1>2. load = L
  BY <1>1
<1>3. T!IntegrateSquare(m, n) =
        [ch |-> [c EXCEPT !.value = run[n].value, !.out = run[n].out], high |-> run[n].high]
  BY Zenon DEF T!IntegrateSquare, Loaded
<1> HIDE DEF load
<1>4. ASSUME NEW s PROVE Step(s) = HalfWave(s, L)
  BY <1>2, Zenon DEF HalfWave, Span, Left
<1> HIDE DEF Step, c
<1>5. z \in Part
  BY DEF Part, Channel, c
<1>6. D \in [Part \X (1..n) -> Part] /\ \A s \in Part, i \in 1..n : D[<<s, i>>] = HalfWave(s, L)
  <2>1. \A s \in Part : HalfWave(s, L) \in Part
    BY <1>1, HalfWaveKeepsType
  <2> QED BY <2>1
<1> HIDE DEF D, z
<1>7. PICK f \in [0..n -> Part] : Follows(f, n, z, D)
  BY <1>5, <1>6, RecursionHasFunction
<1>8. f = Rule(f)
  <2>1. ASSUME NEW i \in 0..n PROVE f[i] = IF i = 0 THEN z ELSE Step(f[i - 1])
    <3>1. CASE i = 0
      BY <1>7, <3>1 DEF Follows
    <3>2. CASE i # 0
      <4>1. i \in 1..n /\ i - 1 \in 0..n
        BY <3>2
      <4>2. f[i - 1] \in Part /\ f[i] = D[<<f[i - 1], i>>]
        BY <1>7, <4>1 DEF Follows
      <4> QED BY <1>4, <1>6, <3>2, <4>1, <4>2
    <3> QED BY <3>1, <3>2
  <2> QED BY <2>1
<1>9. run = Rule(run)
  BY <1>8, Zenon
<1> HIDE DEF run
<1>10. run[0] = z /\ \A i \in 1..n : run[i] = Step(run[i - 1])
  BY <1>9
<1>11. \A i \in 1..n : run[i] = HalfWave(run[i - 1], L)
  BY <1>4, <1>10, Zenon
<1> DEFINE S == {i \in 0..n : run[i] \in Part}
<1>12. 0 \in S
  BY <1>5, <1>10
<1>13. ASSUME NEW i \in Nat, i < n, i \in S PROVE i + 1 \in S
  <2>1. i + 1 \in 1..n /\ i + 1 \in 0..n /\ (i + 1) - 1 = i
    BY <1>13
  <2>2. run[i + 1] = HalfWave(run[i], L) /\ run[i] \in Part
    BY <1>11, <1>13, <2>1
  <2> QED BY <1>1, <2>1, <2>2, HalfWaveKeepsType
<1>14. run \in [0..n -> Part]
  <2>1. \A i \in 0..n : i \in S
    <3> HIDE DEF S
    <3> QED BY <1>12, <1>13, SetInduction
  <2> QED BY <1>9, <2>1
<1>15. T!IntegrateSquare(m, n).high = run[n].high
       /\ T!IntegrateSquare(m, n).ch = [c EXCEPT !.value = run[n].value, !.out = run[n].out]
  BY <1>3
<1> QED BY <1>10, <1>11, <1>14, <1>15, Zenon DEF z, c

\* The counter w, a clocks on, and the mirror with n - a clocks of the sample left.
Abreast(w, s, n, a) ==
  /\ s.rem = n - a /\ SameSetup(w, After(w, a)) /\ After(w, a).out = s.out
  /\ Wave(After(w, a).value, s.value, s.out, w.loadvalue)
  /\ Highs(w, a) = s.high + (s.out - w.out)

\* A half wave takes the mirror to where the counter is, some clocks on.
LEMMA HalfWaveStaysAbreast ==
  ASSUME Base \in Nat, NEW w \in Counter, Squaring(w), NEW s \in Part, NEW n \in Nat,
         NEW a \in 0..n, Abreast(w, s, n, a), a < n
  PROVE  \E b \in (a + 1)..n : Abreast(w, HalfWave(s, w.loadvalue), n, b)
<1> DEFINE L == w.loadvalue
           x == After(w, a)
           o == s.out
           r == n - a
           d == Left(s.value, o, L)
<1>0. /\ s.value \in Int /\ o \in 0..1 /\ o \in Int /\ s.high \in Int /\ s.rem = r
      /\ r \in Nat /\ r > 0 /\ a \in Nat /\ a + r = n /\ L \in Nat /\ w.out \in Int
  BY DEF Part, Abreast, Counter
<1>1. /\ x \in Counter /\ SameSetup(w, x) /\ x.out = o /\ Wave(x.value, s.value, o, L)
      /\ Highs(w, a) = s.high + (o - w.out) /\ Highs(w, a) \in Int
  BY <1>0, ClockByClock DEF Abreast
<1> HIDE DEF x
<1>2. Squaring(x) /\ x.loadvalue = L
  BY <1>1 DEF SameSetup, Squaring
<1>3. d \in Nat /\ d > 0 /\ NextHalf(x, After(x, d), d, Highs(x, d))
  BY <1>0, <1>1, <1>2, HalfEnds
<1>4. Span(s, L) = d
  <2>1. ~(d < 1)
    BY <1>3
  <2> QED BY <2>1 DEF Span
<1>5. CASE d > r
  <2> DEFINE y == After(x, r)
             t == [s EXCEPT !.value = @ - 2 * s.rem, !.rem = 0, !.high = @ + s.rem * s.out]
             ro == r * o
  <2>1. HalfWave(s, L) = t
    BY <1>0, <1>4, <1>5 DEF HalfWave
  <2>2. InHalf(x, s.value, y, r, Highs(x, r))
    BY <1>0, <1>1, <1>2, <1>5, HalfClocks
  <2>3. After(w, n) = y /\ Highs(w, n) = Highs(w, a) + Highs(x, r)
    BY <1>0, ClocksAdd DEF x
  <2> HIDE DEF y, d
  <2>4. SameSetup(x, y) /\ y.out = o /\ Wave(y.value, s.value - 2 * r, o, L) /\ Highs(x, r) = ro
    BY <1>1, <1>2, <2>2 DEF InHalf
  <2>5. SameSetup(w, y)
    BY <1>1, <2>4, Zenon DEF SameSetup
  <2>6. ro \in Int
    BY <1>0
  <2>7. t.value = s.value - 2 * r /\ t.rem = 0 /\ t.high = s.high + ro /\ t.out = o
    <3> HIDE DEF r, o
    <3> QED BY <1>0 DEF Part, o
  <2> HIDE DEF t, r, ro
  <2>8. Abreast(w, t, n, n)
    BY <1>0, <1>1, <2>3, <2>4, <2>5, <2>6, <2>7 DEF Abreast
  <2>9. n \in (a + 1)..n
    BY <1>0
  <2> QED BY <2>1, <2>8, <2>9
<1>6. CASE ~(d > r)
  <2> DEFINE y == After(x, d)
             p == 1 - o
             do == d * o
             t == [value |-> T!Reload(1 - s.out, L), out |-> 1 - s.out,
                   rem |-> s.rem - d, high |-> s.high + d * s.out]
  <2>1. HalfWave(s, L) = t
    <3> HIDE DEF d
    <3> QED BY <1>0, <1>4, <1>6 DEF HalfWave
  <2> HIDE DEF d
  <2>2. After(w, a + d) = y /\ Highs(w, a + d) = Highs(w, a) + Highs(x, d)
    BY <1>0, <1>3, ClocksAdd DEF x
  <2> HIDE DEF y
  <2>3. SameSetup(x, y) /\ y.out = p /\ Wave(y.value, T!Reload(p, L), p, L)
        /\ Highs(x, d) = do + (p - o)
    BY <1>1, <1>2, <1>3 DEF NextHalf, y
  <2>4. SameSetup(w, y)
    BY <1>1, <2>3, Zenon DEF SameSetup
  <2>5. do \in Int /\ p \in Int
    BY <1>0, <1>3
  <2>6. t.value = T!Reload(p, L) /\ t.rem = r - d /\ t.high = s.high + do /\ t.out = p
    BY <1>0
  <2> HIDE DEF t, do, p, o
  <2>7. r - d = n - (a + d) /\ a + d \in (a + 1)..n
    BY <1>0, <1>3, <1>6
  <2>8. Highs(w, a + d) = t.high + (t.out - w.out)
    BY <1>0, <1>1, <2>2, <2>3, <2>5, <2>6
  <2>9. Abreast(w, t, n, a + d)
    BY <2>2, <2>3, <2>4, <2>6, <2>7, <2>8 DEF Abreast
  <2> QED BY <2>1, <2>7, <2>9
<1> QED BY <1>5, <1>6

\* The counter w, now at x, and the mirror m, now at h, after the same clocks.
WaveFollowed(w, m, h, x, high) ==
  /\ SameSetup(w, x) /\ x.out = h.ch.out
  /\ Wave(x.value, h.ch.value, h.ch.out, w.loadvalue)
  /\ h.high \in Int /\ high = h.high + (h.ch.out - w.out)
  /\ \E v \in Int, o \in 0..1 : h.ch = [Loaded(m) EXCEPT !.value = v, !.out = o]

\* After a sample the mirror is where the counter is, an edge a clock late.
LEMMA SquareInStep ==
  ASSUME Base \in Nat, NEW w \in Counter, Squaring(w), NEW m \in Channel, Loaded(m) \in Channel,
         m.loadvalue = w.loadvalue, Loaded(m).out = w.out,
         Wave(w.value, Loaded(m).value, w.out, w.loadvalue), NEW n \in Nat
  PROVE  WaveFollowed(w, m, T!IntegrateSquare(m, n), After(w, n), Highs(w, n))
<1> DEFINE L == w.loadvalue
<1>0. m.loadvalue >= 2 /\ w.out \in 0..1
  BY DEF Squaring, Counter
<1>1. PICK f \in [0..n -> Part] :
           /\ f[0] = [value |-> Loaded(m).value, out |-> Loaded(m).out, rem |-> n, high |-> 0]
           /\ \A i \in 1..n : f[i] = HalfWave(f[i - 1], m.loadvalue)
           /\ T!IntegrateSquare(m, n).high = f[n].high
           /\ T!IntegrateSquare(m, n).ch =
                [Loaded(m) EXCEPT !.value = f[n].value, !.out = f[n].out]
  BY <1>0, SquareRecursion
<1> DEFINE S == {i \in 0..n : \E a \in i..n : Abreast(w, f[i], n, a)}
<1>2. 0 \in S
  <2>1. After(w, 0) = w /\ Highs(w, 0) = 0
    BY ClockByClock
  <2>2. SameSetup(w, w)
    BY DEF SameSetup, Squaring
  <2>3. f[0].rem = n - 0 /\ f[0].out = w.out /\ f[0].value = Loaded(m).value
        /\ 0 = f[0].high + (f[0].out - w.out)
    BY <1>0, <1>1
  <2>4. Abreast(w, f[0], n, 0)
    BY <2>1, <2>2, <2>3 DEF Abreast
  <2> QED BY <2>4
<1>3. ASSUME NEW i \in Nat, i < n, i \in S PROVE i + 1 \in S
  <2>1. PICK a \in i..n : Abreast(w, f[i], n, a)
    BY <1>3
  <2>2. i + 1 \in 1..n /\ i + 1 \in 0..n /\ (i + 1) - 1 = i /\ a \in 0..n /\ f[i] \in Part
    BY <1>3
  <2>3. f[i + 1] = HalfWave(f[i], L)
    BY <1>1, <2>2
  <2>4. CASE a = n
    <3>1. f[i].rem = 0
      BY <2>1, <2>4 DEF Abreast
    <3>2. f[i + 1] = f[i]
      BY <2>3, <3>1 DEF HalfWave
    <3>3. n \in (i + 1)..n
      BY <1>3
    <3> QED BY <2>1, <2>2, <2>4, <3>2, <3>3
  <2>5. CASE a # n
    <3>1. PICK b \in (a + 1)..n : Abreast(w, HalfWave(f[i], L), n, b)
      BY <2>1, <2>2, <2>5, HalfWaveStaysAbreast
    <3>2. b \in (i + 1)..n
      BY <1>3
    <3> QED BY <2>2, <2>3, <3>1, <3>2
  <2> QED BY <2>4, <2>5
<1>4. Abreast(w, f[n], n, n)
  <2>1. \A i \in 0..n : i \in S
    <3> HIDE DEF S
    <3> QED BY <1>2, <1>3, SetInduction
  <2>2. PICK a \in n..n : Abreast(w, f[n], n, a)
    BY <2>1
  <2> QED BY <2>2
<1> DEFINE h == T!IntegrateSquare(m, n)
           v == f[n].value
           o == f[n].out
<1>5. v \in Int /\ o \in 0..1 /\ h.high = f[n].high /\ h.high \in Int
      /\ h.ch = [Loaded(m) EXCEPT !.value = v, !.out = o]
  BY <1>1 DEF Part
<1> HIDE DEF v, o, h
<1>6. h.ch.value = v /\ h.ch.out = o
  BY <1>5 DEF Channel
<1>7. /\ SameSetup(w, After(w, n)) /\ After(w, n).out = h.ch.out
      /\ Wave(After(w, n).value, h.ch.value, h.ch.out, w.loadvalue)
      /\ Highs(w, n) = h.high + (h.ch.out - w.out)
  BY <1>4, <1>5, <1>6 DEF Abreast, v, o
<1> QED BY <1>5, <1>7 DEF h, WaveFollowed

(* The counter u and the mirror m agree.  Modes 1 and 2 keep their level and   *)
(* say no more.  A mode 0 that counts has the same value to go, and one that   *)
(* has ended stays high; a mode 3 is at the same place of the same wave.       *)
Agreed(u, m) ==
  /\ u.mode = m.mode /\ u.latch_mode = m.latch_mode /\ u.out = m.out /\ m.latch_mode # 0
  /\ m.write_state = 1 => u.lsb = m.write_lsb
  /\ u.mode \in {1, 2} => u.out = 1
  /\ u.mode \in {0, 3} =>
       /\ u.enabled = m.enabled
       /\ Active(u) => u.delay = m.delay /\ u.loadvalue = m.loadvalue
  /\ u.mode = 0 =>
       /\ u.load = m.load
       /\ u.load => u.loadvalue > 0
       /\ u.enabled /\ ~u.load => IF u.out = 1 THEN ~u.armed
                                  ELSE u.armed /\ m.armed /\ u.value = m.value /\ u.value > 0
  /\ u.mode = 3 =>
       /\ ~u.enabled => u.out = 1 /\ u.load = m.load /\ (u.load => u.loadvalue > 1)
       /\ u.enabled => Wave(u.value, m.value, u.out, u.loadvalue)

\* What a sample of dt clocks makes of a counter and a mirror that agree.
Slack(m, dt, out) == (IF m.delay < dt THEN m.delay * m.out ELSE 0)
                     + (IF m.mode = 3 THEN out - m.out ELSE 0)

InStep(u, m, dt) ==
  LET h == T!Integrate(m, dt) IN
  /\ h.ch \in Channel /\ h.ch.mode = m.mode /\ h.high \in Int
  /\ Agreed(After(u, dt), h.ch)
  /\ Highs(u, dt) = h.high + Slack(m, dt, h.ch.out)

\* The same but for the delay.
Rested(m, d) == [m EXCEPT !.delay = d]

\* Only the delay changes.
LEMMA RestedFacts ==
  ASSUME NEW m \in Channel, NEW d \in Nat
  PROVE  /\ Rested(m, d) \in Channel /\ Rested(m, d).delay = d
         /\ Rested(m, d).mode = m.mode /\ Rested(m, d).latch_mode = m.latch_mode
         /\ Rested(m, d).write_state = m.write_state /\ Rested(m, d).write_lsb = m.write_lsb
         /\ Rested(m, d).loadvalue = m.loadvalue /\ Rested(m, d).enabled = m.enabled
         /\ Rested(m, d).out = m.out /\ Rested(m, d).value = m.value
         /\ Rested(m, d).armed = m.armed /\ Rested(m, d).load = m.load
BY DEF Channel, Rested

\* What follows the delay.
Ended(c, n) == IF ~c.enabled /\ ~c.load THEN [ch |-> c, high |-> n * c.out]
               ELSE CASE c.mode = 0 -> T!IntegrateOnce(c, n)
                      [] c.mode = 1 -> [ch |-> c, high |-> n * c.out]
                      [] c.mode = 2 -> [ch |-> c, high |-> n]
                      [] c.mode = 3 -> T!IntegrateSquare(c, n)

\* A delay shorter than the sample is followed by the rest of it.
LEMMA IntegrateEnded ==
  ASSUME NEW m, NEW dt, ~(m.delay >= dt)
  PROVE  T!Integrate(m, dt) = Ended(Rested(m, 0), dt - m.delay)
BY Zenon DEF T!Integrate, Rested, Ended

\* A sample of a level that does not change.
LEMMA FlatInStep ==
  ASSUME Base \in Nat, NEW u \in Counter, NEW m \in Channel, Agreed(u, m),
         ~Active(u) \/ u.mode \in {1, 2}, NEW dt \in Nat
  PROVE  InStep(u, m, dt)
<1> DEFINE w == After(u, dt)
           h == T!Integrate(m, dt)
           o == m.out
           d == m.delay
           n == dt - d
<1>0. o \in 0..1 /\ o \in Int /\ d \in Nat /\ u.out = o /\ m.mode \in 0..3 /\ u.mode = m.mode
  BY DEF Channel, Agreed
<1>1. SameLevel(u, w) /\ Highs(u, dt) = dt * o
  <2>1. Flat(u)
    BY DEF Flat
  <2> QED BY <1>0, <2>1, FlatClocks
<1> HIDE DEF w
<1>2. ASSUME NEW e \in Nat, h.ch = Rested(m, e)
      PROVE  h.ch \in Channel /\ h.ch.mode = m.mode /\ h.ch.out = o /\ Agreed(w, h.ch)
  <2> DEFINE r == Rested(m, e)
  <2>1. /\ r \in Channel /\ r.mode = m.mode /\ r.latch_mode = m.latch_mode /\ r.out = o
        /\ r.write_state = m.write_state /\ r.write_lsb = m.write_lsb
        /\ r.enabled = m.enabled /\ r.load = m.load
    BY RestedFacts
  <2> HIDE DEF r, h
  <2>2. CASE u.mode \in {1, 2}
    <3>1. w.mode = u.mode /\ w.latch_mode = u.latch_mode /\ w.lsb = u.lsb /\ w.out = u.out
      BY <1>1 DEF SameLevel
    <3>2. ~(w.mode \in {0, 3}) /\ w.mode # 0 /\ w.mode # 3
      BY <2>2, <3>1
    <3>3. Agreed(w, r)
      BY <1>0, <2>1, <2>2, <3>1, <3>2 DEF Agreed
    <3> QED BY <1>2, <2>1, <3>3 DEF r
  <2>3. CASE ~(u.mode \in {1, 2})
    <3>1. ~u.enabled /\ ~u.load
      BY <2>3 DEF Active
    <3>2. /\ w.mode = u.mode /\ w.latch_mode = u.latch_mode /\ w.lsb = u.lsb /\ w.out = u.out
          /\ w.enabled = u.enabled /\ w.load = u.load
      BY <1>1, <2>3, Zenon DEF SameLevel
    <3>3. Agreed(w, r)
      BY <2>1, <2>3, <3>1, <3>2 DEF Agreed, Active
    <3> QED BY <1>2, <2>1, <3>3 DEF r
  <2> QED BY <2>2, <2>3
<1>3. CASE d >= dt
  <2>1. h = [ch |-> Rested(m, d - dt), high |-> dt * o]
    BY <1>3, Zenon DEF T!Integrate, Rested
  <2>2. d - dt \in Nat /\ ~(d < dt) /\ dt * o \in Int
    BY <1>0, <1>3
  <2>3. h.ch = Rested(m, d - dt) /\ h.high = dt * o
    <3> HIDE DEF h
    <3> QED BY <2>1
  <2> HIDE DEF h
  <2>4. h.ch \in Channel /\ h.ch.mode = m.mode /\ h.ch.out = o /\ Agreed(w, h.ch)
    BY <1>2, <2>2, <2>3
  <2>5. Slack(m, dt, h.ch.out) = 0
    BY <1>0, <2>2, <2>4 DEF Slack
  <2>6. Highs(u, dt) = h.high + 0
    BY <1>1, <2>2, <2>3
  <2> QED BY <2>2, <2>3, <2>4, <2>5, <2>6 DEF InStep, h, w
<1>4. CASE ~(d >= dt)
  <2> DEFINE c == Rested(m, 0)
  <2>0. n \in Nat /\ d < dt /\ dt = n + d /\ n * o \in Int /\ d * o \in Int
    BY <1>0, <1>4
  <2>1. /\ c.mode = m.mode /\ c.enabled = m.enabled /\ c.out = o /\ c.load = m.load
    BY RestedFacts
  <2>2. h = [ch |-> c, high |-> n * o]
    <3>1. h = Ended(c, n)
      BY <1>4, IntegrateEnded
    <3>2. CASE ~m.enabled /\ ~m.load
      BY <2>1, <3>1, <3>2 DEF Ended
    <3>3. CASE ~(~m.enabled /\ ~m.load)
      <4>1. m.mode \in {1, 2}
        BY <1>0, <3>3 DEF Agreed, Active
      <4>2. o = 1 /\ n * o = n
        BY <1>0, <2>0, <4>1 DEF Agreed
      <4>3. CASE m.mode = 1
        BY <2>1, <3>1, <3>3, <4>3 DEF Ended
      <4>4. CASE m.mode = 2
        BY <2>1, <3>1, <3>3, <4>2, <4>4 DEF Ended
      <4> QED BY <4>1, <4>3, <4>4
    <3> QED BY <3>2, <3>3
  <2>3. h.ch = c /\ h.high = n * o
    <3> HIDE DEF h
    <3> QED BY <2>2
  <2> HIDE DEF h
  <2>4. h.ch \in Channel /\ h.ch.mode = m.mode /\ h.ch.out = o /\ Agreed(w, h.ch)
    BY <1>2, <2>3
  <2>5. Slack(m, dt, h.ch.out) = d * o
    <3> DEFINE p == d * o
    <3>1. Slack(m, dt, h.ch.out) = (IF d < dt THEN p ELSE 0)
                                   + (IF m.mode = 3 THEN h.ch.out - o ELSE 0)
      BY Zenon DEF Slack
    <3>2. p \in Int
      BY <2>0
    <3> HIDE DEF p, d, o
    <3>3. Slack(m, dt, h.ch.out) = p
      BY <1>0, <2>0, <2>4, <3>1, <3>2
    <3> QED BY <3>3 DEF p
  <2>6. dt * o = n * o + d * o
    <3> HIDE DEF o, n, d
    <3> QED BY <1>0, <2>0
  <2>7. Highs(u, dt) = h.high + d * o
    BY <1>1, <2>3, <2>6
  <2> QED BY <2>0, <2>3, <2>4, <2>5, <2>7 DEF InStep, h, w
<1> QED BY <1>3, <1>4

\* A sample that no delay holds up.
LEMMA IntegrateNow ==
  ASSUME NEW m \in Channel, m.delay = 0, m.enabled \/ m.load, NEW n \in Nat, n > 0
  PROVE  /\ m.mode = 0 => T!Integrate(m, n) = T!IntegrateOnce(m, n)
         /\ m.mode = 3 => T!Integrate(m, n) = T!IntegrateSquare(m, n)
<1>1. Rested(m, 0) = m
  BY DEF Channel, Rested
<1>2. ~(m.delay >= n) /\ n - m.delay = n
  OBVIOUS
<1>3. T!Integrate(m, n) = Ended(m, n)
  BY <1>1, <1>2, IntegrateEnded
<1>4. CASE m.mode = 0
  BY <1>3, <1>4 DEF Ended
<1>5. CASE m.mode = 3
  BY <1>3, <1>5 DEF Ended
<1> QED BY <1>4, <1>5

\* A mode 0 that begins has loaded its count.
Started(r) == IF r.load THEN [r EXCEPT !.value = r.loadvalue, !.enabled = TRUE,
                                     !.armed = TRUE, !.out = 0, !.load = FALSE]
            ELSE r

\* Whether a mode 0 has loaded its count before a clock or does it in it.
LEMMA StartedCounter ==
  ASSUME Base \in Nat, NEW u \in Counter, u.mode = 0, u.delay = 0, Active(u)
  PROVE  Started(u) \in Counter /\ T!Count(Started(u)) = T!Count(u)
<1> DEFINE w == Started(u)
<1>1. CASE ~u.load
  BY <1>1 DEF Started
<1>2. CASE u.load
  <2> DEFINE L == u.loadvalue
             e == u.load
             o == 0
             w1 == [u EXCEPT !.value = L, !.out = o]
  <2>0. L \in Int /\ o \in 0..1 /\ e \in BOOLEAN /\ e = TRUE
    BY <1>2 DEF Counter
  <2>1. w = [w1 EXCEPT !.enabled = e, !.armed = e, !.load = FALSE]
    <3>1. w = [u EXCEPT !.value = L, !.enabled = e, !.armed = e, !.out = o, !.load = FALSE]
      BY <1>2, <2>0, Zenon DEF Started
    <3> HIDE DEF e, o, L, w
    <3> QED BY <3>1 DEF Counter
  <2> HIDE DEF e, o, L
  <2>2. w1 \in Counter
    BY <2>0 DEF Counter
  <2> HIDE DEF w, w1
  <2>3. w \in Counter
    BY <2>0, <2>1, <2>2 DEF Counter
  <2>4. /\ w.mode = 0 /\ w.delay = 0 /\ w.enabled /\ ~w.load /\ w.armed /\ w.out = 0
        /\ w.value = L /\ w.loadvalue = L
    BY <2>0, <2>1, <2>2 DEF Counter, w1, o, L
  <2>5. T!Count(u) = T!TickOnce(u) /\ T!Count(w) = T!TickOnce(w)
    BY <1>2, <2>4 DEF T!Count
  <2> DEFINE over == L - 1 <= 0
             a == ~over
             v == IF over THEN L - 1 + T!Wide ELSE L - 1
             q == IF over /\ L # 0 THEN 1 ELSE 0
             h == IF over THEN 2 - L ELSE 0
             Ticked(r) == [r EXCEPT !.enabled = TRUE, !.load = FALSE, !.armed = a,
                                    !.value = v, !.out = q, !.high = h]
  <2>6. T!TickOnce(u) = Ticked(u)
    BY <1>2 DEF T!TickOnce, L
  <2>7. T!TickOnce(w) = Ticked(w)
    BY <2>4 DEF T!TickOnce
  <2> HIDE DEF a, v, q, h
  <2>8. Ticked(w) = Ticked(u)
    BY <2>1, <2>2 DEF Counter, w1
  <2> QED BY <2>3, <2>5, <2>6, <2>7, <2>8 DEF w
<1> QED BY <1>1, <1>2

\* A sample of mode 0: the closed form against the clocks.
LEMMA OnceInStep ==
  ASSUME Base \in Nat, NEW u \in Counter, NEW m \in Channel, Agreed(u, m),
         u.mode = 0, u.delay = 0, Active(u), NEW n \in Nat, n > 0
  PROVE  InStep(u, m, n)
<1> DEFINE h == T!Integrate(m, n)
           x == After(u, n)
<1>1. /\ m.mode = 0 /\ m.delay = 0 /\ m.enabled = u.enabled /\ m.load = u.load /\ m.out = u.out
      /\ m.loadvalue = u.loadvalue /\ (m.enabled \/ m.load)
      /\ u.mode = m.mode /\ u.latch_mode = m.latch_mode /\ m.latch_mode # 0
      /\ m.write_state = 1 => u.lsb = m.write_lsb
      /\ u.out \in 0..1 /\ m.out \in Int
  BY DEF Agreed, Active, Counter
<1>6. x \in Counter /\ x.enabled \in BOOLEAN /\ x.load \in BOOLEAN
      /\ m.enabled \in BOOLEAN /\ m.load \in BOOLEAN
  <2>1. x \in Counter
    BY ClockByClock
  <2> QED BY <2>1 DEF Counter, Channel
<1>2. h = T!IntegrateOnce(m, n)
  BY <1>1, IntegrateNow
<1> HIDE DEF h
<1>3. ASSUME NEW o PROVE Slack(m, n, o) = 0
  <2>1. 0 < n /\ 0 * m.out = 0 /\ m.mode # 3
    BY <1>1
  <2> QED BY <1>1, <2>1 DEF Slack
<1>4. CASE ~u.load /\ u.out = 1
  <2>1. Flat(u) /\ u.enabled /\ ~u.armed
    BY <1>4 DEF Agreed, Flat, Active
  <2>2. SameLevel(u, x) /\ Highs(u, n) = n * u.out
    BY <2>1, FlatClocks
  <2>3. h = [ch |-> m, high |-> n]
    BY <1>1, <1>2, <1>4 DEF T!IntegrateOnce
  <2> HIDE DEF x
  <2>4. /\ x.mode = u.mode /\ x.latch_mode = u.latch_mode /\ x.lsb = u.lsb /\ x.out = u.out
        /\ ~x.armed /\ x.loadvalue = u.loadvalue /\ x.delay = 0 /\ x.enabled /\ ~x.load
    <3>1. ~(u.mode \in {1, 2})
      OBVIOUS
    <3> QED BY <1>4, <2>1, <2>2, <3>1, Zenon DEF SameLevel
  <2>5. Agreed(x, m)
    BY <1>1, <1>4, <1>6, <2>1, <2>4 DEF Agreed, Active
  <2>6. Highs(u, n) = n + 0
    BY <1>4, <2>2
  <2> QED BY <1>3, <2>3, <2>5, <2>6 DEF InStep, h, x
<1>5. CASE u.load \/ u.out = 0
  <2> DEFINE w == Started(u)
             c == Started(m)
             v == w.value
             ends == c.value - n <= 0 /\ c.armed /\ c.value > 0
  <2>1. w \in Counter /\ T!Count(w) = T!Count(u)
    BY StartedCounter
  <2>2. /\ w.mode = 0 /\ w.latch_mode = u.latch_mode /\ w.lsb = u.lsb /\ w.out = 0
        /\ w.loadvalue = u.loadvalue /\ w.delay = 0 /\ w.enabled /\ ~w.load /\ w.armed
        /\ w.value > 0 /\ w.value = IF u.load THEN u.loadvalue ELSE u.value
    <3>1. CASE u.load
      <4>1. u.loadvalue > 0
        BY <3>1 DEF Agreed
      <4> QED BY <3>1, <4>1 DEF Started, Counter
    <3>2. CASE ~u.load
      <4>1. w = u
        BY <3>2 DEF Started
      <4> HIDE DEF w
      <4> QED BY <1>5, <3>2, <4>1 DEF Agreed, Active
    <3> QED BY <3>1, <3>2
  <2>3. c \in Channel
    <3>1. CASE ~m.load
      BY <3>1 DEF Started
    <3>2. CASE m.load
      <4> DEFINE L == m.loadvalue
                 e == m.load
                 o == 0
                 c1 == [m EXCEPT !.value = L, !.out = o]
      <4>0. L \in Int /\ o \in 0..1 /\ e \in BOOLEAN /\ e = TRUE
        BY <3>2 DEF Channel
      <4>1. c = [c1 EXCEPT !.enabled = e, !.armed = e, !.load = FALSE]
        <5>1. c = [m EXCEPT !.value = L, !.enabled = e, !.armed = e, !.out = o, !.load = FALSE]
          BY <3>2, <4>0, Zenon DEF Started
        <5> HIDE DEF e, o, L, c
        <5> QED BY <5>1 DEF Channel
      <4> HIDE DEF e, o, L, c
      <4>2. c1 \in Channel
        BY <4>0 DEF Channel
      <4> HIDE DEF c1
      <4>3. c \in Channel
        BY <4>0, <4>1, <4>2 DEF Channel
      <4> QED BY <4>3
    <3> QED BY <3>1, <3>2
  <2>4. /\ c.mode = 0 /\ c.latch_mode = m.latch_mode /\ c.write_state = m.write_state
        /\ c.write_lsb = m.write_lsb /\ c.loadvalue = m.loadvalue /\ c.delay = 0
        /\ c.enabled /\ ~c.load /\ c.out = 0 /\ c.armed /\ c.value = v
    <3>1. CASE m.load
      <4>1. u.load
        BY <1>1, <3>1
      <4>2. c = [m EXCEPT !.value = m.loadvalue, !.enabled = TRUE, !.armed = TRUE, !.out = 0,
                          !.load = FALSE]
        BY <3>1 DEF Started
      <4> HIDE DEF w, c
      <4>3. v = m.loadvalue
        BY <1>1, <2>2, <4>1
      <4> HIDE DEF v
      <4>4. /\ c.mode = m.mode /\ c.latch_mode = m.latch_mode /\ c.write_state = m.write_state
            /\ c.write_lsb = m.write_lsb /\ c.loadvalue = m.loadvalue /\ c.delay = m.delay
            /\ c.enabled /\ ~c.load /\ c.out = 0 /\ c.armed /\ c.value = m.loadvalue
        BY <4>2 DEF Channel
      <4> QED BY <1>1, <4>3, <4>4
    <3>2. CASE ~m.load
      <4>1. c = m /\ ~u.load
        BY <1>1, <3>2 DEF Started
      <4> HIDE DEF c, w
      <4> QED BY <1>1, <1>5, <2>2, <3>2, <4>1 DEF Agreed, Active
    <3> QED BY <3>1, <3>2
  <2>5. h = IF c.out = 1 THEN [ch |-> c, high |-> n]
            ELSE [ch |-> [c EXCEPT !.armed = @ /\ ~ends, !.out = IF ends THEN 1 ELSE 0,
                                   !.value = @ - n + IF ends THEN T!Wide ELSE 0],
                  high |-> IF ends THEN n - c.value + 1 ELSE 0]
    BY <1>2, Zenon DEF T!IntegrateOnce, Started
  <2> HIDE DEF w, c, v
  <2>6. v \in Int /\ v > 0
    BY <2>1, <2>2 DEF Counter, v
  <2>7. CountedDown(w, x, n) /\ Highs(u, n) = IF n < v THEN 0 ELSE n - v + 1
    <3>1. Counting(w)
      BY <2>2 DEF Counting
    <3>2. CountedDown(w, After(w, n), n) /\ Highs(w, n) = IF n < v THEN 0 ELSE n - v + 1
      BY <2>1, <3>1, OnceClocks DEF v
    <3>3. After(u, n) = After(w, n) /\ Highs(u, n) = Highs(w, n)
      BY <2>1, SameFromTheFirstClock
    <3> QED BY <3>2, <3>3
  <2> HIDE DEF x
  <2>8. /\ x.mode = 0 /\ x.latch_mode = m.latch_mode /\ x.lsb = u.lsb /\ x.enabled /\ ~x.load
        /\ x.loadvalue = m.loadvalue /\ x.delay = 0
        /\ IF n < v THEN x.out = 0 /\ x.armed /\ x.value = v - n ELSE x.out = 1 /\ ~x.armed
    <3>1. SameSetup(w, x) /\ ~x.load
          /\ IF n < v THEN x.out = 0 /\ x.armed /\ x.value = v - n ELSE x.out = 1 /\ ~x.armed
      BY <2>7, Zenon DEF CountedDown, v
    <3>2. /\ x.mode = 0 /\ x.latch_mode = m.latch_mode /\ x.lsb = u.lsb /\ x.enabled
          /\ x.loadvalue = m.loadvalue /\ x.delay = 0
      <4>1. /\ x.mode = w.mode /\ x.latch_mode = w.latch_mode /\ x.lsb = w.lsb
            /\ x.loadvalue = w.loadvalue /\ x.delay = 0 /\ x.enabled
        BY <3>1 DEF SameSetup
      <4> QED BY <1>1, <2>2, <4>1
    <3> QED BY <3>1, <3>2, Zenon
  <2>9. ends <=> ~(n < v)
    BY <2>4, <2>6
  <2>10. CASE n < v
    <3> DEFINE vn == v - n
               t == c.armed
               o == c.out
               r == [c EXCEPT !.armed = t, !.out = o, !.value = vn]
    <3>1. h = [ch |-> r, high |-> 0]
      <4>1. c.armed /\ ~ends <=> t
        BY <2>9, <2>10
      <4>2. ~ends /\ t = TRUE /\ o = 0 /\ c.value - n + 0 = vn /\ c.out # 1
        BY <2>3, <2>4, <2>6, <2>9, <2>10 DEF Channel
      <4> HIDE DEF ends
      <4>3. h = [ch |-> [c EXCEPT !.armed = t, !.out = 0, !.value = c.value - n + 0], high |-> 0]
        BY <2>5, <4>2
      <4> QED BY <4>2, <4>3
    <3>2. t \in BOOLEAN /\ o \in 0..1 /\ vn \in Int /\ t = TRUE /\ o = 0 /\ vn > 0
      BY <2>3, <2>4, <2>6, <2>10 DEF Channel
    <3> HIDE DEF t, o, vn
    <3>3. r \in Channel
      BY <2>3, <3>2 DEF Channel
    <3>4. /\ r.mode = 0 /\ r.latch_mode = m.latch_mode /\ r.write_state = m.write_state
          /\ r.write_lsb = m.write_lsb /\ r.loadvalue = m.loadvalue /\ r.delay = 0
          /\ r.enabled /\ ~r.load /\ r.out = 0 /\ r.armed /\ r.value = v - n
      BY <2>3, <2>4, <3>2 DEF Channel, vn
    <3> HIDE DEF r
    <3>5. Agreed(x, r)
      <4>1. r.enabled \in BOOLEAN /\ r.load \in BOOLEAN /\ x.value = v - n /\ v - n > 0
            /\ x.out = 0 /\ x.armed
        BY <2>6, <2>8, <2>10, <3>3 DEF Channel
      <4> QED BY <1>1, <1>6, <2>8, <3>4, <4>1 DEF Agreed, Active
    <3>6. h.ch = r /\ h.high = 0
      BY <3>1
    <3>7. Highs(u, n) = h.high + 0
      BY <2>7, <2>10, <3>6
    <3> QED BY <1>1, <1>3, <3>3, <3>4, <3>5, <3>6, <3>7 DEF InStep, h, x
  <2>11. CASE ~(n < v)
    <3> DEFINE W == T!Wide
               vn == v - n + W
               t == FALSE
               o == 1
               r == [c EXCEPT !.armed = t, !.out = o, !.value = vn]
    <3>1. h = [ch |-> r, high |-> n - v + 1]
      <4>2. ends /\ c.out # 1 /\ c.value = v
        BY <2>4, <2>9, <2>11
      <4>3. (c.armed /\ ~ends) = FALSE
        BY <4>2
      <4> HIDE DEF ends, W
      <4>4. h = [ch |-> [c EXCEPT !.armed = FALSE, !.out = 1, !.value = c.value - n + W],
                 high |-> n - c.value + 1]
        BY <2>5, <4>2, <4>3 DEF W
      <4> QED BY <4>2, <4>4
    <3>2. t \in BOOLEAN /\ o \in 0..1 /\ W \in Int /\ t = FALSE /\ o = 1
      BY DEF T!Wide
    <3>3. vn \in Int
      <4> HIDE DEF W
      <4> QED BY <2>6, <3>2
    <3> HIDE DEF t, o, vn
    <3>4. r \in Channel
      BY <2>3, <3>2, <3>3 DEF Channel
    <3>5. /\ r.mode = 0 /\ r.latch_mode = m.latch_mode /\ r.write_state = m.write_state
          /\ r.write_lsb = m.write_lsb /\ r.loadvalue = m.loadvalue /\ r.delay = 0
          /\ r.enabled /\ ~r.load /\ r.out = 1
      BY <2>3, <2>4, <3>2 DEF Channel
    <3> HIDE DEF r
    <3>6. Agreed(x, r)
      <4>1. r.enabled \in BOOLEAN /\ r.load \in BOOLEAN /\ x.out = 1 /\ ~x.armed
        BY <2>8, <2>11, <3>4 DEF Channel
      <4> QED BY <1>1, <1>6, <2>8, <3>5, <4>1 DEF Agreed, Active
    <3>7. h.ch = r /\ h.high = n - v + 1
      BY <3>1
    <3>8. Highs(u, n) = h.high + 0 /\ h.high \in Int
      BY <2>6, <2>7, <2>11, <3>7
    <3> QED BY <1>1, <1>3, <3>4, <3>5, <3>6, <3>7, <3>8 DEF InStep, h, x
  <2> QED BY <2>10, <2>11
<1> QED BY <1>1, <1>4, <1>5

\* A mode 3 that begins has loaded its count.
Rising(u) == IF u.load /\ ~u.enabled
             THEN [u EXCEPT !.value = u.loadvalue, !.enabled = TRUE, !.load = FALSE]
             ELSE u

\* Whether a mode 3 has loaded its count before a clock or does it in it.
LEMMA RisingCounter ==
  ASSUME Base \in Nat, NEW u \in Counter, u.mode = 3, u.delay = 0, Active(u)
  PROVE  Rising(u) \in Counter /\ T!Count(Rising(u)) = T!Count(u)
<1> DEFINE w == Rising(u)
<1>1. CASE ~(u.load /\ ~u.enabled)
  BY <1>1 DEF Rising
<1>2. CASE u.load /\ ~u.enabled
  <2> DEFINE L == u.loadvalue
             e == u.load
             f == u.enabled
             w1 == [u EXCEPT !.value = L]
  <2>0. L \in Int /\ e \in BOOLEAN /\ e = TRUE /\ f \in BOOLEAN /\ f = FALSE
    BY <1>2 DEF Counter
  <2>1. w = [w1 EXCEPT !.enabled = e, !.load = f]
    <3>1. w = [u EXCEPT !.value = L, !.enabled = e, !.load = f]
      BY <1>2, <2>0, Zenon DEF Rising
    <3> HIDE DEF e, f, L, w
    <3> QED BY <3>1 DEF Counter
  <2> HIDE DEF e, f, L
  <2>2. w1 \in Counter
    BY <2>0 DEF Counter
  <2> HIDE DEF w, w1
  <2>3. w \in Counter
    <3> DEFINE a == u.armed
    <3>1. a \in BOOLEAN /\ w1.armed = a
      BY DEF Counter, w1
    <3>2. [w1 EXCEPT !.enabled = e, !.load = f, !.armed = a] \in Counter
      BY <2>0, <2>2, <3>1, FlagsSet
    <3>3. w = [w1 EXCEPT !.enabled = e, !.load = f, !.armed = a]
      BY <2>1, <2>2, <3>1 DEF Counter
    <3> QED BY <3>2, <3>3
  <2>4. /\ w.mode = 3 /\ w.delay = 0 /\ w.enabled /\ ~w.load /\ w.value = L
        /\ w.loadvalue = L /\ w.out = u.out
    BY <2>0, <2>1, <2>2 DEF Counter, w1, L
  <2>5. T!Count(u) = T!TickSquare(u) /\ T!Count(w) = T!TickSquare(w)
    BY <1>2, <2>4 DEF T!Count
  <2> DEFINE step == IF L = L /\ L % 2 = 1 THEN IF u.out = 0 THEN 3 ELSE 1 ELSE 2
             y == L - step
             v == IF y <= 0 THEN y + (IF L = 0 THEN T!Wide ELSE L) ELSE y
             q == IF y <= 0 THEN 1 - u.out ELSE u.out
             Ticked(r) == [r EXCEPT !.enabled = TRUE, !.load = FALSE, !.out = q, !.high = q,
                                    !.value = v]
  <2>6. T!TickSquare(u) = Ticked(u)
    <3>1. (IF u.load /\ ~u.enabled THEN u.loadvalue ELSE u.value) = L
      BY <1>2 DEF L
    <3> QED BY <3>1 DEF T!TickSquare, L
  <2>7. T!TickSquare(w) = Ticked(w)
    <3>1. (IF w.load /\ ~w.enabled THEN w.loadvalue ELSE w.value) = L
      BY <2>4
    <3> QED BY <2>4, <3>1 DEF T!TickSquare
  <2> HIDE DEF v, q
  <2>8. Ticked(w) = Ticked(u)
    BY <2>1, <2>2 DEF Counter, w1
  <2> QED BY <2>3, <2>5, <2>6, <2>7, <2>8 DEF w
<1> QED BY <1>1, <1>2

\* A count that waits is loaded, and nothing else changes.
LEMMA LoadedFacts ==
  ASSUME NEW m \in Channel
  PROVE  /\ Loaded(m) \in Channel /\ Loaded(m).mode = m.mode /\ Loaded(m).out = m.out
         /\ Loaded(m).latch_mode = m.latch_mode /\ Loaded(m).write_state = m.write_state
         /\ Loaded(m).write_lsb = m.write_lsb /\ Loaded(m).loadvalue = m.loadvalue
         /\ Loaded(m).delay = m.delay
         /\ m.enabled => Loaded(m).enabled /\ Loaded(m).value = m.value
         /\ ~m.enabled /\ m.load => Loaded(m).enabled /\ Loaded(m).value = m.loadvalue
<1>1. CASE ~(~m.enabled /\ m.load)
  <2>1. Loaded(m) = m
    BY <1>1 DEF Loaded
  <2> QED BY <1>1, <2>1
<1>2. CASE ~m.enabled /\ m.load
  <2> DEFINE c == Loaded(m)
             L == m.loadvalue
             e == m.load
             f == m.enabled
             c1 == [m EXCEPT !.value = L]
  <2>0. L \in Int /\ e \in BOOLEAN /\ e = TRUE /\ f \in BOOLEAN /\ f = FALSE
    BY <1>2 DEF Channel
  <2>1. c = [c1 EXCEPT !.enabled = e, !.load = f]
    <3>1. c = [m EXCEPT !.value = L, !.enabled = e, !.load = f]
      BY <1>2, <2>0, Zenon DEF Loaded
    <3> HIDE DEF e, f, L, c
    <3> QED BY <3>1 DEF Channel
  <2> HIDE DEF e, f, L
  <2>2. c1 \in Channel
    BY <2>0 DEF Channel
  <2> HIDE DEF c, c1
  <2>3. c \in Channel
    BY <2>0, <2>1, <2>2 DEF Channel
  <2>4. /\ c.mode = m.mode /\ c.out = m.out
        /\ c.latch_mode = m.latch_mode /\ c.write_state = m.write_state
        /\ c.write_lsb = m.write_lsb /\ c.loadvalue = m.loadvalue
        /\ c.delay = m.delay /\ c.enabled /\ c.value = m.loadvalue
    BY <2>0, <2>1, <2>2 DEF Channel, c1, L
  <2> QED BY <1>2, <2>3, <2>4 DEF c
<1> QED BY <1>1, <1>2

\* A sample of mode 3: half waves against the clocks.
LEMMA SquareSampleInStep ==
  ASSUME Base \in Nat, NEW u \in Counter, NEW m \in Channel, Agreed(u, m),
         u.mode = 3, u.delay = 0, Active(u), NEW n \in Nat, n > 0
  PROVE  InStep(u, m, n)
<1> DEFINE h == T!Integrate(m, n)
           x == After(u, n)
           w == Rising(u)
           c == Loaded(m)
           L == w.loadvalue
<1>1. /\ m.mode = 3 /\ m.delay = 0 /\ m.enabled = u.enabled /\ m.out = u.out
      /\ m.loadvalue = u.loadvalue /\ (m.enabled \/ m.load)
      /\ u.mode = m.mode /\ u.latch_mode = m.latch_mode /\ m.latch_mode # 0
      /\ m.write_state = 1 => u.lsb = m.write_lsb
      /\ u.out \in 0..1 /\ m.out \in Int
  BY DEF Agreed, Active, Counter
<1>2. h = T!IntegrateSquare(m, n)
  BY <1>1, IntegrateNow
<1> HIDE DEF h
<1>3. /\ c \in Channel /\ c.mode = m.mode /\ c.out = m.out
      /\ c.latch_mode = m.latch_mode /\ c.write_state = m.write_state
      /\ c.write_lsb = m.write_lsb /\ c.loadvalue = m.loadvalue /\ c.delay = m.delay
      /\ m.enabled => c.enabled /\ c.value = m.value
      /\ ~m.enabled /\ m.load => c.enabled /\ c.value = m.loadvalue
  BY LoadedFacts
<1> HIDE DEF c
<1>4. w \in Counter /\ T!Count(w) = T!Count(u)
  BY RisingCounter
<1>5. /\ w.mode = 3 /\ w.latch_mode = u.latch_mode /\ w.lsb = u.lsb /\ w.out = u.out
      /\ w.loadvalue = u.loadvalue /\ w.delay = 0 /\ w.enabled
      /\ L \in Nat /\ L >= 2 /\ Wave(w.value, c.value, w.out, L)
  <2>1. CASE u.enabled
    <3>1. w = u
      BY <2>1 DEF Rising
    <3>2. Wave(u.value, m.value, u.out, u.loadvalue)
      BY <2>1 DEF Agreed
    <3>3. u.loadvalue >= 2 /\ u.loadvalue \in Nat
      BY <3>2 DEF Wave, Counter
    <3> HIDE DEF w
    <3> QED BY <1>1, <1>3, <2>1, <3>1, <3>2, <3>3
  <2>2. CASE ~u.enabled
    <3>1. u.load /\ u.out = 1 /\ u.load = m.load /\ u.loadvalue > 1
      BY <2>2 DEF Agreed, Active
    <3>2. w = [u EXCEPT !.value = u.loadvalue, !.enabled = TRUE, !.load = FALSE]
      BY <2>2, <3>1 DEF Rising
    <3> HIDE DEF w
    <3>3. /\ w.mode = 3 /\ w.latch_mode = u.latch_mode /\ w.lsb = u.lsb /\ w.out = u.out
          /\ w.loadvalue = u.loadvalue /\ w.delay = 0 /\ w.enabled /\ w.value = u.loadvalue
      BY <3>2 DEF Counter
    <3>4. c.value = u.loadvalue /\ u.loadvalue \in Nat
      BY <1>1, <1>3, <2>2, <3>1 DEF Counter
    <3>5. ASSUME NEW k \in Nat, k > 1 PROVE Wave(k, k, 1, k)
      BY <3>5 DEF Wave, Even
    <3> QED BY <3>1, <3>3, <3>4, <3>5
  <2> QED BY <2>1, <2>2
<1>6. Squaring(w)
  BY <1>5 DEF Squaring
<1> HIDE DEF w
<1>7. WaveFollowed(w, m, h, After(w, n), Highs(w, n))
  <2>1. Loaded(m).out = w.out /\ m.loadvalue = w.loadvalue /\ Loaded(m) \in Channel
        /\ Wave(w.value, Loaded(m).value, w.out, w.loadvalue)
    BY <1>1, <1>3, <1>5 DEF c
  <2>2. WaveFollowed(w, m, T!IntegrateSquare(m, n), After(w, n), Highs(w, n))
    BY <1>4, <1>6, <2>1, SquareInStep
  <2> QED BY <1>2, <2>2
<1>8. After(w, n) = x /\ Highs(w, n) = Highs(u, n)
  BY <1>4, SameFromTheFirstClock
<1>9. PICK v \in Int, o \in 0..1 : h.ch = [c EXCEPT !.value = v, !.out = o]
  BY <1>7 DEF WaveFollowed, c
<1>10. h.ch \in Channel
  BY <1>3, <1>9 DEF Channel
<1>11. /\ h.ch.mode = 3 /\ h.ch.latch_mode = m.latch_mode /\ h.ch.write_state = m.write_state
       /\ h.ch.write_lsb = m.write_lsb /\ h.ch.loadvalue = m.loadvalue /\ h.ch.delay = 0
       /\ h.ch.enabled /\ h.ch.enabled \in BOOLEAN /\ h.ch.out = o
  BY <1>1, <1>3, <1>9 DEF Channel
<1>12. x \in Counter /\ x.enabled \in BOOLEAN /\ Highs(u, n) \in Int
  <2>1. x \in Counter /\ Highs(u, n) \in Int
    BY ClockByClock
  <2> QED BY <2>1 DEF Counter
<1> HIDE DEF x
<1>13. /\ x.mode = 3 /\ x.latch_mode = m.latch_mode /\ x.lsb = u.lsb /\ x.enabled
       /\ x.loadvalue = m.loadvalue /\ x.delay = 0 /\ x.out = h.ch.out
       /\ Wave(x.value, h.ch.value, x.out, x.loadvalue)
  <2>1. SameSetup(w, x) /\ x.out = h.ch.out /\ Wave(x.value, h.ch.value, h.ch.out, L)
    BY <1>7, <1>8 DEF WaveFollowed
  <2> QED BY <1>1, <1>5, <2>1 DEF SameSetup
<1>14. Agreed(x, h.ch)
  BY <1>1, <1>11, <1>12, <1>13 DEF Agreed, Active
<1>15. h.high \in Int /\ Highs(u, n) = h.high + (h.ch.out - w.out)
  BY <1>7, <1>8 DEF WaveFollowed
<1>16. Slack(m, n, h.ch.out) = h.ch.out - w.out
  <2>1. 0 < n /\ 0 * m.out = 0
    BY <1>1
  <2>2. h.ch.out - m.out \in Int
    BY <1>1, <1>11
  <2> QED BY <1>1, <1>5, <2>1, <2>2 DEF Slack
<1>17. Highs(u, n) = h.high + Slack(m, n, h.ch.out)
  BY <1>15, <1>16
<1> QED BY <1>1, <1>10, <1>11, <1>14, <1>15, <1>17 DEF InStep, h, x

\* The delay and the last level of a counter that waits do not matter.
Resting(u, w, e) == \E h \in Int : w = [u EXCEPT !.delay = e, !.high = h]

\* A delay that has passed by the same clocks on both sides keeps them agreed.
LEMMA RestedAgrees ==
  ASSUME NEW u \in Counter, NEW m \in Channel, Agreed(u, m), NEW e \in Nat, NEW w,
         Resting(u, w, e)
  PROVE  /\ w \in Counter /\ Agreed(w, Rested(m, e))
         /\ w.mode = u.mode /\ w.delay = e /\ w.out = u.out /\ (Active(u) => Active(w))
<1>0. PICK h \in Int : w = [u EXCEPT !.delay = e, !.high = h]
  BY DEF Resting
<1>1. w \in Counter
  BY <1>0, WaitSet
<1>2. /\ w.write_state = u.write_state /\ w.latch_mode = u.latch_mode /\ w.out = u.out
      /\ w.value = u.value /\ w.mode = u.mode /\ w.lsb = u.lsb /\ w.loadvalue = u.loadvalue
      /\ w.armed = u.armed /\ w.load = u.load /\ w.enabled = u.enabled /\ w.delay = e
  BY <1>0 DEF Counter
<1> DEFINE r == Rested(m, e)
<1>3. /\ r \in Channel /\ r.delay = e
      /\ r.mode = m.mode /\ r.latch_mode = m.latch_mode
      /\ r.write_state = m.write_state /\ r.write_lsb = m.write_lsb
      /\ r.loadvalue = m.loadvalue /\ r.enabled = m.enabled
      /\ r.out = m.out /\ r.value = m.value
      /\ r.armed = m.armed /\ r.load = m.load
  BY RestedFacts
<1> HIDE DEF r
<1>4. Active(w) <=> Active(u)
  BY <1>2 DEF Active
<1>5. Agreed(w, r)
  BY <1>2, <1>3, <1>4 DEF Agreed
<1> QED BY <1>1, <1>2, <1>4, <1>5 DEF r

\* A sample of a counter that runs, without a delay.
LEMMA RunningInStep ==
  ASSUME Base \in Nat, NEW u \in Counter, NEW m \in Channel, Agreed(u, m), Active(u),
         u.mode \in {0, 3}, u.delay = 0, NEW n \in Nat, n > 0
  PROVE  InStep(u, m, n)
<1>1. CASE u.mode = 0
  BY <1>1, OnceInStep
<1>2. CASE u.mode = 3
  BY <1>2, SquareSampleInStep
<1> QED BY <1>1, <1>2

\* Agreeing, whatever the delay.
LEMMA AgreedInStep ==
  ASSUME Base \in Nat, NEW u \in Counter, NEW m \in Channel, Agreed(u, m), NEW dt \in Nat, dt > 0
  PROVE  InStep(u, m, dt)
<1>1. CASE ~Active(u) \/ u.mode \in {1, 2}
  BY <1>1, FlatInStep
<1>2. CASE Active(u) /\ ~(u.mode \in {1, 2})
  <2> DEFINE d == m.delay
             o == m.out
             n == dt - d
             h == T!Integrate(m, dt)
  <2>1. u.mode \in {0, 3} /\ u.delay = d /\ u.out = o /\ u.mode = m.mode
        /\ d \in Nat /\ o \in 0..1 /\ o \in Int
    BY <1>2 DEF Agreed, Counter, Channel
  <2>2. CASE d >= dt
    <3> DEFINE e == d - dt
               x == After(u, dt)
               r == Rested(m, e)
    <3>0. e \in Nat /\ dt * o \in Int /\ ~(d < dt)
      BY <2>1, <2>2
    <3>1. h = [ch |-> r, high |-> dt * o]
      BY <2>2, Zenon DEF T!Integrate, Rested
    <3>2. h.ch = r /\ h.high = dt * o
      <4> HIDE DEF h
      <4> QED BY <3>1
    <3>3. Waited(u, x, dt) /\ Highs(u, dt) = dt * o
      BY <2>1, <2>2, DelayClocks
    <3>4. Resting(u, x, e)
      BY <2>1, <3>3 DEF Waited, Resting
    <3> HIDE DEF x
    <3>5. Agreed(x, r)
      BY <3>0, <3>4, RestedAgrees
    <3>6. r \in Channel /\ r.mode = m.mode /\ r.out = o
      BY <3>0, RestedFacts
    <3> HIDE DEF r, h
    <3>7. Slack(m, dt, h.ch.out) = 0
      BY <2>1, <3>0, <3>2, <3>6 DEF Slack
    <3>8. Highs(u, dt) = h.high + 0
      BY <3>0, <3>2, <3>3
    <3> QED BY <3>0, <3>2, <3>5, <3>6, <3>7, <3>8 DEF InStep, h, x
  <2>3. CASE ~(d >= dt)
    <3> DEFINE w == After(u, d)
               c == Rested(m, 0)
               p == d * o
    <3>0. n \in Nat /\ n > 0 /\ d + n = dt /\ d < dt /\ p \in Int
      BY <2>1, <2>3
    <3>1. Waited(u, w, d) /\ Highs(u, d) = p
      BY <2>1, DelayClocks
    <3>2. Resting(u, w, 0)
      <4>1. PICK y \in Int : w = [u EXCEPT !.delay = u.delay - d, !.high = y]
        BY <3>1 DEF Waited
      <4>2. u.delay - d = 0
        BY <2>1
      <4> QED BY <4>1, <4>2 DEF Resting
    <3>3. /\ c \in Channel /\ c.mode = m.mode /\ c.out = o /\ c.delay = 0
      BY RestedFacts
    <3>4. After(u, dt) = After(w, n) /\ Highs(u, dt) = Highs(u, d) + Highs(w, n)
      <4> HIDE DEF n, d
      <4>1. d \in Nat /\ n \in Nat /\ d + n = dt
        BY <2>1, <3>0
      <4>2. After(u, d + n) = After(After(u, d), n)
            /\ Highs(u, d + n) = Highs(u, d) + Highs(After(u, d), n)
        BY <4>1, ClocksAdd
      <4> QED BY <4>1, <4>2
    <3> HIDE DEF w
    <3>5. w \in Counter /\ Agreed(w, c) /\ w.mode = u.mode /\ w.delay = 0 /\ Active(w)
      BY <1>2, <3>2, RestedAgrees
    <3>6. InStep(w, c, n)
      BY <2>1, <3>0, <3>3, <3>5, RunningInStep
    <3> DEFINE g == T!Integrate(c, n)
    <3>7. h = g
      <4>1. h = Ended(c, n)
        BY <2>3, IntegrateEnded
      <4>2. ~(c.delay >= n) /\ n - c.delay = n
        BY <3>0, <3>3
      <4>3. g = Ended(Rested(c, 0), n - c.delay)
        BY <4>2, IntegrateEnded
      <4>4. Rested(c, 0) = c
        <5> HIDE DEF c
        <5> QED BY <3>3 DEF Rested, Channel
      <4> HIDE DEF c, h, g
      <4> QED BY <4>1, <4>2, <4>3, <4>4
    <3> HIDE DEF h, c
    <3>8. /\ g.ch \in Channel /\ g.ch.mode = c.mode /\ g.high \in Int
          /\ Agreed(After(w, n), g.ch) /\ Highs(w, n) = g.high + Slack(c, n, g.ch.out)
      BY <3>6, Zenon DEF InStep
    <3> DEFINE q == g.ch.out
               edge == IF m.mode = 3 THEN q - o ELSE 0
    <3> HIDE DEF g
    <3>9. q \in Int /\ edge \in Int
      <4>1. q \in Int
        BY <3>8 DEF Channel
      <4> HIDE DEF q
      <4> QED BY <2>1, <4>1
    <3>10. Slack(c, n, q) = edge
      <4>1. Slack(c, n, q) = 0 * o + edge
        BY <3>0, <3>3 DEF Slack
      <4>2. 0 * o = 0
        BY <2>1
      <4> HIDE DEF edge
      <4> QED BY <3>9, <4>1, <4>2
    <3>11. Slack(m, dt, q) = p + edge
      BY <3>0, Zenon DEF Slack
    <3> HIDE DEF edge, p
    <3>12. Highs(u, dt) = g.high + Slack(m, dt, q)
      BY <3>0, <3>1, <3>4, <3>8, <3>9, <3>10, <3>11
    <3> QED BY <3>3, <3>4, <3>7, <3>8, <3>12 DEF InStep, h
  <2> QED BY <2>2, <2>3
<1> QED BY <1>1, <1>2

(* After a latch command the counter is a clock ahead and waits for one: w is  *)
(* where it would be without, and s what reading has left of its bytes.        *)
Port(u, s) == [u EXCEPT !.write_state = s]
AheadOf(u, w) == u = [T!Count(w) EXCEPT !.delay = 1, !.high = 0]
Ahead(u, m) ==
  \E w \in Counter : Agreed(w, m) /\ Active(w) /\ w.mode \in {0, 3} /\ w.delay = 0 /\ AheadOf(u, w)

\* Where they agree and nothing holds the counter up, a clock returns the level.
LEMMA RunningClock ==
  ASSUME Base \in Nat, NEW w \in Counter, NEW m \in Channel, Agreed(w, m), Active(w),
         w.mode \in {0, 3}, w.delay = 0
  PROVE  LET c == T!Count(w) IN
         c \in Counter /\ c.delay = 0 /\ c.enabled /\ c.high = c.out /\ c.mode = w.mode
<1> DEFINE c == T!Count(w)
<1>1. c \in Counter
  BY ClockKeepsType
<1>2. CASE w.mode = 0
  <2>1. c = T!TickOnce(w)
    BY <1>2 DEF T!Count, Active
  <2> HIDE DEF c
  <2>2. c.delay = 0 /\ c.enabled /\ c.mode = w.mode
    BY <2>1 DEF T!TickOnce, Counter
  <2>3. c.high = c.out
    <3>1. CASE w.load
      <4>1. w.loadvalue > 0 /\ w.loadvalue \in Nat
        BY <1>2, <3>1 DEF Agreed, Counter
      <4> QED BY <2>1, <3>1, <4>1 DEF T!TickOnce, Counter
    <3>2. CASE ~w.load /\ w.out = 1
      <4>1. ~w.armed
        BY <1>2, <3>2 DEF Agreed, Active
      <4> QED BY <2>1, <3>2, <4>1 DEF T!TickOnce, Counter
    <3>3. CASE ~w.load /\ w.out # 1
      <4>1. w.armed /\ w.value > 0 /\ w.out = 0 /\ w.value \in Int
        BY <1>2, <3>3 DEF Agreed, Active, Counter
      <4> QED BY <2>1, <3>3, <4>1 DEF T!TickOnce, Counter
    <3> QED BY <3>1, <3>2, <3>3
  <2> QED BY <1>1, <2>2, <2>3 DEF c
<1>3. CASE w.mode = 3
  <2>1. c = T!TickSquare(w)
    BY <1>3 DEF T!Count, Active
  <2> HIDE DEF c
  <2>2. c.delay = 0 /\ c.enabled /\ c.mode = w.mode /\ c.high = c.out
    BY <2>1 DEF T!TickSquare, Counter
  <2> QED BY <1>1, <2>2 DEF c
<1> QED BY <1>2, <1>3

\* The clock that ends its wait brings it to where it would be.
LEMMA AheadClock ==
  ASSUME Base \in Nat, NEW u \in Counter, NEW w \in Counter, NEW m \in Channel, Agreed(w, m),
         Active(w), w.mode \in {0, 3}, w.delay = 0, AheadOf(u, w)
  PROVE  T!Count(u) = T!Count(w) /\ u.delay = 1 /\ u.enabled /\ u.mode = w.mode
<1> DEFINE c == T!Count(w)
<1>1. c \in Counter /\ c.delay = 0 /\ c.enabled /\ c.high = c.out /\ c.mode = w.mode
  BY RunningClock
<1>2. u = [c EXCEPT !.delay = 1, !.high = 0]
  BY DEF AheadOf
<1> HIDE DEF c
<1>3. u.delay = 1 /\ u.enabled /\ u.out = c.out /\ u.mode = w.mode
  BY <1>1, <1>2 DEF Counter
<1>4. T!Count(u) = [u EXCEPT !.delay = 0, !.high = u.out]
  <2>1. u.delay > 0 /\ u.delay - 1 = 0
    BY <1>3
  <2>2. T!Count(u) = [u EXCEPT !.delay = u.delay - 1, !.high = u.out]
    BY <2>1, Zenon DEF T!Count
  <2> QED BY <2>1, <2>2
<1>5. [u EXCEPT !.delay = 0, !.high = u.out] = [c EXCEPT !.delay = c.delay, !.high = c.high]
  BY <1>1, <1>2, <1>3 DEF Counter
<1>6. [c EXCEPT !.delay = c.delay, !.high = c.high] = c
  BY <1>1 DEF Counter
<1> QED BY <1>3, <1>4, <1>5, <1>6 DEF c

\* A counter a clock ahead waits for it, and is in step at the end of a sample.
LEMMA AheadInStep ==
  ASSUME Base \in Nat, NEW u \in Counter, NEW m \in Channel, Ahead(u, m), NEW dt \in Nat, dt > 0
  PROVE  InStep(u, m, dt)
<1>1. PICK w \in Counter : /\ Agreed(w, m) /\ Active(w) /\ w.mode \in {0, 3} /\ w.delay = 0
                           /\ AheadOf(u, w)
  BY DEF Ahead
<1>2. T!Count(u) = T!Count(w)
  BY <1>1, AheadClock
<1>3. After(u, dt) = After(w, dt) /\ Highs(u, dt) = Highs(w, dt)
  BY <1>1, <1>2, SameFromTheFirstClock
<1>4. InStep(w, m, dt)
  BY <1>1, RunningInStep
<1> QED BY <1>3, <1>4 DEF InStep

-----------------------------------------------------------------------------
(* The accesses *)

\* After any access: in agreement, or a latch command ahead of it.
Coupled(u, m) == Agreed(u, m) \/ Ahead(u, m)

\* A control word makes them agree, whatever they were.
LEMMA ControlKeeps ==
  ASSUME Base \in Nat, NEW u \in Counter, NEW m \in Channel, NEW mode \in 0..3, NEW latch \in 1..3
  PROVE  LET w == T!SetMode(u, mode, latch)
             c == T!ControlChannel(m, mode, latch) IN
         w \in Counter /\ c \in Channel /\ Agreed(w, c)
<1> DEFINE k == T!Count(u)
           w == T!SetMode(u, mode, latch)
           c == T!ControlChannel(m, mode, latch)
           o == IF mode = 0 THEN 0 ELSE 1
           a == mode \in {0, 1} \/ k.armed
           b == mode = 0
           f == FALSE
           z == 0
           d == 1
<1>1. k \in Counter
  BY ClockKeepsType
<1>2. o \in 0..1 /\ a \in BOOLEAN /\ b \in BOOLEAN /\ f \in BOOLEAN /\ f = FALSE
      /\ z \in 0..1 /\ z \in Nat /\ z \in Int /\ z = 0 /\ d \in Nat /\ latch \in 0..3 /\ latch # 0
  BY <1>1 DEF Counter
<1> DEFINE w1 == [k EXCEPT !.armed = a, !.enabled = f, !.load = f]
           w2 == [w1 EXCEPT !.delay = d, !.mode = mode, !.high = z]
           w3 == [w2 EXCEPT !.out = o, !.latch_mode = latch, !.write_state = z]
           c1 == [m EXCEPT !.mode = mode, !.latch_mode = latch, !.write_state = z]
           c2 == [c1 EXCEPT !.enabled = f, !.armed = b, !.load = f]
           c3 == [c2 EXCEPT !.out = o, !.value = z, !.delay = z]
<1> HIDE DEF k
<1>3. w = w3
  <2>1. w = [k EXCEPT !.delay = d, !.mode = mode, !.high = z,
            !.out = o, !.armed = mode \in {0, 1} \/ @, !.enabled = f, !.load = f,
            !.latch_mode = latch, !.write_state = z]
    BY Zenon DEF T!SetMode, T!LATCH_DELAY, k
  <2>2. w = [k EXCEPT !.delay = d, !.mode = mode, !.high = z,
            !.out = o, !.armed = a, !.enabled = f, !.load = f,
            !.latch_mode = latch, !.write_state = z]
    BY <2>1, Zenon
  <2> HIDE DEF w, d, z, o, a, f
  <2> QED BY <1>1, <2>2 DEF Counter
<1>4. c = c3
  <2>1. c = [m EXCEPT !.mode = mode, !.latch_mode = latch, !.write_state = z,
             !.enabled = f, !.out = o, !.value = z, !.delay = z, !.armed = b, !.load = f]
    BY Zenon DEF T!ControlChannel
  <2> HIDE DEF c, z, o, b, f
  <2> QED BY <2>1 DEF Channel
<1> HIDE DEF w, c, o, a, b, f, z, d
<1>5. w \in Counter
  <2>1. w1 \in Counter
    BY <1>1, <1>2 DEF Counter
  <2> HIDE DEF w1
  <2>2. w2 \in Counter
    BY <1>2, <2>1 DEF Counter
  <2> HIDE DEF w2
  <2>3. w3 \in Counter
    BY <1>2, <2>2 DEF Counter
  <2> QED BY <1>3, <2>3
<1>6. c \in Channel
  <2>1. c1 \in Channel
    BY <1>2 DEF Channel
  <2> HIDE DEF c1
  <2>2. c2 \in Channel
    BY <1>2, <2>1 DEF Channel
  <2> HIDE DEF c2
  <2>3. c3 \in Channel
    BY <1>2, <2>2 DEF Channel
  <2> QED BY <1>4, <2>3
<1>7. w.mode = mode /\ w.latch_mode = latch /\ w.out = o /\ w.enabled = f /\ w.load = f
  BY <1>1, <1>3 DEF Counter
<1>8. /\ c.mode = mode /\ c.latch_mode = latch /\ c.out = o /\ c.enabled = f /\ c.load = f
      /\ c.write_state = 0
  BY <1>2, <1>4 DEF Channel
<1>9. mode # 0 => o = 1
  BY DEF o
<1>10. Agreed(w, c)
  BY <1>2, <1>7, <1>8, <1>9 DEF Agreed, Active
<1> QED BY <1>5, <1>6, <1>10 DEF w, c

\* The write that completes a count, and the count.
Completes(latch, ws) == latch \in {1, 2} \/ (latch = 3 /\ ws = 1)
CountOf(latch, b, low) == IF latch = 3 THEN Base * b + low ELSE IF latch = 1 THEN b ELSE Base * b

\* A count is a natural number.
LEMMA CountIsNat ==
  ASSUME Base \in Nat, NEW b \in Nat, NEW low \in Nat, NEW latch
  PROVE  CountOf(latch, b, low) \in Nat
<1>1. Base * b \in Nat
  OBVIOUS
<1> DEFINE p == Base * b
<1> HIDE DEF p
<1>2. CountOf(latch, b, low) = IF latch = 3 THEN p + low ELSE IF latch = 1 THEN b ELSE p
  BY DEF CountOf, p
<1> QED BY <1>1, <1>2 DEF p

\* A byte to the counter: a count is complete, or it waits for the other byte.
LEMMA WriteValueFacts ==
  ASSUME Base \in Nat, NEW u \in Counter, NEW b \in Nat
  PROVE  LET w == T!WriteValue(u, b)
             n == CountOf(u.latch_mode, b, u.lsb) IN
         /\ w \in Counter /\ w.mode = u.mode /\ w.latch_mode = u.latch_mode /\ w.out = u.out
         /\ w.enabled = u.enabled /\ w.armed = u.armed
         /\ Completes(u.latch_mode, u.write_state) =>
              /\ w.load /\ w.loadvalue = n /\ w.lsb = u.lsb
              /\ w.value = IF u.latch_mode = 2 THEN n ELSE u.value
              /\ w.delay = IF u.mode = 0 \/ ~u.enabled THEN 3 ELSE u.delay
         /\ ~Completes(u.latch_mode, u.write_state) =>
              /\ w.load = u.load /\ w.loadvalue = u.loadvalue /\ w.value = u.value
              /\ ~u.load => w.delay = u.delay
              /\ u.latch_mode = 3 => w.lsb = b /\ w.write_state = 1
<1> DEFINE latch == u.latch_mode
           n == CountOf(latch, b, u.lsb)
           e == TRUE
           v == IF latch = 2 THEN n ELSE u.value
           k == IF latch = 3 THEN 0 ELSE u.write_state
           full == [u EXCEPT !.write_state = k, !.value = v, !.loadvalue = n, !.load = e]
           low == IF latch = 3 THEN [u EXCEPT !.lsb = b, !.write_state = 1] ELSE u
           x == IF Completes(latch, u.write_state) THEN full ELSE low
           w == T!WriteValue(u, b)
<1>1. /\ n \in Nat /\ v \in Int /\ k \in 0..1 /\ e \in BOOLEAN /\ e = TRUE /\ latch \in 0..3
      /\ u.write_state \in 0..1
  <2>1. n \in Nat
    BY CountIsNat DEF Counter
  <2> HIDE DEF n
  <2> QED BY <2>1 DEF Counter
<1>2. w = IF x.load /\ (x.mode = 0 \/ ~x.enabled) THEN [x EXCEPT !.delay = 3] ELSE x
  <2> DEFINE y == CASE u.latch_mode = 3 ->
                  IF u.write_state = 0 THEN [u EXCEPT !.lsb = b, !.write_state = 1]
                  ELSE T!Loaded([u EXCEPT !.write_state = 0], Base * b + u.lsb)
             [] u.latch_mode = 1 -> T!Loaded(u, b)
             [] u.latch_mode = 2 -> T!Loaded([u EXCEPT !.value = Base * b], Base * b)
             [] u.latch_mode = 0 -> u
  <2>1. w = IF y.load /\ (y.mode = 0 \/ ~y.enabled) THEN [y EXCEPT !.delay = 3] ELSE y
    BY Zenon DEF T!WriteValue
  <2>2. y = x
    <3>1. CASE latch = 3 /\ u.write_state = 0
      BY <3>1 DEF Completes
    <3>2. CASE latch = 3 /\ u.write_state = 1
      <4>1. x = full /\ n = Base * b + u.lsb /\ v = u.value /\ k = 0
        BY <3>2 DEF Completes, CountOf
      <4>2. y = T!Loaded([u EXCEPT !.write_state = 0], Base * b + u.lsb)
        BY <3>2
      <4> HIDE DEF y, x, n, v, k
      <4>3. y = T!Loaded([u EXCEPT !.write_state = 0], n)
        BY <4>1, <4>2
      <4>4. y = [u EXCEPT !.write_state = 0, !.loadvalue = n, !.load = TRUE]
        BY <4>3, Zenon DEF T!Loaded
      <4> QED BY <4>1, <4>4 DEF Counter
    <3>3. CASE latch = 1
      <4>1. x = full /\ n = b /\ v = u.value /\ k = u.write_state
        BY <3>3 DEF Completes, CountOf
      <4>2. y = T!Loaded(u, b)
        BY <3>3
      <4> HIDE DEF y, x, n, v, k
      <4>3. y = T!Loaded(u, n)
        BY <4>1, <4>2
      <4>4. y = [u EXCEPT !.loadvalue = n, !.load = TRUE]
        BY <4>3, Zenon DEF T!Loaded
      <4> QED BY <4>1, <4>4 DEF Counter
    <3>4. CASE latch = 2
      <4>1. x = full /\ n = Base * b /\ v = n /\ k = u.write_state
        BY <3>4 DEF Completes, CountOf
      <4>2. y = T!Loaded([u EXCEPT !.value = Base * b], Base * b)
        BY <3>4
      <4> HIDE DEF y, x, n, v, k
      <4>3. y = T!Loaded([u EXCEPT !.value = n], n)
        BY <4>1, <4>2
      <4>4. y = [u EXCEPT !.value = n, !.loadvalue = n, !.load = TRUE]
        BY <4>3, Zenon DEF T!Loaded
      <4> QED BY <4>1, <4>4 DEF Counter
    <3>5. CASE latch = 0
      BY <3>5 DEF Completes
    <3> QED BY <1>1, <3>1, <3>2, <3>3, <3>4, <3>5
  <2> HIDE DEF x, y, w
  <2> QED BY <2>1, <2>2
<1> HIDE DEF n, v, k, e, w
<1>3. CASE Completes(latch, u.write_state)
  <2> DEFINE c1 == [u EXCEPT !.write_state = k, !.value = v]
  <2>1. full \in Counter
    <3>1. c1 \in Counter
      BY <1>1 DEF Counter
    <3>2. full = [c1 EXCEPT !.loadvalue = n, !.load = e]
      BY DEF Counter
    <3> HIDE DEF c1, full
    <3>3. [c1 EXCEPT !.loadvalue = n, !.load = e] \in Counter
      BY <1>1, <3>1 DEF Counter
    <3> QED BY <3>2, <3>3
  <2>2. /\ full.mode = u.mode /\ full.latch_mode = u.latch_mode /\ full.out = u.out
        /\ full.enabled = u.enabled /\ full.armed = u.armed /\ full.load = e
        /\ full.loadvalue = n /\ full.lsb = u.lsb /\ full.value = v /\ full.delay = u.delay
    BY <1>1 DEF Counter
  <2>3. w = IF full.load /\ (full.mode = 0 \/ ~full.enabled) THEN [full EXCEPT !.delay = 3] ELSE full
    BY <1>2, <1>3
  <2> HIDE DEF full
  <2>4. w \in Counter
    BY <2>1, <2>3 DEF Counter
  <2>5. /\ w.mode = u.mode /\ w.latch_mode = u.latch_mode /\ w.out = u.out
        /\ w.enabled = u.enabled /\ w.armed = u.armed /\ w.load = e
        /\ w.loadvalue = n /\ w.lsb = u.lsb /\ w.value = v
        /\ w.delay = IF u.mode = 0 \/ ~u.enabled THEN 3 ELSE u.delay
    BY <1>1, <2>1, <2>2, <2>3 DEF Counter
  <2> QED BY <1>1, <1>3, <2>4, <2>5 DEF w, n, v
<1>4. CASE ~Completes(latch, u.write_state)
  <2>1. low \in Counter
    <3> DEFINE s == 1
    <3>1. s \in 0..1 /\ low = IF latch = 3 THEN [u EXCEPT !.lsb = b, !.write_state = s] ELSE u
      OBVIOUS
    <3> HIDE DEF s, low
    <3> QED BY <3>1 DEF Counter
  <2>2. /\ low.mode = u.mode /\ low.latch_mode = u.latch_mode /\ low.out = u.out
        /\ low.enabled = u.enabled /\ low.armed = u.armed /\ low.load = u.load
        /\ low.loadvalue = u.loadvalue /\ low.value = u.value /\ low.delay = u.delay
        /\ latch = 3 => low.lsb = b /\ low.write_state = 1
    BY <1>1 DEF Counter
  <2>3. w = IF low.load /\ (low.mode = 0 \/ ~low.enabled) THEN [low EXCEPT !.delay = 3] ELSE low
    BY <1>2, <1>4
  <2> HIDE DEF low
  <2>4. w \in Counter
    BY <2>1, <2>3 DEF Counter
  <2>5. /\ w.mode = u.mode /\ w.latch_mode = u.latch_mode /\ w.out = u.out
        /\ w.enabled = u.enabled /\ w.armed = u.armed /\ w.load = u.load
        /\ w.loadvalue = u.loadvalue /\ w.value = u.value
        /\ ~u.load => w.delay = u.delay
        /\ latch = 3 => w.lsb = b /\ w.write_state = 1
    BY <1>1, <2>1, <2>2, <2>3 DEF Counter
  <2> QED BY <1>1, <1>4, <2>4, <2>5 DEF w
<1> QED BY <1>3, <1>4

\* The same byte to the mirror.
LEMMA WriteChannelFacts ==
  ASSUME Base \in Nat, NEW m \in Channel, NEW b \in Nat
  PROVE  LET c == T!WriteChannel(m, b) IN
         /\ c \in Channel /\ c.mode = m.mode /\ c.latch_mode = m.latch_mode /\ c.out = m.out
         /\ c.enabled = m.enabled /\ c.armed = m.armed /\ c.value = m.value
         /\ Completes(m.latch_mode, m.write_state) =>
              /\ c.load /\ c.loadvalue = CountOf(m.latch_mode, b, m.write_lsb)
              /\ c.delay = (IF m.mode = 0 \/ ~m.enabled THEN 3 ELSE m.delay)
              /\ c.write_state = (IF m.latch_mode = 3 THEN 0 ELSE m.write_state)
              /\ c.write_lsb = m.write_lsb
         /\ ~Completes(m.latch_mode, m.write_state) =>
              /\ c.load = m.load /\ c.loadvalue = m.loadvalue /\ c.delay = m.delay
              /\ m.latch_mode = 3 => c.write_lsb = b /\ c.write_state = 1
              /\ m.latch_mode # 3 => c.write_lsb = m.write_lsb /\ c.write_state = m.write_state
<1> DEFINE latch == m.latch_mode
           n == CountOf(latch, b, m.write_lsb)
           e == TRUE
           k == IF latch = 3 THEN 0 ELSE m.write_state
           d == IF m.mode = 0 \/ ~m.enabled THEN 3 ELSE m.delay
           full == [m EXCEPT !.write_state = k, !.loadvalue = n, !.load = e, !.delay = d]
           low == IF latch = 3 THEN [m EXCEPT !.write_lsb = b, !.write_state = 1] ELSE m
           c == T!WriteChannel(m, b)
<1>1. /\ n \in Nat /\ k \in 0..1 /\ e \in BOOLEAN /\ e = TRUE /\ latch \in 0..3 /\ d \in Nat
      /\ m.write_state \in 0..1
  <2>1. n \in Nat
    BY CountIsNat DEF Channel
  <2> HIDE DEF n
  <2> QED BY <2>1 DEF Channel
<1>2. c = IF Completes(latch, m.write_state) THEN full ELSE low
  <2> HIDE DEF d
  <2>0. ASSUME NEW r \in Channel, r.mode = m.mode, r.enabled = m.enabled, r.delay = m.delay, NEW y
        PROVE  T!LoadChannel(r, y) = [r EXCEPT !.loadvalue = y, !.load = TRUE, !.delay = d]
    BY <2>0 DEF T!LoadChannel, d
  <2>1. CASE latch = 3 /\ m.write_state = 0
    BY <2>1 DEF Completes, T!WriteChannel
  <2>2. CASE latch = 3 /\ m.write_state = 1
    <3> DEFINE r == [m EXCEPT !.write_state = 0]
    <3>1. Completes(latch, m.write_state) /\ n = Base * b + m.write_lsb /\ k = 0
      BY <2>2 DEF Completes, CountOf
    <3>2. c = T!LoadChannel(r, n)
      BY <2>2, <3>1 DEF T!WriteChannel
    <3>3. r \in Channel /\ r.mode = m.mode /\ r.enabled = m.enabled /\ r.delay = m.delay
      BY DEF Channel
    <3> HIDE DEF r
    <3>4. c = [r EXCEPT !.loadvalue = n, !.load = TRUE, !.delay = d]
      BY <2>0, <3>2, <3>3
    <3> HIDE DEF c, n, k
    <3> QED BY <3>1, <3>4 DEF r
  <2>3. CASE latch = 1
    <3>1. Completes(latch, m.write_state) /\ n = b /\ k = m.write_state
      BY <2>3 DEF Completes, CountOf
    <3>2. c = T!LoadChannel(m, n)
      BY <2>3, <3>1 DEF T!WriteChannel
    <3>3. c = [m EXCEPT !.loadvalue = n, !.load = TRUE, !.delay = d]
      BY <2>0, <3>2
    <3> HIDE DEF c, n, k
    <3> QED BY <3>1, <3>3 DEF Channel
  <2>4. CASE latch = 2
    <3>1. Completes(latch, m.write_state) /\ n = Base * b /\ k = m.write_state
      BY <2>4 DEF Completes, CountOf
    <3>2. c = T!LoadChannel(m, n)
      BY <2>4, <3>1 DEF T!WriteChannel
    <3>3. c = [m EXCEPT !.loadvalue = n, !.load = TRUE, !.delay = d]
      BY <2>0, <3>2
    <3> HIDE DEF c, n, k
    <3> QED BY <3>1, <3>3 DEF Channel
  <2>5. CASE latch = 0
    BY <2>5 DEF Completes, T!WriteChannel
  <2> QED BY <1>1, <2>1, <2>2, <2>3, <2>4, <2>5
<1> HIDE DEF n, k, e, d, c
<1>3. CASE Completes(latch, m.write_state)
  <2>1. c = full
    BY <1>2, <1>3
  <2> DEFINE c1 == [m EXCEPT !.write_state = k, !.delay = d]
  <2>2. full \in Channel
    <3>1. c1 \in Channel
      BY <1>1 DEF Channel
    <3>2. full = [c1 EXCEPT !.loadvalue = n, !.load = e]
      BY DEF Channel
    <3> HIDE DEF c1, full
    <3>3. [c1 EXCEPT !.loadvalue = n, !.load = e] \in Channel
      BY <1>1, <3>1 DEF Channel
    <3> QED BY <3>2, <3>3
  <2>3. /\ c.mode = m.mode /\ c.latch_mode = m.latch_mode /\ c.out = m.out
        /\ c.enabled = m.enabled /\ c.armed = m.armed /\ c.value = m.value
        /\ c.load = e /\ c.loadvalue = n /\ c.delay = d /\ c.write_state = k
        /\ c.write_lsb = m.write_lsb
    BY <2>1 DEF Channel
  <2> HIDE DEF full
  <2> QED BY <1>1, <1>3, <2>1, <2>2, <2>3 DEF c, n, d, k
<1>4. CASE ~Completes(latch, m.write_state)
  <2>1. c = low
    BY <1>2, <1>4
  <2>2. low \in Channel
    <3> DEFINE s == 1
    <3>1. s \in 0..1 /\ low = IF latch = 3 THEN [m EXCEPT !.write_lsb = b, !.write_state = s] ELSE m
      OBVIOUS
    <3> HIDE DEF s, low
    <3> QED BY <3>1 DEF Channel
  <2>3. /\ low.mode = m.mode /\ low.latch_mode = m.latch_mode /\ low.out = m.out
        /\ low.enabled = m.enabled /\ low.armed = m.armed /\ low.value = m.value
        /\ low.load = m.load /\ low.loadvalue = m.loadvalue /\ low.delay = m.delay
        /\ latch = 3 => low.write_lsb = b /\ low.write_state = 1
        /\ latch # 3 => low.write_lsb = m.write_lsb /\ low.write_state = m.write_state
    BY <1>1 DEF Channel
  <2> HIDE DEF low
  <2> QED BY <1>4, <2>1, <2>2, <2>3 DEF c
<1> QED BY <1>3, <1>4

\* A write the mirror reproduces keeps them agreed.
LEMMA WriteKeeps ==
  ASSUME Base \in Nat, NEW u \in Counter, channel \in Channel, Agreed(u, channel), NEW b \in Nat,
         T!Reproduced(u, T!WriteValue(u, b))
  PROVE  Agreed(T!WriteValue(u, b), T!WriteChannel(channel, b))
<1> DEFINE w == T!WriteValue(u, b)
           m == channel
           c == T!WriteChannel(m, b)
           latch == u.latch_mode
           n == CountOf(latch, b, u.lsb)
<1>1. /\ u.mode = m.mode /\ latch = m.latch_mode /\ u.out = m.out /\ latch # 0
      /\ u.write_state = m.write_state /\ u.mode \in 0..3 /\ latch \in 0..3
      /\ u.write_state \in 0..1 /\ m.write_state \in 0..1
      /\ (m.write_state = 1 => u.lsb = m.write_lsb)
  BY DEF Agreed, T!Reproduced, Counter, Channel
<1>2. /\ w \in Counter /\ w.mode = u.mode /\ w.latch_mode = latch /\ w.out = u.out
      /\ w.enabled = u.enabled /\ w.armed = u.armed
      /\ Completes(latch, u.write_state) =>
           /\ w.load /\ w.loadvalue = n /\ w.lsb = u.lsb
           /\ w.value = IF latch = 2 THEN n ELSE u.value
           /\ w.delay = IF u.mode = 0 \/ ~u.enabled THEN 3 ELSE u.delay
      /\ ~Completes(latch, u.write_state) =>
           /\ w.load = u.load /\ w.loadvalue = u.loadvalue /\ w.value = u.value
           /\ ~u.load => w.delay = u.delay
           /\ latch = 3 => w.lsb = b /\ w.write_state = 1
  BY WriteValueFacts, Zenon
<1>3. /\ c \in Channel /\ c.mode = m.mode /\ c.latch_mode = m.latch_mode /\ c.out = m.out
      /\ c.enabled = m.enabled /\ c.armed = m.armed /\ c.value = m.value
      /\ Completes(m.latch_mode, m.write_state) =>
           /\ c.load /\ c.loadvalue = CountOf(m.latch_mode, b, m.write_lsb)
           /\ c.delay = (IF m.mode = 0 \/ ~m.enabled THEN 3 ELSE m.delay)
           /\ c.write_state = (IF m.latch_mode = 3 THEN 0 ELSE m.write_state)
           /\ c.write_lsb = m.write_lsb
      /\ ~Completes(m.latch_mode, m.write_state) =>
           /\ c.load = m.load /\ c.loadvalue = m.loadvalue /\ c.delay = m.delay
           /\ m.latch_mode = 3 => c.write_lsb = b /\ c.write_state = 1
           /\ m.latch_mode # 3 => c.write_lsb = m.write_lsb /\ c.write_state = m.write_state
  BY WriteChannelFacts, Zenon
<1>4. /\ u.load => w.write_state = 0
      /\ u.enabled => u.delay = m.delay
      /\ w.load /\ ~(u.mode = 3 /\ u.enabled) =>
           w.loadvalue >= (CASE u.mode = 0 -> 1 [] u.mode = 3 -> 2 [] OTHER -> 0)
      /\ u.mode = 3 /\ u.enabled /\ w.load =>
           /\ latch # 2
           /\ u.loadvalue % 2 = 0 /\ w.loadvalue % 2 = 0 /\ w.loadvalue > 1
  BY Zenon DEF T!Reproduced
<1>5. /\ w.enabled \in BOOLEAN /\ w.load \in BOOLEAN /\ c.enabled \in BOOLEAN
      /\ c.load \in BOOLEAN /\ w.loadvalue \in Nat
  BY <1>2, <1>3 DEF Counter, Channel
<1> HIDE DEF w, c
<1>6. u.mode \in {1, 2} => w.out = 1
  BY <1>2 DEF Agreed
<1> SUFFICES Agreed(w, c)
  BY DEF w, c
<1>7. CASE Completes(latch, u.write_state)
  <2>1. n = CountOf(m.latch_mode, b, m.write_lsb)
    BY <1>1, <1>7 DEF Completes, CountOf
  <2> HIDE DEF n
  <2>2. /\ w.load /\ w.loadvalue = n /\ w.lsb = u.lsb
        /\ w.value = IF latch = 2 THEN n ELSE u.value
        /\ w.delay = IF u.mode = 0 \/ ~u.enabled THEN 3 ELSE u.delay
        /\ c.load /\ c.loadvalue = n
        /\ c.delay = (IF m.mode = 0 \/ ~m.enabled THEN 3 ELSE m.delay)
        /\ c.write_lsb = m.write_lsb /\ (c.write_state = 1 => m.write_state = 1)
    BY <1>1, <1>2, <1>3, <1>7, <2>1
  <2>3. CASE u.mode = 0
    <3>1. u.enabled = m.enabled /\ n > 0
      BY <1>4, <1>5, <2>2, <2>3 DEF Agreed
    <3> QED BY <1>1, <1>2, <1>3, <1>5, <2>2, <2>3, <3>1 DEF Agreed, Active
  <2>4. CASE u.mode \in {1, 2}
    BY <1>1, <1>2, <1>3, <1>5, <1>6, <2>2, <2>4 DEF Agreed
  <2>5. CASE u.mode = 3 /\ ~u.enabled
    <3>1. ~m.enabled /\ u.out = 1 /\ n > 1
      BY <1>4, <1>5, <2>2, <2>5 DEF Agreed, Channel
    <3> QED BY <1>1, <1>2, <1>3, <1>5, <2>2, <2>5, <3>1 DEF Agreed, Active
  <2>6. CASE u.mode = 3 /\ u.enabled
    <3>1. u.enabled = m.enabled /\ u.delay = m.delay /\ Wave(u.value, m.value, u.out, u.loadvalue)
      BY <2>6 DEF Agreed, Active
    <3>2. latch # 2 /\ u.loadvalue % 2 = 0 /\ n % 2 = 0 /\ n > 1 /\ n \in Nat
      BY <1>4, <1>5, <2>2, <2>6
    <3>3. u.value = m.value /\ u.value > 0 /\ m.value > 0 /\ Even(u.value)
      BY <3>1, <3>2 DEF Wave, Even
    <3>4. Wave(w.value, c.value, w.out, w.loadvalue)
      BY <1>2, <1>3, <2>2, <3>2, <3>3 DEF Wave, Even
    <3>5. w.enabled = c.enabled /\ w.enabled /\ w.delay = c.delay /\ w.loadvalue = c.loadvalue
      <4>1. w.enabled = u.enabled /\ c.enabled = m.enabled
        BY <1>2, <1>3
      <4>2. w.delay = u.delay /\ c.delay = m.delay /\ w.loadvalue = n /\ c.loadvalue = n
        BY <1>1, <2>2, <2>6, <3>1
      <4> QED BY <2>6, <3>1, <4>1, <4>2
    <3>6. /\ w.mode = c.mode /\ w.latch_mode = c.latch_mode /\ w.out = c.out /\ c.latch_mode # 0
          /\ c.write_state = 1 => w.lsb = c.write_lsb
          /\ w.mode = 3
      BY <1>1, <1>2, <1>3, <2>2, <2>6
    <3>7. w.mode \notin {1, 2} /\ w.mode # 0
      BY <3>6
    <3> QED BY <3>4, <3>5, <3>6, <3>7, Zenon DEF Agreed
  <2> QED BY <1>1, <2>3, <2>4, <2>5, <2>6
<1>8. CASE ~Completes(latch, u.write_state)
  <2>1. latch = 3 /\ u.write_state = 0
    BY <1>1, <1>8 DEF Completes
  <2>2. /\ w.load = u.load /\ w.loadvalue = u.loadvalue /\ w.value = u.value /\ w.lsb = b
        /\ ~u.load /\ w.delay = u.delay /\ c.load = m.load /\ c.loadvalue = m.loadvalue
        /\ c.delay = m.delay /\ c.write_lsb = b
    BY <1>1, <1>2, <1>3, <1>4, <1>8, <2>1
  <2>3. Active(w) <=> Active(u)
    BY <1>2, <2>2 DEF Active
  <2>4. Agreed(w, c)
    BY <1>1, <1>2, <1>3, <2>2, <2>3 DEF Agreed
  <2> QED BY <2>4
<1> QED BY <1>7, <1>8

\* Reading moves nothing but the state of the port.
LEMMA PortClock ==
  ASSUME Base \in Nat, NEW u \in Counter, NEW s \in 0..1
  PROVE  Port(u, s) \in Counter /\ T!Count(Port(u, s)) = Port(T!Count(u), s)
<1> DEFINE p == Port(u, s)
<1>1. p \in Counter
  BY DEF Counter, Port
<1>2. /\ p.mode = u.mode /\ p.delay = u.delay /\ p.enabled = u.enabled /\ p.load = u.load
      /\ p.out = u.out /\ p.value = u.value /\ p.loadvalue = u.loadvalue /\ p.armed = u.armed
  BY DEF Counter, Port
<1>3. p = [u EXCEPT !.write_state = s]
  BY DEF Port
<1> HIDE DEF p
<1>4. CASE u.delay > 0
  <2> DEFINE d == u.delay - 1
             h == u.out
  <2>1. T!Count(u) = [u EXCEPT !.delay = d, !.high = h]
    BY <1>4 DEF T!Count
  <2>2. T!Count(p) = [p EXCEPT !.delay = d, !.high = h]
    BY <1>2, <1>4 DEF T!Count
  <2> HIDE DEF d, h
  <2>3. T!Count(p) = [T!Count(u) EXCEPT !.write_state = s]
    BY <1>3, <2>1, <2>2 DEF Counter
  <2> QED BY <1>1, <2>3 DEF Port, p
<1>5. CASE ~(u.delay > 0) /\ ~u.enabled /\ ~u.load
  <2> DEFINE h == u.out
  <2>1. T!Count(u) = [u EXCEPT !.high = h]
    BY <1>5 DEF T!Count
  <2>2. T!Count(p) = [p EXCEPT !.high = h]
    BY <1>2, <1>5 DEF T!Count
  <2> HIDE DEF h
  <2>3. T!Count(p) = [T!Count(u) EXCEPT !.write_state = s]
    BY <1>3, <2>1, <2>2 DEF Counter
  <2> QED BY <1>1, <2>3 DEF Port, p
<1>6. CASE ~(u.delay > 0) /\ (u.enabled \/ u.load) /\ u.mode = 0
  <2> DEFINE v == IF u.load THEN u.loadvalue ELSE u.value
             out  == IF u.load THEN 0 ELSE u.out
             arm  == u.load \/ u.armed
             over == v - 1 <= 0
             a1 == arm /\ ~over
             v1 == IF over THEN v - 1 + T!Wide ELSE v - 1
             o1 == IF over /\ arm /\ v # 0 THEN 1 ELSE out
             h1 == IF over /\ arm THEN 2 - v ELSE out
             Ticked(r) == [r EXCEPT !.enabled = TRUE, !.load = FALSE, !.armed = a1,
                                    !.value = v1, !.out = o1, !.high = h1]
  <2>1. T!Count(u) = Ticked(u)
    <3>1. T!Count(u) = T!TickOnce(u)
      BY <1>6 DEF T!Count
    <3> QED BY <3>1, Zenon DEF T!TickOnce
  <2>2. T!Count(p) = Ticked(p)
    <3>1. T!Count(p) = T!TickOnce(p)
      BY <1>2, <1>6 DEF T!Count
    <3> QED BY <1>2, <3>1 DEF T!TickOnce
  <2> HIDE DEF a1, v1, o1, h1
  <2>3. T!Count(p) = [T!Count(u) EXCEPT !.write_state = s]
    BY <1>3, <2>1, <2>2 DEF Counter
  <2> QED BY <1>1, <2>3 DEF Port, p
<1>7. CASE ~(u.delay > 0) /\ (u.enabled \/ u.load) /\ u.mode \in {1, 2}
  <2> DEFINE v == (IF u.load /\ ~u.enabled /\ u.mode = 2 THEN u.loadvalue ELSE u.value) - 1
             reload == IF u.loadvalue = 0 THEN T!Wide
                       ELSE u.loadvalue + (IF u.mode = 1 THEN 1 ELSE 0)
             v1 == IF v <= 0 THEN v + reload ELSE v
             o1 == u.out
             Ticked(r) == [r EXCEPT !.enabled = TRUE, !.load = FALSE, !.high = o1, !.value = v1]
  <2>1. T!Count(u) = Ticked(u)
    <3>1. T!Count(u) = T!TickRate(u)
      BY <1>7 DEF T!Count
    <3> QED BY <3>1, Zenon DEF T!TickRate
  <2>2. T!Count(p) = Ticked(p)
    <3>1. T!Count(p) = T!TickRate(p)
      BY <1>2, <1>7 DEF T!Count
    <3> QED BY <1>2, <3>1 DEF T!TickRate
  <2> HIDE DEF v1, o1
  <2>3. T!Count(p) = [T!Count(u) EXCEPT !.write_state = s]
    BY <1>3, <2>1, <2>2 DEF Counter
  <2> QED BY <1>1, <2>3 DEF Port, p
<1>8. CASE ~(u.delay > 0) /\ (u.enabled \/ u.load) /\ u.mode = 3
  <2> DEFINE from == IF u.load /\ ~u.enabled THEN u.loadvalue ELSE u.value
             step == IF from = u.loadvalue /\ from % 2 = 1
                     THEN IF u.out = 0 THEN 3 ELSE 1
                     ELSE 2
             v == from - step
             o1 == IF v <= 0 THEN 1 - u.out ELSE u.out
             v1 == IF v <= 0 THEN v + (IF u.loadvalue = 0 THEN T!Wide ELSE u.loadvalue) ELSE v
             Ticked(r) == [r EXCEPT !.enabled = TRUE, !.load = FALSE, !.out = o1, !.high = o1,
                                    !.value = v1]
  <2>1. T!Count(u) = Ticked(u)
    <3>1. T!Count(u) = T!TickSquare(u)
      BY <1>8 DEF T!Count
    <3> QED BY <3>1, Zenon DEF T!TickSquare
  <2>2. T!Count(p) = Ticked(p)
    <3>1. T!Count(p) = T!TickSquare(p)
      BY <1>2, <1>8 DEF T!Count
    <3> QED BY <1>2, <3>1 DEF T!TickSquare
  <2> HIDE DEF v1, o1
  <2>3. T!Count(p) = [T!Count(u) EXCEPT !.write_state = s]
    BY <1>3, <2>1, <2>2 DEF Counter
  <2> QED BY <1>1, <2>3 DEF Port, p
<1> QED BY <1>4, <1>5, <1>6, <1>7, <1>8 DEF Counter

\* Reading turns the order of the bytes and nothing else.
LEMMA ReadKeeps ==
  ASSUME Base \in Nat, NEW u \in Counter, NEW m \in Channel
  PROVE  /\ T!ReadValue(u) \in Counter
         /\ Coupled(u, m) => Coupled(T!ReadValue(u), m)
<1>1. PICK s \in 0..1 : T!ReadValue(u) = Port(u, s)
  <2>1. CASE u.latch_mode = 3
    <3> DEFINE s == 1 - u.write_state
    <3>1. s \in 0..1
      BY DEF Counter
    <3>2. T!ReadValue(u) = Port(u, s)
      BY <2>1 DEF T!ReadValue, Port
    <3> QED BY <3>1, <3>2
  <2>2. CASE u.latch_mode # 3
    <3> DEFINE s == u.write_state
    <3>1. s \in 0..1 /\ u = Port(u, s)
      BY DEF Counter, Port
    <3>2. T!ReadValue(u) = u
      BY <2>2 DEF T!ReadValue
    <3> QED BY <3>1, <3>2
  <2> QED BY <2>1, <2>2
<1> DEFINE p == Port(u, s)
<1>2. p \in Counter
  BY PortClock
<1>3. ASSUME NEW w \in Counter, Agreed(w, m) PROVE Agreed(Port(w, s), m)
  <2> DEFINE q == Port(w, s)
  <2>1. /\ q.mode = w.mode /\ q.delay = w.delay /\ q.enabled = w.enabled /\ q.load = w.load
        /\ q.out = w.out /\ q.value = w.value /\ q.loadvalue = w.loadvalue /\ q.armed = w.armed
        /\ q.latch_mode = w.latch_mode /\ q.lsb = w.lsb
    BY DEF Counter, Port
  <2> HIDE DEF q
  <2>2. Active(q) <=> Active(w)
    BY <2>1 DEF Active
  <2>3. Agreed(q, m)
    BY <1>3, <2>1, <2>2 DEF Agreed
  <2> QED BY <2>3 DEF q
<1>4. ASSUME Ahead(u, m) PROVE Ahead(p, m)
  <2>1. PICK w \in Counter : /\ Agreed(w, m) /\ Active(w) /\ w.mode \in {0, 3} /\ w.delay = 0
                             /\ AheadOf(u, w)
    BY <1>4 DEF Ahead
  <2> DEFINE q == Port(w, s)
  <2>2. q \in Counter /\ T!Count(q) = Port(T!Count(w), s) /\ Agreed(q, m)
    BY <1>3, <2>1, PortClock
  <2>3. Active(q) /\ q.mode \in {0, 3} /\ q.delay = 0
    BY <2>1 DEF Active, Port, Counter
  <2>4. p = [T!Count(q) EXCEPT !.delay = 1, !.high = 0]
    <3> DEFINE c == T!Count(w)
    <3>1. u = [c EXCEPT !.delay = 1, !.high = 0]
      BY <2>1 DEF AheadOf
    <3>2. p = [u EXCEPT !.write_state = s] /\ T!Count(q) = [c EXCEPT !.write_state = s]
      BY <2>2 DEF Port
    <3>3. c \in Counter
      BY <2>1, ClockKeepsType
    <3> HIDE DEF c, p, q
    <3> QED BY <3>1, <3>2, <3>3 DEF Counter
  <2> HIDE DEF p, q
  <2>5. AheadOf(p, q)
    BY <2>4 DEF AheadOf
  <2> QED BY <2>2, <2>3, <2>5 DEF Ahead
<1>5. Coupled(u, m) => Coupled(p, m)
  BY <1>3, <1>4 DEF Coupled
<1> QED BY <1>1, <1>2, <1>5

\* The latch command takes a clock ahead, or does nothing to the level.
LEMMA LatchKeeps ==
  ASSUME Base \in Nat, NEW u \in Counter, NEW m \in Channel
  PROVE  /\ T!Latch(u) \in Counter
         /\ Coupled(u, m) /\ u.delay <= 1 => Coupled(T!Latch(u), m)
<1> DEFINE c == T!Count(u)
           l == T!Latch(u)
<1>1. c \in Counter
  BY ClockKeepsType
<1>2. l = [c EXCEPT !.delay = 1, !.high = 0]
  BY Zenon DEF T!Latch, T!LATCH_DELAY
<1>3. l \in Counter
  <2> DEFINE d == 1
             h == 0
  <2>1. d \in Nat /\ h \in Int /\ l = [c EXCEPT !.delay = d, !.high = h]
    BY <1>2
  <2> HIDE DEF d, h, c, l
  <2>2. [c EXCEPT !.delay = d, !.high = h] \in Counter
    BY <1>1, <2>1, WaitSet
  <2> QED BY <2>1, <2>2
<1>4. ASSUME Agreed(u, m), ~Active(u) \/ u.mode \in {1, 2} PROVE Agreed(l, m)
  <2>1. SameLevel(u, c)
    <3>1. Flat(u)
      BY <1>4 DEF Flat
    <3> QED BY <3>1, FlatClock
  <2> HIDE DEF c
  <2>2. /\ l.mode = c.mode /\ l.latch_mode = c.latch_mode /\ l.lsb = c.lsb /\ l.out = c.out
        /\ l.enabled = c.enabled /\ l.load = c.load
    BY <1>1, <1>2 DEF Counter
  <2> HIDE DEF l
  <2>3. /\ l.mode = u.mode /\ l.latch_mode = u.latch_mode /\ l.lsb = u.lsb /\ l.out = u.out
    BY <2>1, <2>2 DEF SameLevel
  <2>4. CASE u.mode \in {1, 2}
    <3>1. l.mode \notin {0, 3} /\ l.mode # 0 /\ l.mode # 3
      BY <2>3, <2>4
    <3> QED BY <1>4, <2>3, <3>1 DEF Agreed
  <2>5. CASE u.mode \notin {1, 2}
    <3>1. ~u.enabled /\ ~u.load
      BY <1>4, <2>5 DEF Active
    <3>2. l.enabled = u.enabled /\ l.load = u.load
      BY <2>1, <2>2, <2>5, Zenon DEF SameLevel
    <3> QED BY <1>4, <2>3, <2>5, <3>1, <3>2 DEF Agreed, Active
  <2> QED BY <2>4, <2>5
<1>5. ASSUME Agreed(u, m), Active(u), u.mode \in {0, 3}, u.delay = 1 PROVE Agreed(l, m)
  <2>1. c = [u EXCEPT !.delay = 0, !.high = u.out]
    <3>1. u.delay > 0 /\ u.delay - 1 = 0
      BY <1>5
    <3>2. c = [u EXCEPT !.delay = u.delay - 1, !.high = u.out]
      BY <3>1, Zenon DEF T!Count
    <3> QED BY <3>1, <3>2
  <2> HIDE DEF c, l
  <2>2. /\ l.mode = u.mode /\ l.latch_mode = u.latch_mode /\ l.lsb = u.lsb /\ l.out = u.out
        /\ l.enabled = u.enabled /\ l.load = u.load /\ l.delay = u.delay /\ l.value = u.value
        /\ l.loadvalue = u.loadvalue /\ l.armed = u.armed
    BY <1>2, <1>5, <2>1 DEF Counter
  <2>3. Active(l) <=> Active(u)
    BY <2>2 DEF Active
  <2> QED BY <1>5, <2>2, <2>3 DEF Agreed
<1>6. ASSUME Agreed(u, m), Active(u), u.mode \in {0, 3}, u.delay = 0 PROVE Ahead(l, m)
  <2>1. AheadOf(l, u)
    BY <1>2 DEF AheadOf
  <2> QED BY <1>6, <2>1 DEF Ahead
<1>7. ASSUME Ahead(u, m) PROVE Ahead(l, m)
  <2>1. PICK w \in Counter : /\ Agreed(w, m) /\ Active(w) /\ w.mode \in {0, 3} /\ w.delay = 0
                             /\ AheadOf(u, w)
    BY <1>7 DEF Ahead
  <2>2. c = T!Count(w)
    BY <2>1, AheadClock
  <2>3. AheadOf(l, w)
    BY <1>2, <2>2 DEF AheadOf
  <2> QED BY <2>1, <2>3 DEF Ahead
<1>8. ASSUME Coupled(u, m), u.delay <= 1 PROVE Coupled(l, m)
  <2>1. CASE Ahead(u, m)
    BY <1>7, <2>1 DEF Coupled
  <2>2. CASE Agreed(u, m)
    <3>1. u.delay \in {0, 1} /\ u.mode \in 0..3
      BY <1>8 DEF Counter
    <3> HIDE DEF l
    <3> QED BY <1>4, <1>5, <1>6, <2>2, <3>1 DEF Coupled
  <2> QED BY <1>8, <2>1, <2>2 DEF Coupled
<1> QED BY <1>3, <1>8

\* A sample leaves them in step.
LEMMA SampleKeeps ==
  ASSUME Base \in Nat, NEW u \in Counter, NEW m \in Channel, Coupled(u, m), NEW dt \in Nat, dt > 0
  PROVE  InStep(u, m, dt) /\ Coupled([After(u, dt) EXCEPT !.high = 0], T!Integrate(m, dt).ch)
         /\ [After(u, dt) EXCEPT !.high = 0] \in Counter
<1> DEFINE x == After(u, dt)
           h == T!Integrate(m, dt)
           y == [x EXCEPT !.high = 0]
<1>1. InStep(u, m, dt)
  BY AgreedInStep, AheadInStep DEF Coupled
<1>2. x \in Counter
  BY ClockByClock
<1>3. Agreed(x, h.ch)
  BY <1>1 DEF InStep
<1> HIDE DEF x
<1>4. y \in Counter
  BY <1>2 DEF Counter
<1>5. /\ y.mode = x.mode /\ y.latch_mode = x.latch_mode /\ y.lsb = x.lsb /\ y.out = x.out
      /\ y.enabled = x.enabled /\ y.load = x.load /\ y.delay = x.delay /\ y.value = x.value
      /\ y.loadvalue = x.loadvalue /\ y.armed = x.armed
  BY <1>2 DEF Counter
<1> HIDE DEF y, h
<1>6. Active(y) <=> Active(x)
  BY <1>5 DEF Active
<1>7. Agreed(y, h.ch)
  BY <1>3, <1>5, <1>6 DEF Agreed
<1>8. Coupled(y, h.ch)
  BY <1>7 DEF Coupled
<1> QED BY <1>1, <1>4, <1>8 DEF x, y, h

-----------------------------------------------------------------------------
(* The invariant *)

\* The invariant: while the program is exact, chip and mirror are coupled, and
\* the last sample was in step.
TimerInv ==
  /\ counter \in Counter /\ channel \in Channel
  /\ exact => Coupled(counter, channel)
  /\ T!MirrorInStep

\* Before the first control word nothing is claimed.
LEMMA TimerInvStarts ==
  ASSUME T!CountersFit
  PROVE  T!Init => TimerInv
<1> SUFFICES ASSUME T!Init PROVE TimerInv
  OBVIOUS
<1>1. counter \in Counter
  <2> DEFINE z == 0
             f == FALSE
  <2>1. z \in 0..1 /\ z \in 0..3 /\ z \in Nat /\ z \in Int /\ f \in BOOLEAN
    OBVIOUS
  <2>2. PICK l \in 0..3, o \in 0..1 :
          counter = [write_state |-> z, latch_mode |-> l, out |-> o,
                     value |-> z, mode |-> z, lsb |-> z, loadvalue |-> z, armed |-> f,
                     load |-> f, enabled |-> f, delay |-> z, high |-> z]
    BY DEF T!Init, T!Counters
  <2> HIDE DEF z, f
  <2> QED BY <2>1, <2>2 DEF Counter
<1>2. channel \in Channel
  BY DEF T!Init, T!NoChannel, Channel
<1>3. ~exact
  BY DEF T!Init
<1> QED BY <1>1, <1>2, <1>3 DEF TimerInv, T!MirrorInStep

\* Every access and every sample keeps the invariant.
LEMMA TimerInvSteps ==
  ASSUME T!CountersFit, Clocked = TRUE
  PROVE  TimerInv /\ [T!Next]_(T!vars) => TimerInv'
<1> SUFFICES ASSUME TimerInv, [T!Next]_(T!vars) PROVE TimerInv'
  OBVIOUS
<1>1. Base \in Nat /\ counter \in Counter /\ channel \in Channel
      /\ (exact => Coupled(counter, channel)) /\ T!MirrorInStep
  BY DEF TimerInv, T!CountersFit
<1>2. ASSUME NEW mode \in 0..3, NEW latch \in 1..3, T!ControlWord(mode, latch) PROVE TimerInv'
  <2>1. counter' \in Counter /\ channel' \in Channel /\ Agreed(counter', channel')
    BY <1>1, <1>2, ControlKeeps DEF T!ControlWord
  <2>2. T!MirrorInStep'
    BY <1>2 DEF T!ControlWord, T!NoSample, T!MirrorInStep
  <2> QED BY <2>1, <2>2 DEF TimerInv, Coupled
<1>3. ASSUME T!LatchCommand PROVE TimerInv'
  <2>1. counter' \in Counter /\ channel' \in Channel /\ (exact' => Coupled(counter', channel'))
    BY <1>1, <1>3, LatchKeeps DEF T!LatchCommand
  <2>2. T!MirrorInStep'
    BY <1>1, <1>3 DEF T!LatchCommand, T!MirrorInStep
  <2> QED BY <2>1, <2>2 DEF TimerInv
<1>4. ASSUME NEW b \in Bytes, T!WriteCounter(b) PROVE TimerInv'
  <2>1. b \in Nat
    BY DEF T!CountersFit
  <2>2. counter' \in Counter
    BY <1>1, <1>4, <2>1, WriteValueFacts DEF T!WriteCounter
  <2>3. channel' \in Channel /\ channel'.mode = channel.mode
    BY <1>1, <1>4, <2>1, WriteChannelFacts DEF T!WriteCounter
  <2>4. ASSUME exact' PROVE Agreed(counter', channel')
    <3>1. exact /\ T!Reproduced(counter, T!WriteValue(counter, b))
      BY <1>4, <2>4 DEF T!WriteCounter
    <3>2. ~Ahead(counter, channel)
      <4> SUFFICES ASSUME Ahead(counter, channel) PROVE FALSE
        OBVIOUS
      <4>1. PICK w \in Counter :
              /\ Agreed(w, channel) /\ Active(w) /\ w.mode \in {0, 3} /\ w.delay = 0
              /\ AheadOf(counter, w)
        BY DEF Ahead
      <4>2. counter.delay = 1 /\ counter.enabled
        BY <1>1, <4>1, AheadClock
      <4>3. channel.delay = 0
        BY <4>1 DEF Agreed
      <4> QED BY <3>1, <4>2, <4>3 DEF T!Reproduced
    <3>3. Agreed(counter, channel)
      BY <1>1, <3>1, <3>2 DEF Coupled
    <3>4. Agreed(T!WriteValue(counter, b), T!WriteChannel(channel, b))
      BY <1>1, <2>1, <3>1, <3>3, WriteKeeps
    <3> QED BY <1>4, <3>4 DEF T!WriteCounter
  <2>5. T!MirrorInStep'
    BY <1>1, <1>4, <2>3 DEF T!WriteCounter, T!MirrorInStep
  <2> QED BY <2>2, <2>3, <2>4, <2>5 DEF TimerInv, Coupled
<1>5. ASSUME T!ReadCounter PROVE TimerInv'
  <2>1. counter' \in Counter /\ channel' \in Channel /\ (exact' => Coupled(counter', channel'))
    BY <1>1, <1>5, ReadKeeps DEF T!ReadCounter
  <2>2. T!MirrorInStep'
    BY <1>1, <1>5 DEF T!ReadCounter, T!MirrorInStep
  <2> QED BY <2>1, <2>2 DEF TimerInv
<1>6. ASSUME NEW dt \in SampleLengths, T!Sample(dt) PROVE TimerInv'
  <2> DEFINE h == T!Integrate(channel, dt)
             x == After(counter, dt)
             k == Highs(counter, dt)
             missed == IF channel.delay < dt THEN channel.delay * channel.out ELSE 0
  <2>1. dt \in Nat /\ dt > 0
    BY DEF T!CountersFit
  <2>2. exact /\ exact' = exact /\ channel' = h.ch
    BY <1>6 DEF T!Sample
  <2>3. counter' = [x EXCEPT !.high = 0]
        /\ sample' = [heard |-> h.high, due |-> k, missed |-> missed,
                      before |-> channel.out, level |-> h.ch.out, goal |-> x.out]
    BY <1>6 DEF T!Sample, After, Highs
  <2>4. /\ InStep(counter, channel, dt)
        /\ Coupled([x EXCEPT !.high = 0], h.ch)
        /\ [x EXCEPT !.high = 0] \in Counter
    BY <1>1, <2>1, <2>2, SampleKeeps
  <2>5. h.ch \in Channel /\ h.ch.mode = channel.mode /\ h.high \in Int
        /\ Agreed(x, h.ch) /\ k = h.high + Slack(channel, dt, h.ch.out)
    BY <2>4, Zenon DEF InStep
  <2> HIDE DEF h, x, k
  <2>6. x.out = h.ch.out /\ h.ch.out \in Int /\ channel.out \in Int
    BY <1>1, <2>5 DEF Agreed, Channel
  <2> DEFINE edge == IF channel.mode = 3 THEN h.ch.out - channel.out ELSE 0
  <2>7. Slack(channel, dt, h.ch.out) = missed + edge
    BY Zenon DEF Slack
  <2>8. missed \in Int /\ edge \in Int
    <3>1. channel.delay * channel.out \in Int
      BY <1>1 DEF Channel
    <3> QED BY <2>6, <3>1
  <2> HIDE DEF missed
  <2>9. T!MirrorInStep'
    <3>1. channel'.mode = channel.mode
      BY <2>2, <2>5
    <3>2. /\ sample'.level = sample'.goal /\ sample'.due = k /\ sample'.heard = h.high
          /\ sample'.missed = missed /\ sample'.goal = h.ch.out /\ sample'.before = channel.out
      BY <2>3, <2>6
    <3>3. k = h.high + missed + edge
      <4> HIDE DEF edge
      <4> QED BY <2>5, <2>7, <2>8
    <3> QED BY <3>1, <3>2, <3>3 DEF T!MirrorInStep
  <2> QED BY <2>2, <2>3, <2>4, <2>5, <2>9 DEF TimerInv
<1>7. CASE UNCHANGED T!vars
  BY <1>1, <1>7 DEF TimerInv, T!vars, T!MirrorInStep
<1>8. CASE T!Next
  BY <1>2, <1>3, <1>4, <1>5, <1>6, <1>8 DEF T!Next
<1> QED BY <1>7, <1>8

(* Whatever the program writes, reads and latches, and for whatever lengths of *)
(* samples, the mirror integrate_timer() advances sample by sample ends each   *)
(* at the level of a counter clocked one by one, and is high in it for as many *)
(* clocks but for the two slips: as long as the writes are those it reproduces *)
(* the two never drift apart.                                                  *)
THEOREM MirrorStaysInStep ==
  ASSUME T!CountersFit, Clocked = TRUE
  PROVE  T!Spec => []T!MirrorInStep
<1>1. TimerInv => T!MirrorInStep
  BY DEF TimerInv
<1> QED BY <1>1, TimerInvStarts, TimerInvSteps, PTL DEF T!Spec

=============================================================================
