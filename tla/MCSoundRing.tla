---------------------------- MODULE MCSoundRing -----------------------------
(***************************************************************************)
(* SoundRing at the code's scale, and its closed form of the callback's    *)
(* loop against the loop itself.                                           *)
(***************************************************************************)
EXTENDS SoundRing

Ms(t) == (44100 * t) \div 1000
Default == {Ms(40)}
Usual   == {Ms(40), Ms(60)}
Longest == {Ms(150)}

(* The loop of sound.cpp 185-321 itself: what n output frames do to the     *)
(* reader, one at a time.                                                   *)
OneFrame(wr, step, r) ==
  IF r.frame >= wr
  THEN [frame |-> Anchor(wr), frac |-> 0, padded |-> r.padded + 1]
  ELSE Advanced(r.frame, r.frac + step, r.padded)

Loop(wr, frame, frac, step, n) ==
  LET after[k \in 0..n] == IF k = 0 THEN [frame |-> frame, frac |-> frac, padded |-> 0]
                           ELSE OneFrame(wr, step, after[k - 1])
  IN  after[n]

ASSUME ClosedForm ==
  \A wr \in {0, 1, 2, 7}, step \in {STEP_MIN, STEP_ONE - 1, STEP_ONE, STEP_MAX} :
    \A frame \in 0..wr + 1, frac \in {0, 1, 20000, 65535}, n \in 1..12 :
      Consumed(wr, frame, frac, step, n) = Loop(wr, frame, frac, step, n)
=============================================================================
