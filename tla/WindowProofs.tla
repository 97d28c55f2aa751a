----------------------------- MODULE WindowProofs -----------------------------
(***************************************************************************)
(* The windows over the game and what is under them: the file behind the   *)
(* Config window, for any keys, values and files of the user's that fit;   *)
(* the panel of the ROM Browser, for any number of rows, any list and any  *)
(* pictures, and however the steps of the two threads fall between each    *)
(* other; and the Game Center's session with the network.                  *)
(*                                                                         *)
(* config_set_value() writes a text that may be shorter than the file, and *)
(* what is left at the end of the file is read back as lines.  The longest *)
(* part of the proof says what those lines can be: an end of the file that *)
(* is no longer than the shortest line of an option holds no option, and   *)
(* no change makes one that does (Calm), as it only gets at a part of a    *)
(* line without its key.                                                   *)
(*                                                                         *)
(* The display thread reads the window without a lock while the worker     *)
(* changes it, so a panel may mix two states of it. Painting says why that *)
(* is never taken for the current one: the sequence number is read before  *)
(* the first row and a change raises it after its last step, so the two    *)
(* numbers agree only when no change came in between.                      *)
(***************************************************************************)
EXTENDS ConfigFile, SequenceTheorems, FiniteSetTheorems, NumberLemmas, TLAPS

\* A set of sequences that is closed under appending has them all.
LEMMA SeqInduction ==
  ASSUME NEW S, NEW T, <<>> \in T,
         \A s \in Seq(S), e \in S : s \in T => Append(s, e) \in T
  PROVE  \A s \in Seq(S) : s \in T
<1> SUFFICES ASSUME NEW s \in Seq(S) PROVE s \in T
  OBVIOUS
<1> DEFINE n == Len(s)
           U == {i \in 0..n : SubSeq(s, 1, i) \in T}
<1>1. n \in Nat /\ SubSeq(s, 1, n) = s
  BY SubSeqFull
<1>2. 0 \in U
  <2>1. SubSeq(s, 1, 0) = <<>> /\ 0 \in 0..n
    BY <1>1, SubSeqEmpty
  <2>2. SubSeq(s, 1, 0) \in T
    BY <2>1
  <2> HIDE DEF n
  <2> QED BY <2>1, <2>2
<1>3. ASSUME NEW i \in Nat, i < n, i \in U PROVE i + 1 \in U
  <2>1. i + 1 \in 1..n /\ s[i + 1] \in S
    BY <1>3
  <2>2. SubSeq(s, 1, i) \in Seq(S)
    BY <1>3
  <2>3. SubSeq(s, 1, i + 1) = Append(SubSeq(s, 1, i), s[i + 1])
    <3>1. Len(SubSeq(s, 1, i)) = i /\ Len(SubSeq(s, 1, i + 1)) = i + 1
      BY <1>3
    <3>2. SubSeq(s, 1, i + 1) \in Seq(S) /\ Append(SubSeq(s, 1, i), s[i + 1]) \in Seq(S)
      BY <1>3, <2>1, <2>2
    <3>3. Len(Append(SubSeq(s, 1, i), s[i + 1])) = i + 1
      BY <2>1, <2>2, <3>1
    <3>4. ASSUME NEW j \in 1..(i + 1)
          PROVE  SubSeq(s, 1, i + 1)[j] = Append(SubSeq(s, 1, i), s[i + 1])[j]
      BY <1>3, <2>1, <2>2, <3>1
    <3> QED BY <3>1, <3>2, <3>3, <3>4, SeqEqual
  <2>4. SubSeq(s, 1, i + 1) \in T
    BY <1>3, <2>1, <2>2, <2>3
  <2> QED BY <2>1, <2>4
<1>4. n \in U
  <2> HIDE DEF U, n
  <2>1. \A i \in 0..n : i \in U
    BY <1>1, <1>2, <1>3, SetInduction
  <2> QED BY <1>1, <2>1
<1> QED BY <1>1, <1>4

-----------------------------------------------------------------------------
(* Texts and their lines                                                     *)

Plain == Seq(Marks)
Texts == Seq(Marks \union {NL})
Pages == Seq(Plain)

\* A text is its lines one after the other, each with an end of line.
LEMMA TextNone == Text(<<>>) = <<>>
  BY DEF Text, FlattenSeq

LEMMA TextSteps ==
  ASSUME NEW lines \in Pages, lines # <<>>
  PROVE  \E f \in [1..Len(lines) -> Texts] :
           /\ Text(lines) = f[Len(lines)]
           /\ \A i \in 1..Len(lines) :
                f[i] = (IF i = 1 THEN <<>> ELSE f[i - 1]) \o Append(lines[i], NL)
<1> DEFINE n == Len(lines)
           seqs == [i \in DOMAIN lines |-> Append(lines[i], NL)]
           Rule(f) == [i \in 1..n |-> IF i = 1 THEN seqs[i] ELSE f[i - 1] \o seqs[i]]
           D == [p \in Texts \X (1..n) |-> p[1] \o seqs[p[2]]]
<1>1. n \in Nat /\ n # 0 /\ DOMAIN lines = 1..n
  BY EmptySeq DEF Pages
<1>2. \A i \in 1..n : seqs[i] = Append(lines[i], NL) /\ seqs[i] \in Texts
  <2> SUFFICES ASSUME NEW i \in 1..n PROVE Append(lines[i], NL) \in Texts
    BY <1>1
  <2>1. lines[i] \in Seq(Marks)
    BY ElementOfSeq DEF Pages, Plain
  <2>2. lines[i] \in Texts
    BY <2>1, SeqMonotonic DEF Texts
  <2> QED BY <2>2, AppendProperties DEF Texts
<1>3. /\ D \in [Texts \X (1..n) -> Texts]
      /\ \A q \in Texts, i \in 1..n : D[<<q, i>>] = q \o seqs[i]
  <2> HIDE DEF seqs, n
  <2>1. \A q \in Texts, i \in 1..n : q \o seqs[i] \in Texts
    BY <1>2, ConcatProperties DEF Texts
  <2> QED BY <2>1
<1>4. <<>> \in Texts
  BY DEF Texts
<1>5. Text(lines) = (CHOOSE g : g = Rule(g))[n]
  <2>1. Len(seqs) = n
    BY <1>1
  <2>2. FlattenSeq(seqs) = (CHOOSE g : g = [i \in 1..Len(seqs) |->
             IF i = 1 THEN seqs[i] ELSE g[i - 1] \o seqs[i]])[Len(seqs)]
    BY <1>1, <2>1, Zenon DEF FlattenSeq
  <2> QED BY <2>1, <2>2 DEF Text
<1> HIDE DEF D, n, seqs
<1>6. PICK h \in [0..n -> Texts] : Follows(h, n, <<>>, D)
  <2> DEFINE c == <<>>
  <2>1. c \in Texts
    BY <1>4
  <2> HIDE DEF c
  <2>2. \E h \in [0..n -> Texts] : Follows(h, n, c, D)
    BY <1>1, <1>3, <2>1, RecursionHasFunction
  <2> QED BY <2>2 DEF c
<1> DEFINE f == [i \in 1..n |-> h[i]]
<1>7. f = Rule(f)
  <2>1. ASSUME NEW i \in 1..n
        PROVE  f[i] = IF i = 1 THEN seqs[i] ELSE f[i - 1] \o seqs[i]
    <3>1. i - 1 \in 0..n /\ h[i - 1] \in Texts
      BY <1>1
    <3>2. h[i] = h[i - 1] \o seqs[i]
      BY <1>3, <1>6, <3>1 DEF Follows
    <3>3. CASE i = 1
      <4>1. h[i - 1] = <<>>
        BY <1>6, <3>3 DEF Follows
      <4> QED BY <1>2, <3>2, <3>3, <4>1, ConcatEmptySeq DEF Texts
    <3>4. CASE i # 1
      <4>1. i - 1 \in 1..n
        BY <1>1, <3>4
      <4> QED BY <3>2, <3>4, <4>1
    <3> QED BY <3>3, <3>4
  <2> QED BY <2>1
<1> DEFINE filled == CHOOSE g : g = Rule(g)
<1>8. filled = Rule(filled)
  BY <1>7, Zenon
<1>9. Text(lines) = filled[n]
  BY <1>5
<1>10. /\ DOMAIN filled = 1..n
       /\ \A i \in 1..n : filled[i] = (IF i = 1 THEN <<>> ELSE filled[i - 1]) \o seqs[i]
  <2> HIDE DEF filled
  <2>1. \A i \in 1..n : <<>> \o seqs[i] = seqs[i]
    BY <1>2, ConcatEmptySeq DEF Texts
  <2> QED BY <1>8, <2>1
<1> HIDE DEF filled
<1> DEFINE T == {i \in 0..n : i = 0 \/ filled[i] \in Texts}
<1>11. 0 \in T
  BY <1>1
<1>12. ASSUME NEW i \in Nat, i < n, i \in T PROVE i + 1 \in T
  <2>1. i + 1 \in 1..n /\ (i + 1) - 1 = i
    BY <1>1, <1>12
  <2>2. (IF i + 1 = 1 THEN <<>> ELSE filled[i]) \in Texts
    BY <1>4, <1>12
  <2>3. filled[i + 1] = (IF i + 1 = 1 THEN <<>> ELSE filled[i]) \o seqs[i + 1]
    BY <1>10, <2>1
  <2>4. filled[i + 1] \in Texts
    BY <1>2, <2>1, <2>2, <2>3, ConcatProperties DEF Texts
  <2> QED BY <2>1, <2>4
<1>13. \A i \in 0..n : i \in T
  <2> HIDE DEF T
  <2> QED BY <1>1, <1>11, <1>12, SetInduction
<1>14. filled \in [1..n -> Texts]
  <2>1. \A i \in 1..n : i \in 0..n /\ i # 0
    BY <1>1
  <2>2. \A i \in 1..n : filled[i] \in Texts
    BY <1>13, <2>1
  <2>3. filled = [i \in 1..n |-> filled[i]]
    BY <1>8
  <2> QED BY <2>2, <2>3
<1> QED BY <1>2, <1>9, <1>10, <1>14 DEF n

LEMMA LineEnded ==
  ASSUME NEW x \in Plain
  PROVE  Append(x, NL) \in Texts /\ x \in Texts /\ Append(x, NL) # <<>>
<1>1. x \in Texts
  BY SeqMonotonic DEF Plain, Texts
<1> QED BY <1>1, AppendProperties DEF Texts

LEMMA TextAppend ==
  ASSUME NEW A \in Pages, NEW x \in Plain
  PROVE  Text(A) \in Texts /\ Text(Append(A, x)) = Text(A) \o Append(x, NL)
<1> DEFINE n == Len(A)
           B == Append(A, x)
           nl == Append(x, NL)
<1>1. /\ B \in Pages /\ B # <<>> /\ Len(B) = n + 1 /\ n \in Nat
      /\ B[n + 1] = x /\ \A i \in 1..n : B[i] = A[i]
  BY AppendProperties, LenProperties DEF Pages
<1>2. nl \in Texts
  BY LineEnded
<1> HIDE DEF B, nl, n
<1>3. PICK f \in [1..(n + 1) -> Texts] :
        /\ Text(B) = f[n + 1]
        /\ \A i \in 1..(n + 1) : f[i] = (IF i = 1 THEN <<>> ELSE f[i - 1]) \o Append(B[i], NL)
  <2>1. \E f \in [1..Len(B) -> Texts] :
          /\ Text(B) = f[Len(B)]
          /\ \A i \in 1..Len(B) : f[i] = (IF i = 1 THEN <<>> ELSE f[i - 1]) \o Append(B[i], NL)
    BY <1>1, TextSteps
  <2> QED BY <1>1, <2>1
<1>4. CASE A = <<>>
  <2>1. n = 0 /\ Text(A) = <<>>
    BY <1>4, TextNone, EmptySeq DEF n
  <2>2. f[1] = <<>> \o nl
    BY <1>1, <1>3, <2>1 DEF nl
  <2>3. <<>> \in Texts
    BY DEF Texts
  <2> QED BY <1>3, <2>1, <2>2, <2>3 DEF B, nl
<1>5. CASE A # <<>>
  <2>1. n > 0
    BY <1>5, EmptySeq DEF n, Pages
  <2>2. PICK g \in [1..n -> Texts] :
          /\ Text(A) = g[n]
          /\ \A i \in 1..n : g[i] = (IF i = 1 THEN <<>> ELSE g[i - 1]) \o Append(A[i], NL)
    BY <1>5, TextSteps DEF n
  <2> DEFINE T == {i \in 0..n : i = 0 \/ f[i] = g[i]}
  <2>3. 0 \in T
    BY <1>1
  <2>4. ASSUME NEW i \in Nat, i < n, i \in T PROVE i + 1 \in T
    <3>1. i + 1 \in 1..n /\ i + 1 \in 1..(n + 1) /\ (i + 1) - 1 = i /\ B[i + 1] = A[i + 1]
      BY <1>1, <2>4
    <3>2. f[i + 1] = (IF i + 1 = 1 THEN <<>> ELSE f[i]) \o Append(A[i + 1], NL)
      BY <1>3, <3>1
    <3>3. g[i + 1] = (IF i + 1 = 1 THEN <<>> ELSE g[i]) \o Append(A[i + 1], NL)
      BY <2>2, <3>1
    <3>4. CASE i = 0
      BY <3>1, <3>2, <3>3, <3>4
    <3>5. CASE i # 0
      <4>1. f[i] = g[i]
        BY <2>4, <3>5
      <4>2. f[i + 1] = f[i] \o Append(A[i + 1], NL) /\ g[i + 1] = g[i] \o Append(A[i + 1], NL)
        <5>1. i + 1 # 1
          BY <3>5
        <5> QED BY <3>2, <3>3, <5>1, Zenon
      <4>3. f[i + 1] = g[i + 1]
        BY <4>1, <4>2, Zenon
      <4>4. i + 1 \in 0..n
        BY <1>1, <3>1
      <4> QED BY <4>3, <4>4
    <3> QED BY <3>4, <3>5
  <2>5. n \in T
    <3> HIDE DEF T
    <3>1. \A i \in 0..n : i \in T
      BY <1>1, <2>3, <2>4, SetInduction
    <3> QED BY <1>1, <3>1
  <2>6. f[n] = g[n] /\ g[n] \in Texts
    BY <1>1, <2>1, <2>5
  <2>7. f[n + 1] = f[n] \o nl
    <3>1. n + 1 \in 1..(n + 1) /\ n + 1 # 1 /\ (n + 1) - 1 = n
      BY <1>1, <2>1
    <3> QED BY <1>1, <1>3, <3>1 DEF nl
  <2> QED BY <1>3, <2>2, <2>6, <2>7 DEF B, nl
<1> QED BY <1>4, <1>5

\* A text of lines A and then B is the two texts.
LEMMA TextConcat ==
  ASSUME NEW A \in Pages, NEW B \in Pages
  PROVE  Text(A \o B) = Text(A) \o Text(B)
<1> DEFINE T == {C \in Pages : Text(A \o C) = Text(A) \o Text(C)}
<1>1. <<>> \in T
  <2>1. Text(A) \o <<>> = Text(A) /\ A \o <<>> = A /\ <<>> \in Pages
    BY TextAppend, ConcatEmptySeq, LineEnded DEF Texts, Pages, Plain
  <2> QED BY <2>1, TextNone
<1>2. ASSUME NEW C \in Pages, NEW x \in Plain, C \in T PROVE Append(C, x) \in T
  <2> DEFINE nl == Append(x, NL)
  <2>1. Append(C, x) \in Pages
    BY AppendProperties DEF Pages
  <2>2. A \o Append(C, x) = Append(A \o C, x)
    <3>1. <<x>> \in Pages /\ Append(C, x) = C \o <<x>>
      BY AppendIsConcat DEF Pages
    <3>2. A \o C \in Pages /\ Append(A \o C, x) = (A \o C) \o <<x>>
      BY ConcatProperties, AppendIsConcat DEF Pages
    <3> QED BY <3>1, <3>2, ConcatAssociative DEF Pages
  <2>3. A \o C \in Pages
    BY ConcatProperties DEF Pages
  <2>4. nl \in Texts /\ Text(A) \in Texts /\ Text(C) \in Texts
    BY LineEnded, TextAppend
  <2>5. Text(Append(A \o C, x)) = Text(A \o C) \o nl /\ Text(Append(C, x)) = Text(C) \o nl
    BY <2>3, TextAppend
  <2>6. Text(A \o C) = Text(A) \o Text(C)
    BY <1>2
  <2> HIDE DEF nl
  <2>7. (Text(A) \o Text(C)) \o nl = Text(A) \o (Text(C) \o nl)
    BY <2>4, ConcatAssociative DEF Texts
  <2> QED BY <2>1, <2>2, <2>5, <2>6, <2>7
<1>3. \A C \in Seq(Plain) : C \in T
  <2> HIDE DEF T
  <2> QED BY <1>1, <1>2, SeqInduction DEF Pages
<1> QED BY <1>3 DEF Pages

-----------------------------------------------------------------------------
(* The loop over a text                                                      *)

Read == [done : Pages, line : Plain]
Start == [done |-> <<>>, line |-> <<>>]

LEMMA TakeType ==
  ASSUME NEW r \in Read, NEW c \in Marks \union {NL}
  PROVE  Take(r, c) \in Read
<1>1. r.done \in Pages /\ r.line \in Plain /\ r = [done |-> r.done, line |-> r.line]
  BY DEF Read
<1>2. Append(r.done, r.line) \in Pages
  BY <1>1, AppendProperties DEF Pages
<1>3. c # NL => Append(r.line, c) \in Plain
  BY <1>1, AppendProperties DEF Plain
<1>4. <<>> \in Plain
  BY DEF Plain
<1> QED BY <1>1, <1>2, <1>3, <1>4 DEF Take, Read

LEMMA ReadingSteps ==
  ASSUME NEW text \in Texts
  PROVE  \E f \in [0..Len(text) -> Read] :
           /\ f[0] = Start /\ Reading(text) = f[Len(text)]
           /\ \A i \in 1..Len(text) : f[i] = Take(f[i - 1], text[i])
<1> DEFINE n == Len(text)
           Rule(f) == [i \in 0..n |->
                         IF i = 0 THEN [done |-> <<>>, line |-> <<>>] ELSE Take(f[i - 1], text[i])]
           D == [p \in Read \X (1..n) |-> Take(p[1], text[p[2]])]
<1>1. n \in Nat /\ \A i \in 1..n : text[i] \in Marks \union {NL}
  BY LenProperties, ElementOfSeq DEF Texts
<1>2. Start \in Read
  BY DEF Start, Read, Pages, Plain
<1>3. /\ D \in [Read \X (1..n) -> Read]
      /\ \A q \in Read, i \in 1..n : D[<<q, i>>] = Take(q, text[i])
  <2>1. \A q \in Read, i \in 1..n : Take(q, text[i]) \in Read
    BY <1>1, TakeType
  <2> HIDE DEF n
  <2> QED BY <2>1
<1> HIDE DEF D, n
<1>4. PICK f \in [0..n -> Read] : Follows(f, n, Start, D)
  BY <1>1, <1>2, <1>3, RecursionHasFunction
<1>5. f = Rule(f)
  <2>1. ASSUME NEW i \in 0..n
        PROVE  f[i] = IF i = 0 THEN Start ELSE Take(f[i - 1], text[i])
    <3>1. CASE i = 0
      BY <1>4, <3>1 DEF Follows
    <3>2. CASE i # 0
      <4>1. i \in 1..n /\ i - 1 \in 0..n
        BY <1>1, <3>2
      <4>2. f[i - 1] \in Read /\ f[i] = D[<<f[i - 1], i>>]
        BY <1>4, <4>1 DEF Follows
      <4> QED BY <1>3, <3>2, <4>1, <4>2
    <3> QED BY <3>1, <3>2
  <2> QED BY <2>1 DEF Start
<1> DEFINE filled == CHOOSE g : g = Rule(g)
<1>6. filled = Rule(filled)
  BY <1>5, Zenon
<1>7. Reading(text) = filled[n]
  BY Zenon DEF Reading, n
<1>8. \A i \in 0..n : filled[i] = IF i = 0 THEN Start ELSE Take(filled[i - 1], text[i])
  <2> HIDE DEF filled
  <2> QED BY <1>6 DEF Start
<1>9. filled = [i \in 0..n |-> filled[i]]
  BY <1>6 DEF filled
<1> HIDE DEF filled
<1> DEFINE T == {i \in 0..n : filled[i] \in Read}
<1>10. 0 \in T
  BY <1>1, <1>2, <1>8
<1>11. ASSUME NEW i \in Nat, i < n, i \in T PROVE i + 1 \in T
  <2>1. i + 1 \in 1..n /\ i + 1 \in 0..n /\ (i + 1) - 1 = i /\ i + 1 # 0
    BY <1>1, <1>11
  <2>2. filled[i + 1] = Take(filled[i], text[i + 1])
    BY <1>8, <2>1
  <2>3. filled[i + 1] \in Read
    BY <1>1, <1>11, <2>1, <2>2, TakeType
  <2> QED BY <2>1, <2>3
<1>12. \A i \in 0..n : i \in T
  <2> HIDE DEF T
  <2> QED BY <1>1, <1>10, <1>11, SetInduction
<1>13. filled \in [0..n -> Read]
  BY <1>9, <1>12
<1>14. filled[0] = Start /\ \A i \in 1..n : filled[i] = Take(filled[i - 1], text[i])
  <2>1. 0 \in 0..n /\ \A i \in 1..n : i \in 0..n /\ i # 0
    BY <1>1
  <2> QED BY <1>8, <2>1
<1> QED BY <1>7, <1>13, <1>14 DEF n

LEMMA ReadingNone == Reading(<<>>) = Start
<1> DEFINE text == <<>>
<1>1. text \in Texts /\ Len(text) = 0
  BY EmptySeq DEF Texts
<1> HIDE DEF text
<1>2. Reading(text) = Start
  <2>1. PICK f \in [0..Len(text) -> Read] : f[0] = Start /\ Reading(text) = f[Len(text)]
    BY <1>1, ReadingSteps
  <2> QED BY <1>1, <2>1
<1> QED BY <1>2 DEF text

LEMMA ReadingAppend ==
  ASSUME NEW text \in Texts, NEW c \in Marks \union {NL}
  PROVE  Reading(text) \in Read /\ Reading(Append(text, c)) = Take(Reading(text), c)
<1> DEFINE n == Len(text)
           more == Append(text, c)
<1>1. /\ more \in Texts /\ Len(more) = n + 1 /\ n \in Nat
      /\ more[n + 1] = c /\ \A i \in 1..n : more[i] = text[i]
  BY AppendProperties, LenProperties DEF Texts
<1> HIDE DEF more
<1>2. PICK f \in [0..n -> Read] :
        /\ f[0] = Start /\ Reading(text) = f[n]
        /\ \A i \in 1..n : f[i] = Take(f[i - 1], text[i])
  BY ReadingSteps
<1> HIDE DEF n
<1>3. PICK g \in [0..(n + 1) -> Read] :
        /\ g[0] = Start /\ Reading(more) = g[n + 1]
        /\ \A i \in 1..(n + 1) : g[i] = Take(g[i - 1], more[i])
  <2>1. \E g \in [0..Len(more) -> Read] :
          /\ g[0] = Start /\ Reading(more) = g[Len(more)]
          /\ \A i \in 1..Len(more) : g[i] = Take(g[i - 1], more[i])
    BY <1>1, ReadingSteps
  <2> QED BY <1>1, <2>1
<1> DEFINE T == {i \in 0..n : f[i] = g[i]}
<1>4. 0 \in T
  BY <1>1, <1>2, <1>3
<1>5. ASSUME NEW i \in Nat, i < n, i \in T PROVE i + 1 \in T
  <2>1. /\ i + 1 \in 1..n /\ i + 1 \in 1..(n + 1) /\ i + 1 \in 0..n
        /\ (i + 1) - 1 = i /\ more[i + 1] = text[i + 1]
    BY <1>1, <1>5
  <2>2. f[i + 1] = Take(f[i], text[i + 1]) /\ g[i + 1] = Take(g[i], text[i + 1])
    BY <1>2, <1>3, <2>1
  <2>3. f[i] = g[i]
    BY <1>5
  <2>4. f[i + 1] = g[i + 1]
    BY <2>2, <2>3, Zenon
  <2> QED BY <2>1, <2>4
<1>6. f[n] = g[n]
  <2> HIDE DEF T
  <2>1. \A i \in 0..n : i \in T
    BY <1>1, <1>4, <1>5, SetInduction
  <2>2. n \in T
    BY <1>1, <2>1
  <2> QED BY <2>2 DEF T
<1>7. g[n + 1] = Take(g[n], c)
  <2>1. n + 1 \in 1..(n + 1) /\ (n + 1) - 1 = n
    BY <1>1
  <2> QED BY <1>1, <1>3, <2>1
<1>8. f[n] \in Read
  BY <1>1, <1>2
<1> QED BY <1>2, <1>3, <1>6, <1>7, <1>8 DEF more

LEMMA ConcatAppend ==
  ASSUME NEW S, NEW s \in Seq(S), NEW t \in Seq(S), NEW e \in S
  PROVE  s \o Append(t, e) = Append(s \o t, e) /\ s \o t \in Seq(S)
<1>1. <<e>> \in Seq(S) /\ Append(t, e) = t \o <<e>>
  BY AppendIsConcat
<1>2. s \o t \in Seq(S)
  BY ConcatProperties
<1>3. Append(s \o t, e) = (s \o t) \o <<e>>
  BY <1>2, AppendIsConcat
<1> QED BY <1>1, <1>2, <1>3, ConcatAssociative

LEMMA TextsAssociative ==
  ASSUME NEW s \in Texts, NEW t \in Texts, NEW u \in Texts
  PROVE  (s \o t) \o u = s \o (t \o u)
  BY ConcatAssociative DEF Texts

LEMMA TextsAppend ==
  ASSUME NEW s \in Texts, NEW t \in Texts, NEW c \in Marks \union {NL}
  PROVE  s \o Append(t, c) = Append(s \o t, c) /\ Append(t, c) \in Texts
  BY ConcatAppend, AppendProperties DEF Texts

\* A line without an end stays the line the loop is in.
LEMMA ReadingPlain ==
  ASSUME NL \notin Marks, NEW text \in Texts, NEW A \in Pages, NEW x \in Plain,
         Reading(text) = [done |-> A, line |-> <<>>]
  PROVE  Reading(text \o x) = [done |-> A, line |-> x]
<1> DEFINE T == {y \in Plain : Reading(text \o y) = [done |-> A, line |-> y]}
<1>1. <<>> \in T
  <2>1. text \o <<>> = text /\ <<>> \in Plain
    BY ConcatEmptySeq DEF Texts, Plain
  <2> QED BY <2>1
<1>2. ASSUME NEW y \in Plain, NEW c \in Marks, y \in T PROVE Append(y, c) \in T
  <2>1. y \in Texts /\ Append(y, c) \in Plain /\ c # NL
    BY LineEnded, AppendProperties DEF Plain
  <2>2. text \o Append(y, c) = Append(text \o y, c) /\ text \o y \in Texts
    BY <2>1, ConcatAppend DEF Texts
  <2>3. Reading(Append(text \o y, c)) = Take(Reading(text \o y), c)
    BY <2>2, ReadingAppend
  <2>4. Reading(text \o y) = [done |-> A, line |-> y]
    BY <1>2
  <2>5. Take([done |-> A, line |-> y], c) = [done |-> A, line |-> Append(y, c)]
    BY <2>1 DEF Take
  <2> QED BY <2>1, <2>2, <2>3, <2>4, <2>5
<1>3. \A y \in Seq(Marks) : y \in T
  <2> HIDE DEF T
  <2> QED BY <1>1, <1>2, SeqInduction DEF Plain
<1> QED BY <1>3 DEF Plain

\* The loop reads back the lines a text was made of.
LEMMA ReadingText ==
  ASSUME NL \notin Marks, NEW A \in Pages, NEW x \in Plain
  PROVE  Reading(Text(A) \o x) = [done |-> A, line |-> x]
<1> DEFINE T == {B \in Pages : Reading(Text(B)) = [done |-> B, line |-> <<>>]}
<1>1. <<>> \in T
  <2>1. <<>> \in Pages
    BY DEF Pages
  <2> QED BY <2>1, TextNone, ReadingNone DEF Start
<1>2. ASSUME NEW B \in Pages, NEW y \in Plain, B \in T PROVE Append(B, y) \in T
  <2>1. Append(B, y) \in Pages /\ y \in Texts /\ Text(B) \in Texts
    BY LineEnded, TextAppend, AppendProperties DEF Pages
  <2>2. Text(Append(B, y)) = Append(Text(B) \o y, NL) /\ Text(B) \o y \in Texts
    <3>1. Text(Append(B, y)) = Text(B) \o Append(y, NL)
      BY TextAppend
    <3>2. Text(B) \o Append(y, NL) = Append(Text(B) \o y, NL)
      BY <2>1, TextsAppend
    <3> QED BY <2>1, <3>1, <3>2, ConcatProperties DEF Texts
  <2>3. Reading(Text(B) \o y) = [done |-> B, line |-> y]
    BY <1>2, <2>1, ReadingPlain
  <2>4. Reading(Append(Text(B) \o y, NL)) = Take([done |-> B, line |-> y], NL)
    BY <2>2, <2>3, ReadingAppend
  <2>5. Take([done |-> B, line |-> y], NL) = [done |-> Append(B, y), line |-> <<>>]
    BY DEF Take
  <2> QED BY <2>1, <2>2, <2>4, <2>5
<1>3. \A B \in Seq(Plain) : B \in T
  <2> HIDE DEF T
  <2> QED BY <1>1, <1>2, SeqInduction DEF Pages
<1>4. Reading(Text(A)) = [done |-> A, line |-> <<>>] /\ Text(A) \in Texts
  BY <1>3, TextAppend DEF Pages
<1> QED BY <1>4, ReadingPlain

\* Every text is lines, and a line that may be without its end.
LEMMA TextIsLines ==
  ASSUME NL \notin Marks, NEW text \in Texts
  PROVE  \E A \in Pages, x \in Plain : text = Text(A) \o x
<1> DEFINE T == {t \in Texts : \E A \in Pages, x \in Plain : t = Text(A) \o x}
<1>1. <<>> \in T
  <2>1. <<>> \in Pages /\ <<>> \in Plain /\ <<>> \in Texts /\ <<>> \o <<>> = <<>>
    BY ConcatEmptySeq DEF Pages, Plain, Texts
  <2> QED BY <2>1, TextNone
<1>2. ASSUME NEW t \in Texts, NEW c \in Marks \union {NL}, t \in T PROVE Append(t, c) \in T
  <2>1. PICK A \in Pages, x \in Plain : t = Text(A) \o x
    BY <1>2
  <2> HIDE DEF T
  <2>2. Text(A) \in Texts /\ x \in Texts /\ Append(t, c) \in Texts
    BY TextAppend, LineEnded, AppendProperties DEF Texts
  <2>3. Append(t, c) = Text(A) \o Append(x, c)
    <3>1. Append(Text(A) \o x, c) = Text(A) \o Append(x, c)
      <4> DEFINE a == Text(A)
      <4>1. a \in Texts /\ x \in Texts
        BY <2>2
      <4> HIDE DEF a
      <4>2. Append(a \o x, c) = a \o Append(x, c)
        BY <4>1, TextsAppend
      <4> QED BY <4>2 DEF a
    <3> QED BY <2>1, <3>1, Zenon
  <2>4. CASE c = NL
    <3>1. Append(A, x) \in Pages /\ <<>> \in Plain
      BY AppendProperties DEF Pages, Plain
    <3>2. Append(t, c) = Text(Append(A, x)) /\ Text(Append(A, x)) \in Texts
      BY <2>3, <2>4, <3>1, TextAppend
    <3>3. Append(t, c) = Text(Append(A, x)) \o <<>>
      BY <3>2, ConcatEmptySeq DEF Texts
    <3> QED BY <2>2, <3>1, <3>3 DEF T
  <2>5. CASE c # NL
    <3>1. Append(x, c) \in Plain
      BY <2>5, AppendProperties DEF Plain
    <3> QED BY <2>2, <2>3, <3>1 DEF T
  <2> QED BY <2>4, <2>5
<1>3. \A t \in Seq(Marks \union {NL}) : t \in T
  <2> HIDE DEF T
  <2> QED BY <1>1, <1>2, SeqInduction DEF Texts
<1> QED BY <1>3 DEF Texts

LEMMA LinesOfText ==
  ASSUME NL \notin Marks, NEW A \in Pages, NEW x \in Plain
  PROVE  /\ Lines(Text(A) \o x) = (IF x = <<>> THEN A ELSE Append(A, x))
         /\ Lines(Text(A)) = A
         /\ Lines(Text(A) \o x) \in Pages /\ Text(A) \o x \in Texts
<1>1. Reading(Text(A) \o x) = [done |-> A, line |-> x]
  BY ReadingText
<1>2. Lines(Text(A) \o x) = (IF x = <<>> THEN A ELSE Append(A, x))
  BY <1>1 DEF Lines
<1>3. Lines(Text(A)) = A
  <2>1. <<>> \in Plain /\ Text(A) \in Texts
    BY TextAppend, LineEnded DEF Plain
  <2>2. Text(A) \o <<>> = Text(A)
    BY <2>1, ConcatEmptySeq DEF Texts
  <2>3. Reading(Text(A)) = [done |-> A, line |-> <<>>]
    BY <2>1, <2>2, ReadingText
  <2> QED BY <2>3 DEF Lines
<1>4. Append(A, x) \in Pages
  BY AppendProperties DEF Pages
<1>5. Text(A) \o x \in Texts
  BY TextAppend, LineEnded, ConcatProperties DEF Texts
<1> QED BY <1>2, <1>3, <1>4, <1>5

\* What follows the lines of a text has lines of its own.
LEMMA LinesConcat ==
  ASSUME NL \notin Marks, NEW A \in Pages, NEW text \in Texts
  PROVE  Lines(Text(A) \o text) = A \o Lines(text) /\ Lines(text) \in Pages
<1>1. PICK B \in Pages, x \in Plain : text = Text(B) \o x
  BY TextIsLines
<1>2. Text(A) \in Texts /\ Text(B) \in Texts /\ x \in Texts /\ A \o B \in Pages
  BY TextAppend, LineEnded, ConcatProperties DEF Pages
<1>3. Text(A) \o text = Text(A \o B) \o x
  <2>1. Text(A \o B) = Text(A) \o Text(B)
    BY TextConcat
  <2>2. (Text(A) \o Text(B)) \o x = Text(A) \o (Text(B) \o x)
    BY <1>2, ConcatAssociative DEF Texts
  <2> QED BY <1>1, <2>1, <2>2
<1>4. Lines(Text(A) \o text) = (IF x = <<>> THEN A \o B ELSE Append(A \o B, x))
  BY <1>2, <1>3, LinesOfText
<1>5. Lines(text) = (IF x = <<>> THEN B ELSE Append(B, x)) /\ Lines(text) \in Pages
  BY <1>1, LinesOfText
<1>6. A \o Append(B, x) = Append(A \o B, x)
  BY ConcatAppend DEF Pages
<1> QED BY <1>4, <1>5, <1>6

-----------------------------------------------------------------------------
(* The ends of a text                                                        *)

EndOf(t, text) == t \in Texts /\ \E p \in Texts : text = p \o t

LEMMA CatType ==
  ASSUME NEW s \in Texts, NEW t \in Texts
  PROVE  s \o t \in Texts
  BY ConcatProperties DEF Texts

LEMMA TextLen ==
  ASSUME NEW s \in Texts
  PROVE  Len(s) \in Nat
  BY LenProperties DEF Texts

LEMMA CatLen ==
  ASSUME NEW s \in Texts, NEW t \in Texts
  PROVE  Len(s \o t) = Len(s) + Len(t)
  BY ConcatProperties DEF Texts

LEMMA CatLeft ==
  ASSUME NEW s \in Texts, NEW t \in Texts, NEW i \in 1..Len(s)
  PROVE  (s \o t)[i] = s[i]
  BY ConcatProperties, LenProperties DEF Texts

LEMMA CatRight ==
  ASSUME NEW s \in Texts, NEW t \in Texts, NEW i \in 1..Len(t)
  PROVE  (s \o t)[Len(s) + i] = t[i]
<1>1. Len(s) \in Nat /\ Len(t) \in Nat
  BY TextLen
<1>2. Len(s) + i \in 1..(Len(s) + Len(t)) /\ ~(Len(s) + i <= Len(s)) /\ (Len(s) + i) - Len(s) = i
  BY <1>1
<1>3. \A j \in 1..(Len(s) + Len(t)) : (s \o t)[j] = IF j <= Len(s) THEN s[j] ELSE t[j - Len(s)]
  BY ConcatProperties DEF Texts
<1> HIDE DEF Texts
<1>4. (s \o t)[Len(s) + i] = IF Len(s) + i <= Len(s) THEN s[Len(s) + i] ELSE t[(Len(s) + i) - Len(s)]
  BY <1>2, <1>3, Zenon
<1> QED BY <1>2, <1>4

LEMMA SameText ==
  ASSUME NEW s \in Texts, NEW t \in Texts, Len(s) = Len(t), \A i \in 1..Len(s) : s[i] = t[i]
  PROVE  s = t
  BY SeqEqual DEF Texts

\* Of two ends of a text the shorter is an end of the longer.
Ends(a, b, p, t) == p \o t = a \o b /\ Len(b) <= Len(t)
Between(a, b, p, t) == \E e \in Texts : t = e \o b /\ a = p \o e

LEMMA EndOfEnd ==
  ASSUME NEW a \in Texts, NEW b \in Texts, NEW p \in Texts, NEW t \in Texts, Ends(a, b, p, t)
  PROVE  Between(a, b, p, t)
<1> USE DEF Ends
<1> DEFINE m == Len(t) - Len(b)
           e == SubSeq(t, 1, m)
<1>1. Len(p) \in Nat /\ Len(t) \in Nat /\ Len(a) \in Nat /\ Len(b) \in Nat
  BY TextLen
<1>2. Len(p) + Len(t) = Len(a) + Len(b)
  BY CatLen
<1>3. m \in Nat /\ m <= Len(t) /\ Len(a) = Len(p) + m /\ Len(t) = m + Len(b)
  BY <1>1, <1>2
<1> HIDE DEF m
<1>4. e \in Texts /\ Len(e) = m /\ \A i \in 1..m : e[i] = t[i]
  <2>1. ASSUME NEW i \in 1..m PROVE t[i] \in Marks \union {NL}
    <3>1. i \in 1..Len(t)
      BY <1>1, <1>3
    <3> QED BY <3>1, ElementOfSeq DEF Texts
  <2>2. m \in Int /\ 1 \in Int /\ \A i \in 1..m : 1 + i - 1 = i
    BY <1>3
  <2>3. IF 1 <= m + 1 THEN m - 1 + 1 = m ELSE TRUE
    BY <1>3
  <2> QED BY <1>3, <2>1, <2>2, <2>3, SubSeqProperties DEF Texts
<1> HIDE DEF e
<1>5. t = e \o b
  <2>1. e \o b \in Texts /\ Len(e \o b) = Len(t)
    BY <1>3, <1>4, CatType, CatLen
  <2>2. ASSUME NEW i \in 1..Len(t) PROVE t[i] = (e \o b)[i]
    <3>1. CASE i <= m
      <4>1. i \in 1..m
        BY <3>1
      <4>2. i \in 1..Len(e)
        BY <1>4, <4>1
      <4> QED BY <1>4, <4>1, <4>2, CatLeft
    <3>2. CASE i > m
      <4> DEFINE j == i - m
      <4>1. /\ j \in 1..Len(b) /\ Len(e) + j = i /\ Len(p) + i = Len(a) + j
        BY <1>1, <1>3, <1>4, <3>2
      <4> HIDE DEF j
      <4>2. (e \o b)[Len(e) + j] = b[j]
        BY <4>1, CatRight
      <4>3. (p \o t)[Len(p) + i] = t[i]
        BY CatRight
      <4>4. (a \o b)[Len(a) + j] = b[j]
        BY <4>1, CatRight
      <4> QED BY <4>1, <4>2, <4>3, <4>4
    <3>3. i <= m \/ i > m
      BY <1>3
    <3> QED BY <3>1, <3>2, <3>3, Zenon
  <2> QED BY <2>1, <2>2, SameText
<1>6. a = p \o e
  <2>1. p \o e \in Texts /\ Len(p \o e) = Len(a)
    BY <1>3, <1>4, CatType, CatLen
  <2>2. ASSUME NEW i \in 1..Len(a) PROVE a[i] = (p \o e)[i]
    <3>1. (a \o b)[i] = a[i]
      BY CatLeft
    <3>2. CASE i <= Len(p)
      <4>1. i \in 1..Len(p)
        BY <3>2
      <4> QED BY <1>4, <3>1, <4>1, CatLeft
    <3>3. CASE i > Len(p)
      <4> DEFINE j == i - Len(p)
      <4>1. j \in 1..m /\ j \in 1..Len(t) /\ Len(p) + j = i
        BY <1>1, <1>3, <3>3
      <4> HIDE DEF j
      <4>2. (p \o t)[Len(p) + j] = t[j]
        BY <4>1, CatRight
      <4>3. (p \o e)[Len(p) + j] = e[j]
        BY <1>4, <4>1, CatRight
      <4> QED BY <1>4, <3>1, <4>1, <4>2, <4>3
    <3>4. i <= Len(p) \/ i > Len(p)
      BY <1>1
    <3> QED BY <3>2, <3>3, <3>4, Zenon
  <2> QED BY <2>1, <2>2, SameText
<1> QED BY <1>4, <1>5, <1>6 DEF Between

\* What SubSeq cuts off a text.
LEMMA Piece ==
  ASSUME NEW text \in Texts, NEW l \in Nat, NEW m \in Nat, l + m <= Len(text)
  PROVE  /\ SubSeq(text, l + 1, l + m) \in Texts /\ Len(SubSeq(text, l + 1, l + m)) = m
         /\ \A j \in 1..m : SubSeq(text, l + 1, l + m)[j] = text[l + j]
<1> DEFINE a == l + 1
           b == l + m
<1>1. Len(text) \in Nat
  BY TextLen
<1>2. ASSUME NEW j \in a..b PROVE text[j] \in Marks \union {NL}
  <2>1. j \in 1..Len(text)
    BY <1>1, <1>2
  <2> QED BY <2>1, ElementOfSeq DEF Texts
<1>3. a \in Int /\ b \in Int /\ b - a + 1 = m /\ (IF a <= b THEN b - a + 1 ELSE 0) = m
  OBVIOUS
<1>4. \A j \in 1..m : a + j - 1 = l + j
  OBVIOUS
<1> HIDE DEF a, b
<1>5. /\ SubSeq(text, a, b) \in Texts
      /\ Len(SubSeq(text, a, b)) = IF a <= b THEN b - a + 1 ELSE 0
      /\ \A j \in 1..(b - a + 1) : SubSeq(text, a, b)[j] = text[a + j - 1]
  BY <1>2, <1>3, SubSeqProperties DEF Texts
<1>6. /\ SubSeq(text, a, b) \in Texts /\ Len(SubSeq(text, a, b)) = m
      /\ \A j \in 1..m : SubSeq(text, a, b)[j] = text[l + j]
  BY <1>3, <1>4, <1>5
<1> QED BY <1>6 DEF a, b

LEMMA Split ==
  ASSUME NEW text \in Texts, NEW l \in Nat, l <= Len(text)
  PROVE  \E front \in Texts, back \in Texts :
           /\ text = front \o back /\ Len(front) = l
           /\ back = SubSeq(text, l + 1, Len(text)) /\ Len(back) = Len(text) - l
<1> DEFINE m == Len(text) - l
           front == SubSeq(text, 0 + 1, 0 + l)
           back == SubSeq(text, l + 1, l + m)
<1>1. m \in Nat /\ l + m = Len(text) /\ 0 + l <= Len(text) /\ Len(text) \in Nat
  BY TextLen
<1>2. front \in Texts /\ Len(front) = l /\ \A j \in 1..l : front[j] = text[0 + j]
  <2>1. \A z \in Nat : z + l <= Len(text) =>
           /\ SubSeq(text, z + 1, z + l) \in Texts /\ Len(SubSeq(text, z + 1, z + l)) = l
           /\ \A j \in 1..l : SubSeq(text, z + 1, z + l)[j] = text[z + j]
    BY Piece
  <2> QED BY <1>1, <2>1
<1>3. l + m <= Len(text)
  BY <1>1
<1>4. back \in Texts /\ Len(back) = m /\ \A j \in 1..m : back[j] = text[l + j]
  <2> HIDE DEF m
  <2> QED BY <1>1, <1>3, Piece
<1>5. back = SubSeq(text, l + 1, Len(text)) /\ Len(back) = Len(text) - l
  BY <1>1, <1>4
<1> HIDE DEF m, front, back
<1>6. front \o back \in Texts /\ Len(text) = Len(front \o back)
  BY <1>1, <1>2, <1>4, CatType, CatLen
<1>7. ASSUME NEW i \in 1..Len(text) PROVE text[i] = (front \o back)[i]
  <2>1. CASE i <= l
    <3>1. i \in 1..l /\ i \in 1..Len(front) /\ 0 + i = i
      BY <1>2, <2>1
    <3> QED BY <1>2, <1>4, <3>1, CatLeft
  <2>2. CASE i > l
    <3> DEFINE j == i - l
    <3>1. j \in 1..m /\ j \in 1..Len(back) /\ l + j = i
      BY <1>1, <1>4, <2>2
    <3> HIDE DEF j
    <3>2. (front \o back)[Len(front) + j] = back[j]
      BY <1>2, <1>4, <3>1, CatRight
    <3> QED BY <1>2, <1>4, <3>1, <3>2
  <2>3. i <= l \/ i > l
    BY <1>1
  <2> QED BY <2>1, <2>2, <2>3, Zenon
<1>8. text = front \o back
  BY <1>2, <1>4, <1>6, <1>7, CatType, SameText
<1> QED BY <1>2, <1>4, <1>5, <1>8

\* Every end is one that SubSeq cuts off.
LEMMA EndIsSubSeq ==
  ASSUME NEW p \in Texts, NEW t \in Texts
  PROVE  t = SubSeq(p \o t, Len(p) + 1, Len(p \o t))
<1> DEFINE text == p \o t
           l == Len(p)
<1>1. text \in Texts /\ Len(text) = l + Len(t) /\ l \in Nat /\ Len(t) \in Nat
  BY CatType, CatLen, TextLen
<1>2. l <= Len(text)
  BY <1>1
<1> HIDE DEF text, l
<1>3. PICK front \in Texts, back \in Texts :
           /\ text = front \o back /\ Len(front) = l
           /\ back = SubSeq(text, l + 1, Len(text)) /\ Len(back) = Len(text) - l
  BY <1>1, <1>2, Split
<1>4. Len(back) = Len(t)
  BY <1>1, <1>3
<1>5. ASSUME NEW i \in 1..Len(t) PROVE t[i] = back[i]
  <2>1. (p \o t)[Len(p) + i] = t[i]
    BY CatRight
  <2>2. i \in 1..Len(back)
    BY <1>4, <1>5
  <2>3. (front \o back)[Len(front) + i] = back[i]
    BY <2>2, CatRight
  <2> QED BY <1>3, <2>1, <2>3 DEF text, l
<1>6. t = back
  BY <1>4, <1>5, SameText
<1> QED BY <1>3, <1>6 DEF text, l

-----------------------------------------------------------------------------
(* Texts whose short ends hold no setting                                    *)

Calm(text) ==
  \A p \in Texts, t \in Texts : text = p \o t /\ Len(t) <= Shortest => Quiet(Lines(t))

LEMMA HarmlessIsCalm ==
  ASSUME NEW text \in Texts
  PROVE  HarmlessEnd(text) <=> Calm(text)
<1>1. Len(text) \in Nat
  BY TextLen
<1>2. Shortest = 3
  BY DEF Shortest, DefaultOption
<1>3. ASSUME HarmlessEnd(text), NEW p \in Texts, NEW t \in Texts,
             text = p \o t, Len(t) <= Shortest
      PROVE  Quiet(Lines(t))
  <2>1. Len(text) = Len(p) + Len(t) /\ Len(p) \in Nat /\ Len(t) \in Nat
    BY <1>3, CatLen, TextLen
  <2>2. t = SubSeq(text, Len(p) + 1, Len(text))
    BY <1>3, EndIsSubSeq
  <2>3. CASE Len(t) = 0
    <3>1. t = <<>>
      BY <2>3, EmptySeq DEF Texts
    <3>2. Lines(<<>>) = <<>>
      BY ReadingNone DEF Lines, Start
    <3> QED BY <3>1, <3>2 DEF Quiet
  <2>4. CASE Len(t) # 0
    <3> DEFINE i == Len(p) + 1
    <3>1. i \in 1..Len(text) /\ Len(text) - i < Shortest
      BY <1>2, <1>3, <2>1, <2>4
    <3> HIDE DEF i
    <3>2. Quiet(Lines(SubSeq(text, i, Len(text))))
      BY <1>3, <3>1 DEF HarmlessEnd
    <3> QED BY <2>2, <3>2 DEF i
  <2> QED BY <2>3, <2>4
<1>4. ASSUME Calm(text), NEW i \in 1..Len(text), Len(text) - i < Shortest
      PROVE  Quiet(Lines(SubSeq(text, i, Len(text))))
  <2> DEFINE l == i - 1
  <2>1. l \in Nat /\ l <= Len(text) /\ l + 1 = i /\ Len(text) - l <= Shortest
    BY <1>1, <1>2, <1>4
  <2> HIDE DEF l
  <2>2. PICK front \in Texts, back \in Texts :
           /\ text = front \o back /\ Len(front) = l
           /\ back = SubSeq(text, l + 1, Len(text)) /\ Len(back) = Len(text) - l
    BY <2>1, Split
  <2>3. Quiet(Lines(back))
    BY <1>4, <2>1, <2>2 DEF Calm
  <2> QED BY <2>1, <2>2, <2>3
<1> QED BY <1>3, <1>4 DEF Calm, HarmlessEnd

LEMMA QuietConcat ==
  ASSUME NEW A \in Pages, NEW B \in Pages, Quiet(A), Quiet(B)
  PROVE  Quiet(A \o B)
<1>1. /\ Len(A) \in Nat /\ Len(B) \in Nat /\ Len(A \o B) = Len(A) + Len(B)
      /\ \A i \in 1..(Len(A) + Len(B)) : (A \o B)[i] = IF i <= Len(A) THEN A[i] ELSE B[i - Len(A)]
  BY ConcatProperties, LenProperties DEF Pages
<1>2. /\ DOMAIN A = 1..Len(A) /\ DOMAIN B = 1..Len(B) /\ DOMAIN (A \o B) = 1..Len(A \o B)
  BY LenProperties, ConcatProperties DEF Pages
<1>3. ASSUME NEW i \in DOMAIN (A \o B) PROVE KeyOf((A \o B)[i]) \notin Keys
  <2>1. i \in 1..(Len(A) + Len(B))
    BY <1>1, <1>2
  <2>2. CASE i <= Len(A)
    <3>1. i \in DOMAIN A /\ (A \o B)[i] = A[i]
      BY <1>1, <1>2, <2>1, <2>2
    <3> QED BY <3>1 DEF Quiet
  <2>3. CASE ~(i <= Len(A))
    <3>1. i - Len(A) \in DOMAIN B
      BY <1>1, <1>2, <2>1, <2>3
    <3>2. (A \o B)[i] = B[i - Len(A)]
      BY <1>1, <2>1, <2>3
    <3> QED BY <3>1, <3>2 DEF Quiet
  <2> QED BY <2>2, <2>3
<1> QED BY <1>3 DEF Quiet

LEMMA NoLines == Lines(<<>>) = <<>> /\ Quiet(<<>>)
  BY ReadingNone DEF Lines, Start, Quiet

\* An end of an end is an end.
LEMMA CalmEnd ==
  ASSUME NEW p \in Texts, NEW t \in Texts, Calm(p \o t)
  PROVE  Calm(t)
<1> SUFFICES ASSUME NEW a \in Texts, NEW b \in Texts, t = a \o b, Len(b) <= Shortest
             PROVE  Quiet(Lines(b))
  BY DEF Calm
<1>1. p \o t = (p \o a) \o b /\ p \o a \in Texts
  <2>1. (p \o a) \o b = p \o (a \o b)
    BY TextsAssociative
  <2>2. p \o a \in Texts
    BY CatType
  <2> QED BY <2>1, <2>2, Zenon
<1> QED BY <1>1 DEF Calm

\* The lines of a text, closed.
LEMMA Closed ==
  ASSUME NL \notin Marks, NEW A \in Pages, NEW x \in Plain
  PROVE  Text(Append(A, x)) = (Text(A) \o x) \o <<NL>> /\ <<NL>> \in Texts
<1>1. Text(A) \in Texts /\ x \in Texts /\ <<NL>> \in Texts
  BY TextAppend, LineEnded DEF Texts
<1>2. Append(x, NL) = x \o <<NL>>
  BY <1>1, AppendIsConcat DEF Texts
<1>3. Text(Append(A, x)) = Text(A) \o Append(x, NL)
  BY TextAppend
<1>4. (Text(A) \o x) \o <<NL>> = Text(A) \o (x \o <<NL>>)
  BY <1>1, TextsAssociative
<1> QED BY <1>1, <1>2, <1>3, <1>4, Zenon

\* No lines are lost in closing the last.
LEMMA QuietClosed ==
  ASSUME NL \notin Marks, "#" \notin Keys, NEW t \in Texts, Quiet(Lines(t))
  PROVE  Quiet(Lines(t \o <<NL>>))
<1>1. PICK A \in Pages, x \in Plain : t = Text(A) \o x
  BY TextIsLines
<1>2. t \o <<NL>> = Text(Append(A, x)) /\ Append(A, x) \in Pages
  BY <1>1, Closed, AppendProperties DEF Pages
<1>3. Lines(t \o <<NL>>) = Append(A, x)
  BY <1>2, LinesOfText
<1>4. Lines(t) = (IF x = <<>> THEN A ELSE Append(A, x))
  BY <1>1, LinesOfText
<1>5. CASE x = <<>>
  <2>1. Quiet(A)
    BY <1>4, <1>5
  <2>2. Quiet(<<x>>) /\ <<x>> \in Pages
    <3>1. <<x>> \in Pages
      BY DEF Pages
    <3>2. KeyOf(<<>>) = "#"
      BY DEF KeyOf
    <3>3. DOMAIN <<x>> = {1} /\ <<x>>[1] = x
      OBVIOUS
    <3> QED BY <1>5, <3>1, <3>2, <3>3 DEF Quiet
  <2>3. Append(A, x) = A \o <<x>>
    BY AppendIsConcat DEF Pages
  <2> QED BY <1>3, <2>1, <2>2, <2>3, QuietConcat
<1>6. CASE x # <<>>
  BY <1>3, <1>4, <1>6
<1> QED BY <1>5, <1>6

LEMMA EndWithNL ==
  ASSUME NEW s \in Texts, NEW p \in Texts, NEW t \in Texts, p \o t = s \o <<NL>>, Len(t) # 0
  PROVE  Between(s, <<NL>>, p, t)
<1> DEFINE nl == <<NL>>
<1>1. nl \in Texts /\ Len(nl) = 1
  BY DEF Texts
<1>2. Ends(s, nl, p, t)
  BY <1>1, TextLen DEF Ends
<1> HIDE DEF nl
<1>3. Between(s, nl, p, t)
  BY <1>1, <1>2, EndOfEnd
<1> QED BY <1>3 DEF nl

LEMMA CalmClosed ==
  ASSUME NL \notin Marks, "#" \notin Keys, NEW text \in Texts, Calm(text)
  PROVE  Calm(Text(Lines(text)))
<1>1. PICK A \in Pages, x \in Plain : text = Text(A) \o x
  BY TextIsLines
<1>2. Lines(text) = (IF x = <<>> THEN A ELSE Append(A, x)) /\ Text(A) \in Texts /\ x \in Texts
  BY <1>1, LinesOfText, TextAppend, LineEnded
<1>3. CASE x = <<>>
  <2>1. Text(A) \o <<>> = Text(A)
    BY <1>2, ConcatEmptySeq DEF Texts
  <2> QED BY <1>1, <1>2, <1>3, <2>1
<1>4. CASE x # <<>>
  <2>1. Text(Lines(text)) = text \o <<NL>> /\ <<NL>> \in Texts
    BY <1>1, <1>2, <1>4, Closed
  <2>2. ASSUME NEW p \in Texts, NEW t \in Texts, text \o <<NL>> = p \o t, Len(t) <= Shortest
        PROVE  Quiet(Lines(t))
    <3>1. Len(<<NL>>) = 1 /\ Len(t) \in Nat
      BY TextLen
    <3>2. CASE Len(t) = 0
      <4>1. t = <<>>
        BY <3>2, EmptySeq DEF Texts
      <4> QED BY <4>1, NoLines
    <3>3. CASE Len(t) # 0
      <4>1. Len(<<NL>>) <= Len(t)
        BY <3>1, <3>3
      <4>2. PICK e \in Texts : t = e \o <<NL>> /\ text = p \o e
        <5>1. p \o t = text \o <<NL>>
          BY <2>2
        <5>2. Between(text, <<NL>>, p, t)
          BY <3>3, <5>1, EndWithNL
        <5> QED BY <5>2 DEF Between
      <4>3. Len(t) = Len(e) + 1 /\ Len(e) \in Nat
        BY <2>1, <3>1, <4>2, CatLen, TextLen
      <4>4. Len(e) <= Shortest
        BY <2>2, <4>3 DEF Shortest, DefaultOption
      <4>5. Quiet(Lines(e))
        BY <4>2, <4>4 DEF Calm
      <4> QED BY <4>2, <4>5, QuietClosed
    <3> QED BY <3>2, <3>3
  <2> QED BY <2>1, <2>2 DEF Calm
<1> QED BY <1>3, <1>4

LEMMA CalmTail ==
  ASSUME NEW X \in Pages, NEW B \in Pages, Calm(Text(X \o B))
  PROVE  Calm(Text(B))
<1>1. Text(X \o B) = Text(X) \o Text(B) /\ Text(X) \in Texts /\ Text(B) \in Texts
  <2>1. PICK x \in Plain : TRUE
    <3>1. <<>> \in Plain
      BY DEF Plain
    <3> QED BY <3>1
  <2> QED BY <2>1, TextConcat, TextAppend, Zenon
<1> QED BY <1>1, CalmEnd, Zenon

\* An end of closed lines ends with a closed line.
LEMMA EndClosed ==
  ASSUME NL \notin Marks, NEW A \in Pages, NEW p \in Texts, NEW t \in Texts, Text(A) = p \o t
  PROVE  \E C \in Pages : t = Text(C) /\ Lines(t) = C
<1>1. PICK C \in Pages, x \in Plain : t = Text(C) \o x
  BY TextIsLines
<1>2. Text(A) \in Texts /\ Text(C) \in Texts /\ x \in Texts
  BY TextAppend, LineEnded
<1>3. CASE x = <<>>
  <2>1. Text(C) \o <<>> = Text(C)
    BY <1>2, ConcatEmptySeq DEF Texts
  <2> QED BY <1>1, <1>3, <2>1, LinesOfText
<1>4. CASE x # <<>>
  <2>1. A # <<>>
    <3> SUFFICES ASSUME A = <<>> PROVE FALSE
      OBVIOUS
    <3>1. Len(Text(A)) = 0
      BY TextNone
    <3>2. Len(Text(A)) = Len(p) + (Len(Text(C)) + Len(x)) /\ Len(p) \in Nat /\ Len(Text(C)) \in Nat /\ Len(x) \in Nat
      BY <1>1, <1>2, CatLen, TextLen
    <3>3. Len(x) = 0
      BY <3>1, <3>2
    <3> QED BY <1>2, <1>4, <3>3, EmptySeq DEF Texts
  <2>2. PICK u \in Texts : Text(A) = u \o <<NL>>
    <3>1. PICK D \in Pages, y \in Plain : A = Append(D, y)
      BY <2>1, SequenceEmptyOrAppend DEF Pages
    <3>2. Text(A) = (Text(D) \o y) \o <<NL>>
      BY <3>1, Closed
    <3>3. Text(D) \o y \in Texts
      BY <3>1, TextAppend, LineEnded, CatType
    <3> QED BY <3>2, <3>3
  <2>3. (p \o Text(C)) \o x = u \o <<NL>> /\ p \o Text(C) \in Texts
    <3>1. (p \o Text(C)) \o x = p \o (Text(C) \o x)
      <4> DEFINE b == Text(C)
      <4>1. b \in Texts /\ x \in Texts
        BY <1>2
      <4> HIDE DEF b
      <4>2. (p \o b) \o x = p \o (b \o x)
        BY <4>1, TextsAssociative, SMTT(60)
      <4> QED BY <4>2 DEF b
    <3> QED BY <1>1, <1>2, <2>2, <3>1, CatType
  <2>4. <<NL>> \in Texts /\ Len(<<NL>>) = 1
    BY DEF Texts
  <2>5. Len(x) \in Nat /\ Len(x) # 0
    BY <1>2, <1>4, EmptySeq, TextLen DEF Texts
  <2>6. Len(<<NL>>) <= Len(x)
    BY <2>4, <2>5
  <2>7. PICK z \in Texts : x = z \o <<NL>>
    <3>1. Between(u, <<NL>>, p \o Text(C), x)
      BY <1>2, <2>3, <2>5, EndWithNL
    <3> QED BY <3>1 DEF Between
  <2>8. x[Len(z) + 1] = NL /\ Len(z) + 1 \in 1..Len(x)
    <3>1. 1 \in 1..Len(<<NL>>) /\ <<NL>>[1] = NL
      BY <2>4
    <3>2. (z \o <<NL>>)[Len(z) + 1] = <<NL>>[1]
      BY <2>4, <3>1, CatRight
    <3>3. Len(x) = Len(z) + 1 /\ Len(z) \in Nat
      BY <2>4, <2>7, CatLen, TextLen
    <3> QED BY <2>7, <3>1, <3>2, <3>3
  <2>9. x[Len(z) + 1] \in Marks
    BY <2>8, ElementOfSeq DEF Plain
  <2> QED BY <2>8, <2>9
<1> QED BY <1>3, <1>4

\* A text behind closed lines.
LEMMA CalmOver ==
  ASSUME NL \notin Marks, NEW A \in Pages, NEW q \in Texts, Calm(Text(A)), Calm(q)
  PROVE  Calm(Text(A) \o q)
<1> SUFFICES ASSUME NEW p \in Texts, NEW t \in Texts, Text(A) \o q = p \o t, Len(t) <= Shortest
             PROVE  Quiet(Lines(t))
  BY DEF Calm
<1>1. Text(A) \in Texts /\ Len(q) \in Nat /\ Len(t) \in Nat
  <2>1. <<>> \in Plain
    BY DEF Plain
  <2> QED BY <2>1, TextAppend, TextLen
<1>2. CASE Len(t) <= Len(q)
  <2>1. Ends(p, t, Text(A), q)
    BY <1>2 DEF Ends
  <2>2. Between(p, t, Text(A), q)
    BY <1>1, <2>1, EndOfEnd
  <2>3. PICK e \in Texts : q = e \o t
    BY <2>2 DEF Between
  <2> QED BY <2>3 DEF Calm
<1>3. CASE Len(q) < Len(t)
  <2>1. Ends(Text(A), q, p, t)
    BY <1>1, <1>3 DEF Ends
  <2>2. Between(Text(A), q, p, t)
    BY <1>1, <2>1, EndOfEnd
  <2>3. PICK e \in Texts : t = e \o q /\ Text(A) = p \o e
    BY <2>2 DEF Between
  <2>4. PICK C \in Pages : e = Text(C) /\ Lines(e) = C
    BY <2>3, EndClosed
  <2>5. Len(t) = Len(e) + Len(q) /\ Len(e) \in Nat
    BY <2>3, CatLen, TextLen
  <2>6. Len(e) <= Shortest /\ Len(q) <= Shortest
    BY <1>1, <2>5 DEF Shortest, DefaultOption
  <2>7. Quiet(C)
    BY <2>3, <2>4, <2>6 DEF Calm
  <2>8. Quiet(Lines(q))
    <3>1. q = <<>> \o q /\ <<>> \in Texts
      BY ConcatEmptySeq DEF Texts
    <3> QED BY <2>6, <3>1 DEF Calm
  <2>9. Lines(t) = C \o Lines(q) /\ Lines(q) \in Pages
    BY <2>3, <2>4, LinesConcat
  <2> QED BY <2>7, <2>8, <2>9, QuietConcat
<1> QED BY <1>1, <1>2, <1>3

\* The line of an option.
LEMMA LineType ==
  ASSUME NEW key \in Keys, NEW n \in Nat
  PROVE  /\ Line(key, n) \in Plain /\ Len(Line(key, n)) = n + 2
         /\ Line(key, n)[1] = key /\ Line(key, n)[2] = Eq
         /\ \A i \in 3..(n + 2) : Line(key, n)[i] = Digit
<1>1. Cells(n) = [i \in 1..n |-> Digit]
  BY DEF Cells
<1>2. Digit \in Marks /\ Eq \in Marks /\ key \in Marks
  BY DEF Marks
<1> DEFINE c == Cells(n)
           h == <<key, Eq>>
<1>3. c \in Plain
  BY <1>1, <1>2 DEF Plain
<1>4. Len(c) = n
  BY <1>1, <1>3, LenProperties DEF Plain
<1>5. h \in Plain /\ Len(h) = 2 /\ h[1] = key /\ h[2] = Eq
  BY <1>2 DEF Plain
<1>6. \A i \in 1..n : c[i] = Digit
  BY <1>1
<1>7. Line(key, n) = h \o c
  BY DEF Line
<1> HIDE DEF c, h
<1>8. /\ h \o c \in Plain /\ Len(h \o c) = n + 2
      /\ \A i \in 1..(2 + n) : (h \o c)[i] = IF i <= 2 THEN h[i] ELSE c[i - 2]
  <2>1. /\ h \o c \in Plain /\ Len(h \o c) = Len(h) + Len(c)
        /\ \A i \in 1..(Len(h) + Len(c)) : (h \o c)[i] = IF i <= Len(h) THEN h[i] ELSE c[i - Len(h)]
    BY <1>3, <1>5, ConcatProperties DEF Plain
  <2> QED BY <1>4, <1>5, <2>1
<1>9. (h \o c)[1] = key /\ (h \o c)[2] = Eq
  BY <1>5, <1>8
<1>10. ASSUME NEW i \in 3..(n + 2) PROVE (h \o c)[i] = Digit
  <2>1. i \in 1..(2 + n) /\ ~(i <= 2) /\ i - 2 \in 1..n
    OBVIOUS
  <2> QED BY <1>6, <1>8, <2>1
<1> QED BY <1>7, <1>8, <1>9, <1>10

\* What is left of it without its first cell is no line of an option.
LEMMA LineEnds ==
  ASSUME "#" \notin Keys, NEW key \in Keys, NEW n \in Nat, NEW c \in Texts, NEW g \in Texts,
         Line(key, n) = c \o g, Len(c) # 0
  PROVE  g \in Plain /\ KeyOf(g) = "#"
<1>1. Len(c) \in Nat /\ Len(g) \in Nat /\ n + 2 = Len(c) + Len(g)
  BY LineType, CatLen, TextLen
<1>2. Line(key, n) \in Plain /\ Len(Line(key, n)) = n + 2
  BY LineType
<1>3. ASSUME NEW i \in 1..Len(g) PROVE g[i] \in Marks
  <2>1. Len(c) + i \in 1..Len(Line(key, n))
    BY <1>1, <1>2
  <2>2. Line(key, n)[Len(c) + i] \in Marks
    BY <1>2, <2>1, ElementOfSeq DEF Plain
  <2> QED BY <2>2, CatRight
<1>4. g \in Plain
  <2>1. g \in [1..Len(g) -> Marks]
    <3>1. g = [i \in 1..Len(g) |-> g[i]]
      BY LenProperties DEF Texts
    <3> QED BY <1>3, <3>1
  <2> QED BY <1>1, <2>1, SeqDef DEF Plain
<1>5. ASSUME Len(g) > 1 PROVE g[2] # Eq
  <2>1. 2 \in 1..Len(g) /\ Len(c) + 2 \in 3..(n + 2)
    BY <1>1, <1>5
  <2>2. (c \o g)[Len(c) + 2] = g[2]
    BY <2>1, CatRight
  <2>3. Line(key, n)[Len(c) + 2] = Digit
    <3>1. \A i \in 3..(n + 2) : Line(key, n)[i] = Digit
      BY LineType
    <3> QED BY <2>1, <3>1, Zenon
  <2> QED BY <2>2, <2>3 DEF Digit, Eq
<1> QED BY <1>4, <1>5 DEF KeyOf

LEMMA CalmAppend ==
  ASSUME NL \notin Marks, "#" \notin Keys,
         NEW X \in Pages, NEW key \in Keys, NEW n \in Nat, n # 0
  PROVE  Calm(Text(Append(X, Line(key, n))))
<1> DEFINE l == Line(key, n)
<1>1. l \in Plain /\ l \in Texts /\ Len(l) = n + 2 /\ Text(X) \in Texts
  BY LineType, LineEnded, TextAppend
<1>2. Text(Append(X, l)) = (Text(X) \o l) \o <<NL>> /\ <<NL>> \in Texts /\ Text(X) \o l \in Texts
  BY <1>1, Closed, CatType
<1> SUFFICES ASSUME NEW p \in Texts, NEW t \in Texts, Text(Append(X, l)) = p \o t, Len(t) <= Shortest
             PROVE  Quiet(Lines(t))
  BY DEF Calm
<1>3. CASE Len(t) = 0
  <2>1. t = <<>>
    BY <1>3, EmptySeq DEF Texts
  <2> QED BY <2>1, NoLines
<1>4. CASE Len(t) # 0
  <2>1. Between(Text(X) \o l, <<NL>>, p, t)
    <3>1. p \o t = (Text(X) \o l) \o <<NL>>
      BY <1>2
    <3> HIDE DEF l
    <3> QED BY <1>2, <1>4, <3>1, EndWithNL
  <2>2. PICK g \in Texts : t = g \o <<NL>> /\ Text(X) \o l = p \o g
    BY <2>1 DEF Between
  <2>3. Len(<<NL>>) = 1 /\ Len(t) = Len(g) + Len(<<NL>>) /\ Len(g) \in Nat
    BY <1>2, <2>2, CatLen, TextLen
  <2>4. Len(g) <= 2 /\ Len(g) < Len(l) /\ Shortest = 3
    BY <1>1, <2>3 DEF Shortest, DefaultOption
  <2>5. Ends(p, g, Text(X), l)
    BY <1>1, <2>2, <2>4 DEF Ends
  <2>6. Between(p, g, Text(X), l)
    BY <1>1, <2>5, EndOfEnd
  <2>7. PICK c \in Texts : l = c \o g
    BY <2>6 DEF Between
  <2>8. Len(c) # 0
    BY <2>4, <2>7, CatLen, TextLen
  <2>9. g \in Plain /\ KeyOf(g) = "#"
    BY <2>7, <2>8, LineEnds
  <2>10. t = Text(Append(<<>>, g)) /\ <<>> \in Pages /\ Append(<<>>, g) = <<g>> /\ <<g>> \in Pages
    <3>1. <<>> \in Pages /\ <<g>> \in Pages /\ Append(<<>>, g) = <<g>>
      BY <2>9 DEF Pages
    <3>2. Text(Append(<<>>, g)) = (Text(<<>>) \o g) \o <<NL>>
      BY <2>9, <3>1, Closed
    <3>3. Text(<<>>) \o g = g
      BY TextNone, ConcatEmptySeq DEF Texts
    <3> QED BY <2>2, <3>1, <3>2, <3>3
  <2>11. Lines(t) = <<g>>
    BY <2>9, <2>10, LinesOfText, Zenon
  <2>12. DOMAIN <<g>> = {1} /\ <<g>>[1] = g
    OBVIOUS
  <2> QED BY <2>9, <2>11, <2>12 DEF Quiet
<1> QED BY <1>3, <1>4

\* A new line among others.
LEMMA CalmNew ==
  ASSUME NL \notin Marks, "#" \notin Keys, NEW X \in Pages, NEW B \in Pages, Calm(Text(B)),
         NEW key \in Keys, NEW n \in Nat, n # 0
  PROVE  Calm(Text(Append(X, Line(key, n)) \o B))
<1> DEFINE A == Append(X, Line(key, n))
<1>1. A \in Pages
  BY LineType, AppendProperties DEF Pages
<1>2. Calm(Text(A))
  BY CalmAppend
<1> HIDE DEF A
<1>3. Text(A \o B) = Text(A) \o Text(B)
  BY <1>1, TextConcat
<1>4. Text(B) \in Texts
  <2>1. <<>> \in Plain
    BY DEF Plain
  <2> QED BY <2>1, TextAppend
<1>5. Calm(Text(A) \o Text(B))
  BY <1>1, <1>2, <1>4, CalmOver
<1> QED BY <1>3, <1>5 DEF A

-----------------------------------------------------------------------------
(* What is read from lines, and what a change does to them                   *)

LEMMA OwnLine ==
  ASSUME NEW key \in Keys, NEW n \in Nat, n # 0
  PROVE  KeyOf(Line(key, n)) = key /\ ValueOf(Line(key, n)) = n
<1> DEFINE l == Line(key, n)
           v == SubSeq(l, 2 + 1, 2 + n)
<1>1. /\ l \in Texts /\ Len(l) = n + 2 /\ l[1] = key /\ l[2] = Eq
      /\ \A i \in 3..(n + 2) : l[i] = Digit
  BY LineType, LineEnded
<1> HIDE DEF l
<1>2. v \in Texts /\ Len(v) = n /\ \A j \in 1..n : v[j] = l[2 + j]
  <2>1. 2 \in Nat /\ 2 + n <= Len(l)
    BY <1>1
  <2>2. \A m \in Nat : m + n <= Len(l) =>
          /\ SubSeq(l, m + 1, m + n) \in Texts /\ Len(SubSeq(l, m + 1, m + n)) = n
          /\ \A j \in 1..n : SubSeq(l, m + 1, m + n)[j] = l[m + j]
    BY <1>1, Piece
  <2> QED BY <2>1, <2>2
<1>3. SubSeq(l, 3, Len(l)) = v
  BY <1>1
<1> HIDE DEF v
<1>4. DOMAIN v = 1..n
  BY <1>2, LenProperties DEF Texts
<1>5. \A j \in 1..n : v[j] = Digit
  BY <1>1, <1>2
<1>6. ToSet(v) = {Digit}
  <2>1. 1 \in 1..n
    OBVIOUS
  <2> QED BY <1>4, <1>5, <2>1 DEF ToSet
<1>7. Len(l) > 2 /\ Len(l) > 1
  BY <1>1
<1>8. KeyOf(l) = key
  BY <1>1, <1>7 DEF KeyOf
<1>9. ValueOf(l) = n
  BY <1>1, <1>2, <1>3, <1>6, <1>7 DEF ValueOf
<1> QED BY <1>8, <1>9 DEF l

LEMMA ParsedIn ==
  ASSUME NEW text, Lines(text) \in Pages, OneLineEach(Lines(text)), NEW key \in Keys,
         NEW i \in DOMAIN Lines(text), KeyOf(Lines(text)[i]) = key
  PROVE  Parsed(text)[key] = IF ValueOf(Lines(text)[i]) = 0 THEN DefaultOption
                             ELSE ValueOf(Lines(text)[i])
<1> DEFINE lines == Lines(text)
           of == {j \in DOMAIN lines : KeyOf(lines[j]) = key /\ ValueOf(lines[j]) # 0}
<1>1. Parsed(text)[key] = IF of = {} THEN DefaultOption ELSE ValueOf(lines[Max(of)])
  BY DEF Parsed
<1>2. of \subseteq {i}
  BY DEF OneLineEach
<1>3. i \in Nat
  BY LenProperties DEF Pages
<1>4. CASE ValueOf(lines[i]) = 0
  <2>1. of = {}
    BY <1>2, <1>4
  <2> QED BY <1>1, <1>4, <2>1
<1>5. CASE ValueOf(lines[i]) # 0
  <2>1. of = {i}
    BY <1>2, <1>5
  <2>2. Max({i}) = i
    BY <1>3 DEF Max
  <2> QED BY <1>1, <1>5, <2>1, <2>2
<1> QED BY <1>4, <1>5

LEMMA ParsedOut ==
  ASSUME NEW text, NEW key \in Keys, \A i \in DOMAIN Lines(text) : KeyOf(Lines(text)[i]) # key
  PROVE  Parsed(text)[key] = DefaultOption
  BY DEF Parsed

\* A line in the middle of others.
LEMMA Spliced ==
  ASSUME NEW S, NEW L \in Seq(S), NEW i \in 1..Len(L), NEW M \in Seq(S), Len(M) = Len(L),
         \A j \in 1..Len(L) : j # i => M[j] = L[j],
         NEW X, X = [j \in 1..(i - 1) |-> L[j]], NEW B, B = [j \in 1..(Len(L) - i) |-> L[i + j]]
  PROVE  X \in Seq(S) /\ B \in Seq(S) /\ M[i] \in S /\ M = Append(X, M[i]) \o B
<1>1. Len(L) \in Nat /\ i - 1 \in Nat /\ Len(L) - i \in Nat /\ i \in Nat
  BY LenProperties
<1>2. M[i] \in S
  BY ElementOfSeq
<1>3. X \in Seq(S) /\ Len(X) = i - 1
  <2>1. \A j \in 1..(i - 1) : L[j] \in S
    <3> TAKE j \in 1..(i - 1)
    <3>1. j \in 1..Len(L)
      BY <1>1
    <3> QED BY <3>1, ElementOfSeq
  <2>2. X \in [1..(i - 1) -> S]
    BY <2>1
  <2>3. X \in Seq(S)
    BY <1>1, <2>2, SeqDef
  <2> QED BY <1>1, <2>2, <2>3, LenProperties
<1>4. B \in Seq(S) /\ Len(B) = Len(L) - i
  <2>1. \A j \in 1..(Len(L) - i) : L[i + j] \in S
    <3> TAKE j \in 1..(Len(L) - i)
    <3>1. i + j \in 1..Len(L)
      BY <1>1
    <3> QED BY <3>1, ElementOfSeq
  <2>2. B \in [1..(Len(L) - i) -> S]
    BY <2>1
  <2>3. B \in Seq(S)
    BY <1>1, <2>2, SeqDef
  <2> QED BY <1>1, <2>2, <2>3, LenProperties
<1> DEFINE Y == Append(X, M[i])
<1>5. /\ Y \in Seq(S) /\ Len(Y) = i /\ Y[i] = M[i]
      /\ \A j \in 1..(i - 1) : Y[j] = L[j]
  <2>1. Y \in Seq(S) /\ Len(Y) = Len(X) + 1 /\ Y[Len(X) + 1] = M[i]
    BY <1>2, <1>3, AppendProperties
  <2>2. \A j \in 1..Len(X) : Y[j] = X[j]
    BY <1>2, <1>3, AppendProperties
  <2>3. \A j \in 1..(i - 1) : X[j] = L[j]
    OBVIOUS
  <2> HIDE DEF Y
  <2> QED BY <1>1, <1>3, <2>1, <2>2, <2>3
<1> HIDE DEF Y
<1>6. /\ Y \o B \in Seq(S) /\ Len(Y \o B) = Len(Y) + Len(B)
      /\ \A j \in 1..(Len(Y) + Len(B)) : (Y \o B)[j] = IF j <= Len(Y) THEN Y[j] ELSE B[j - Len(Y)]
  <2>1. Y \in Seq(S) /\ B \in Seq(S)
    BY <1>4, <1>5
  <2>2. Y \o B \in Seq(S) /\ Len(Y \o B) = Len(Y) + Len(B)
    BY <2>1, ConcatProperties
  <2>3. \A j \in 1..(Len(Y) + Len(B)) : (Y \o B)[j] = IF j <= Len(Y) THEN Y[j] ELSE B[j - Len(Y)]
    BY <2>1, ConcatProperties
  <2> QED BY <2>2, <2>3
<1>7. Len(Y \o B) = Len(M)
  <2>1. Len(Y) + Len(B) = Len(M)
    BY <1>1, <1>4, <1>5
  <2> QED BY <1>6, <2>1, Zenon
<1>8. ASSUME NEW j \in 1..Len(M) PROVE M[j] = (Y \o B)[j]
  <2>1. (Y \o B)[j] = IF j <= i THEN Y[j] ELSE B[j - i]
    <3>1. j \in 1..(Len(Y) + Len(B))
      BY <1>1, <1>4, <1>5
    <3>2. (Y \o B)[j] = IF j <= Len(Y) THEN Y[j] ELSE B[j - Len(Y)]
      BY <1>6, <3>1, Zenon
    <3> QED BY <1>5, <3>2, Zenon
  <2>2. CASE j < i
    <3>1. j \in 1..(i - 1) /\ j \in 1..Len(L) /\ j # i /\ j <= i
      BY <1>1, <2>2
    <3> QED BY <1>5, <2>1, <3>1
  <2>3. CASE j = i
    BY <1>1, <1>5, <2>1, <2>3
  <2>4. CASE j > i
    <3>1. j - i \in 1..(Len(L) - i) /\ ~(j <= i) /\ j # i /\ i + (j - i) = j
      BY <1>1, <2>4
    <3>2. B[j - i] = L[i + (j - i)]
      BY <3>1
    <3> QED BY <2>1, <3>1, <3>2
  <2>5. j < i \/ j = i \/ j > i
    BY <1>1
  <2> QED BY <2>2, <2>3, <2>4, <2>5, Zenon
<1>9. M = Y \o B
  BY <1>6, <1>7, <1>8, SeqEqual
<1> QED BY <1>2, <1>3, <1>4, <1>9 DEF Y

\* The lines of a change: the new one, where it is and what is before and behind it.
Swapped(L, N, key, line, i) ==
  /\ i \in 1..Len(N) /\ N[i] = line /\ Len(L) <= Len(N)
  /\ \A j \in 1..Len(N) : j # i => j \in 1..Len(L) /\ N[j] = L[j] /\ KeyOf(L[j]) # key
  /\ i \in 1..Len(L) => KeyOf(L[i]) = key
Around(L, N, key, line, X, B) ==
  /\ N = Append(X, line) \o B
  /\ \/ L = X /\ B = <<>>
     \/ \E i \in 1..Len(L) : L = Append(X, L[i]) \o B /\ KeyOf(L[i]) = key

LEMMA Changed ==
  ASSUME NEW L \in Pages, OneLineEach(L), NEW key \in Keys, NEW n \in Nat,
         NEW N, N = SetInLines(L, key, n)
  PROVE  /\ N \in Pages
         /\ \E i \in Nat : Swapped(L, N, key, Line(key, n), i)
         /\ \E X \in Pages, B \in Pages : Around(L, N, key, Line(key, n), X, B)
<1> DEFINE of == {i \in DOMAIN L : KeyOf(L[i]) = key}
           line == Line(key, n)
<1>1. N = IF of = {} THEN Append(L, line) ELSE [L EXCEPT ![Min(of)] = line]
  BY DEF SetInLines
<1>2. line \in Plain
  BY LineType
<1>3. Len(L) \in Nat /\ DOMAIN L = 1..Len(L)
  BY LenProperties DEF Pages
<1> HIDE DEF line
<1>4. CASE of = {}
  <2>1. N = Append(L, line)
    BY <1>1, <1>4
  <2>2. /\ N \in Pages /\ Len(N) = Len(L) + 1 /\ N[Len(L) + 1] = line
        /\ \A j \in 1..Len(L) : N[j] = L[j]
    BY <1>2, <2>1, AppendProperties DEF Pages
  <2>3. Swapped(L, N, key, line, Len(L) + 1)
    BY <1>3, <1>4, <2>2 DEF Swapped
  <2>4. Around(L, N, key, line, L, <<>>)
    <3>1. N \o <<>> = N
      BY <2>2, ConcatEmptySeq DEF Pages
    <3> QED BY <2>1, <3>1 DEF Around
  <2>5. <<>> \in Pages /\ Len(L) + 1 \in Nat
    BY <1>3 DEF Pages
  <2> QED BY <2>2, <2>3, <2>4, <2>5 DEF line
<1>5. CASE of # {}
  <2>1. PICK i \in of : TRUE
    BY <1>5
  <2>2. of = {i} /\ i \in Nat /\ i \in 1..Len(L)
    BY <1>3, <2>1 DEF OneLineEach
  <2>3. Min({i}) = i
    BY <2>2 DEF Min
  <2>4. N = [L EXCEPT ![i] = line]
    BY <1>1, <1>5, <2>2, <2>3
  <2>5. N \in Pages /\ Len(N) = Len(L)
    BY <1>2, <2>2, <2>4, ExceptSeq DEF Pages
  <2>6. N[i] = line /\ \A j \in 1..Len(L) : j # i => N[j] = L[j]
    BY <1>3, <2>2, <2>4
  <2>7. \A j \in 1..Len(L) : j # i => KeyOf(L[j]) # key
    BY <1>3, <2>2
  <2>8. KeyOf(L[i]) = key
    BY <2>1
  <2>9. Swapped(L, N, key, line, i)
    BY <1>3, <2>2, <2>5, <2>6, <2>7, <2>8 DEF Swapped
  <2>10. \E X \in Pages, B \in Pages : Around(L, N, key, line, X, B)
    <3> DEFINE X == [j \in 1..(i - 1) |-> L[j]]
               B == [j \in 1..(Len(L) - i) |-> L[i + j]]
    <3> HIDE DEF X, B
    <3>1. X = [j \in 1..(i - 1) |-> L[j]] /\ B = [j \in 1..(Len(L) - i) |-> L[i + j]]
      BY DEF X, B
    <3>2. X \in Pages /\ B \in Pages /\ L = Append(X, L[i]) \o B
      BY <2>2, <3>1, Spliced DEF Pages
    <3>3. N = Append(X, N[i]) \o B
      BY <2>2, <2>5, <2>6, <3>1, Spliced DEF Pages
    <3> QED BY <2>2, <2>6, <2>8, <3>2, <3>3 DEF Around
  <2> QED BY <2>2, <2>5, <2>9, <2>10 DEF line
<1> QED BY <1>4, <1>5

\* A change followed by lines without a setting: every key has its line once, and
\* no line has room for more than the end of the file can do without.
Followed(M, N, Q) == M = N \o Q
LEMMA ChangedOneEach ==
  ASSUME SettingsFit, NEW L \in Pages, OneLineEach(L), ShrinksLittle(L),
         NEW key \in Keys, NEW n \in Values, NEW Q \in Pages, Quiet(Q),
         NEW M, Followed(M, SetInLines(L, key, n), Q)
  PROVE  /\ M \in Pages /\ OneLineEach(M) /\ ShrinksLittle(M)
         /\ \E i \in DOMAIN M : M[i] = Line(key, n)
         /\ \A j \in DOMAIN M : KeyOf(M[j]) \in Keys \ {key} => j \in DOMAIN L /\ M[j] = L[j]
         /\ \A j \in DOMAIN L : KeyOf(L[j]) \in Keys \ {key} => j \in DOMAIN M /\ M[j] = L[j]
<1> DEFINE N == SetInLines(L, key, n)
<1>0. n \in Nat /\ n # 0 /\ Values \subseteq Nat
  BY DEF SettingsFit
<1>1. N \in Pages /\ \E i \in Nat : Swapped(L, N, key, Line(key, n), i)
  BY <1>0, Changed
<1> HIDE DEF N
<1>2. PICK i \in Nat : Swapped(L, N, key, Line(key, n), i)
  BY <1>1
<1>3. /\ M \in Pages /\ Len(M) = Len(N) + Len(Q) /\ Len(N) \in Nat /\ Len(Q) \in Nat /\ Len(L) \in Nat
      /\ DOMAIN M = 1..Len(M) /\ DOMAIN L = 1..Len(L)
  <2>1. M = N \o Q
    BY DEF N, Followed
  <2> QED BY <1>1, <2>1, ConcatProperties, LenProperties DEF Pages
<1>4. \A j \in 1..(Len(N) + Len(Q)) : M[j] = IF j <= Len(N) THEN N[j] ELSE Q[j - Len(N)]
  <2>1. M = N \o Q
    BY DEF N, Followed
  <2> QED BY <1>1, <2>1, ConcatProperties DEF Pages
<1>5. KeyOf(Line(key, n)) = key
  BY <1>0, OwnLine
<1>6. /\ i \in DOMAIN M /\ M[i] = Line(key, n) /\ KeyOf(M[i]) = key
  BY <1>2, <1>3, <1>4, <1>5 DEF Swapped
<1>7. ASSUME NEW j \in DOMAIN M, KeyOf(M[j]) \in Keys, j # i
      PROVE  j \in DOMAIN L /\ M[j] = L[j] /\ KeyOf(M[j]) # key
  <2>1. CASE j <= Len(N)
    <3>1. j \in 1..Len(N) /\ M[j] = N[j]
      BY <1>3, <1>4, <2>1
    <3> QED BY <1>2, <1>3, <1>7, <3>1 DEF Swapped
  <2>2. CASE ~(j <= Len(N))
    <3>1. j - Len(N) \in DOMAIN Q /\ M[j] = Q[j - Len(N)]
      <4>1. DOMAIN Q = 1..Len(Q)
        BY LenProperties DEF Pages
      <4> QED BY <1>3, <1>4, <2>2, <4>1
    <3> QED BY <1>7, <3>1 DEF Quiet
  <2> QED BY <2>1, <2>2
<1>8. ASSUME NEW j \in DOMAIN L, KeyOf(L[j]) \in Keys \ {key}
      PROVE  j \in DOMAIN M /\ M[j] = L[j]
  <2>1. j # i /\ j \in 1..Len(N)
    BY <1>2, <1>3, <1>8 DEF Swapped
  <2>2. N[j] = L[j]
    BY <1>2, <2>1 DEF Swapped
  <2> QED BY <1>3, <1>4, <2>1, <2>2
<1>9. OneLineEach(M)
  <2> SUFFICES ASSUME NEW a \in DOMAIN M, NEW b \in DOMAIN M,
                      KeyOf(M[a]) \in Keys, KeyOf(M[a]) = KeyOf(M[b])
               PROVE  a = b
    BY DEF OneLineEach
  <2>1. CASE a = i
    BY <1>6, <1>7, <2>1
  <2>2. CASE b = i
    BY <1>6, <1>7, <2>2
  <2>3. CASE a # i /\ b # i
    BY <1>7, <2>3 DEF OneLineEach
  <2> QED BY <2>1, <2>2, <2>3
<1>10. ShrinksLittle(M)
  <2> SUFFICES ASSUME NEW j \in DOMAIN M, NEW m \in Values, KeyOf(M[j]) \in Keys
               PROVE  Len(M[j]) <= Len(Line(KeyOf(M[j]), m)) + Shortest
    BY DEF ShrinksLittle
  <2>1. CASE j = i
    <3>1. Len(M[j]) = n + 2 /\ Len(Line(key, m)) = m + 2 /\ m \in Nat
      BY <1>0, <1>6, <2>1, LineType
    <3>2. n <= m + Shortest /\ Shortest = 3
      BY DEF SettingsFit, Shortest, DefaultOption
    <3> QED BY <1>0, <1>6, <2>1, <3>1, <3>2
  <2>2. CASE j # i
    BY <1>7, <2>2 DEF ShrinksLittle
  <2> QED BY <2>1, <2>2
<1> QED BY <1>3, <1>6, <1>7, <1>8, <1>9, <1>10

-----------------------------------------------------------------------------
(* A change on the card                                                      *)

LEMMA TextType ==
  ASSUME NEW A \in Pages
  PROVE  Text(A) \in Texts
<1>1. <<>> \in Plain
  BY DEF Plain
<1> QED BY <1>1, TextAppend

LEMMA LenAround ==
  ASSUME NL \notin Marks, NEW X \in Pages, NEW y \in Plain, NEW B \in Pages
  PROVE  Len(Text(Append(X, y) \o B)) = (Len(Text(X)) + (Len(y) + 1)) + Len(Text(B))
<1>1. Append(X, y) \in Pages /\ Text(X) \in Texts /\ y \in Texts /\ <<NL>> \in Texts /\ Len(<<NL>>) = 1
  BY AppendProperties, TextType, LineEnded DEF Pages, Texts
<1>2. Text(Append(X, y) \o B) = Text(Append(X, y)) \o Text(B)
  BY <1>1, TextConcat
<1>3. Len(Text(Append(X, y)) \o Text(B)) = Len(Text(Append(X, y))) + Len(Text(B))
  BY <1>1, TextType, CatLen
<1>4. Text(Append(X, y)) = (Text(X) \o y) \o <<NL>>
  BY Closed
<1>5. Text(X) \o y \in Texts /\ Len(Text(X) \o y) = Len(Text(X)) + Len(y)
  BY <1>1, CatType, CatLen
<1>6. Len(Text(Append(X, y))) = (Len(Text(X)) + Len(y)) + 1
  BY <1>1, <1>4, <1>5, CatLen
<1> QED BY <1>1, <1>2, <1>3, <1>6, TextLen

LEMMA LenClosed ==
  ASSUME NL \notin Marks, NEW text \in Texts
  PROVE  Len(text) <= Len(Text(Lines(text)))
<1>1. PICK A \in Pages, x \in Plain : text = Text(A) \o x
  BY TextIsLines
<1>2. Lines(text) = (IF x = <<>> THEN A ELSE Append(A, x)) /\ Text(A) \in Texts /\ x \in Texts
  BY <1>1, LinesOfText, TextType, LineEnded
<1>3. Len(text) \in Nat
  BY TextLen
<1>4. CASE x = <<>>
  <2>1. Text(A) \o <<>> = Text(A)
    BY <1>2, ConcatEmptySeq DEF Texts
  <2>2. Text(Lines(text)) = text
    BY <1>1, <1>2, <1>4, <2>1
  <2> QED BY <1>3, <2>2
<1>5. CASE x # <<>>
  <2>1. Text(Lines(text)) = text \o <<NL>> /\ <<NL>> \in Texts
    BY <1>1, <1>2, <1>5, Closed
  <2>2. Len(text \o <<NL>>) = Len(text) + Len(<<NL>>) /\ Len(<<NL>>) = 1
    BY <2>1, CatLen
  <2> QED BY <1>3, <2>1, <2>2
<1> QED BY <1>4, <1>5

LEMMA CalmNone == Calm(Text(<<>>))
<1> SUFFICES ASSUME NEW p \in Texts, NEW t \in Texts, <<>> = p \o t PROVE Quiet(Lines(t))
  BY TextNone DEF Calm
<1>1. Len(t) = 0
  <2>1. Len(<<>>) = 0
    OBVIOUS
  <2>2. Len(p \o t) = Len(p) + Len(t)
    BY CatLen
  <2>3. Len(p \o t) = Len(<<>>)
    BY Zenon
  <2>4. Len(p) \in Nat /\ Len(t) \in Nat /\ Len(p) + Len(t) = 0
    BY <2>1, <2>2, <2>3, TextLen
  <2> QED BY <2>4
<1>2. t = <<>>
  BY <1>1, EmptySeq DEF Texts
<1> QED BY <1>2, NoLines

\* The new text is not much shorter than the old, and calm.
LEMMA ChangedLines ==
  ASSUME SettingsFit, NEW F \in Texts, Calm(F), NEW L \in Pages, L = Lines(F),
         OneLineEach(L), ShrinksLittle(L), NEW key \in Keys, NEW n \in Values,
         NEW N, N = SetInLines(L, key, n)
  PROVE  N \in Pages /\ Calm(Text(N)) /\ Len(F) <= Len(Text(N)) + Shortest
<1> DEFINE line == Line(key, n)
<1>1. NL \notin Marks /\ "#" \notin Keys /\ n \in Nat /\ n # 0
  BY DEF SettingsFit
<1>2. N \in Pages /\ \E X \in Pages, B \in Pages : Around(L, N, key, line, X, B)
  BY <1>1, Changed
<1>3. PICK X \in Pages, B \in Pages : Around(L, N, key, line, X, B)
  BY <1>2
<1>4. Calm(Text(L)) /\ Len(F) <= Len(Text(L)) /\ Len(F) \in Nat /\ Len(Text(L)) \in Nat
  BY <1>1, CalmClosed, LenClosed, TextLen, TextType
<1>5. line \in Plain /\ Len(line) = n + 2
  BY <1>1, LineType
<1>6. N = Append(X, line) \o B
  BY <1>3 DEF Around
<1>7. Len(Text(N)) = (Len(Text(X)) + (Len(line) + 1)) + Len(Text(B))
  BY <1>1, <1>5, <1>6, LenAround
<1>8. Len(Text(X)) \in Nat /\ Len(Text(B)) \in Nat /\ Shortest = 3
  BY TextLen, TextType DEF Shortest, DefaultOption
<1>9. CASE L = X /\ B = <<>>
  <2>1. Calm(Text(B))
    BY <1>9, CalmNone
  <2>2. Calm(Text(N))
    BY <1>1, <1>6, <2>1, CalmNew
  <2>3. Len(F) <= Len(Text(N)) + Shortest
    BY <1>1, <1>4, <1>5, <1>7, <1>8, <1>9
  <2> QED BY <1>2, <2>2, <2>3
<1>10. CASE \E i \in 1..Len(L) : L = Append(X, L[i]) \o B /\ KeyOf(L[i]) = key
  <2>1. PICK i \in 1..Len(L) : L = Append(X, L[i]) \o B /\ KeyOf(L[i]) = key
    BY <1>10
  <2>2. L[i] \in Plain /\ DOMAIN L = 1..Len(L)
    BY ElementOfSeq, LenProperties DEF Pages
  <2>3. Append(X, L[i]) \in Pages
    BY <2>2, AppendProperties DEF Pages
  <2>4. Calm(Text(B))
    BY <1>4, <2>1, <2>3, CalmTail
  <2>5. Calm(Text(N))
    BY <1>1, <1>6, <2>4, CalmNew
  <2>6. Len(L[i]) <= Len(line) + Shortest
    BY <2>1, <2>2 DEF ShrinksLittle
  <2>7. Len(Text(L)) = (Len(Text(X)) + (Len(L[i]) + 1)) + Len(Text(B))
    <3>1. Len(Text(Append(X, L[i]) \o B)) = (Len(Text(X)) + (Len(L[i]) + 1)) + Len(Text(B))
      BY <1>1, <2>2, LenAround, Zenon
    <3> QED BY <2>1, <3>1, Zenon
  <2>8. Len(L[i]) \in Nat
    BY <2>2, LenProperties DEF Plain
  <2>9. Len(F) <= Len(Text(N)) + Shortest
    BY <1>1, <1>4, <1>5, <1>7, <1>8, <2>6, <2>7, <2>8
  <2> QED BY <1>2, <2>5, <2>9
<1> QED BY <1>3, <1>9, <1>10 DEF Around

LEMMA OverEnd ==
  ASSUME NEW F \in Texts, NEW T \in Texts, Calm(F), Len(F) <= Len(T) + Shortest
  PROVE  \E q \in Texts : Over(F, T) = T \o q /\ Quiet(Lines(q)) /\ Calm(q)
<1>1. Len(F) \in Nat /\ Len(T) \in Nat /\ Shortest = 3
  BY TextLen DEF Shortest, DefaultOption
<1> DEFINE q == SubSeq(F, Len(T) + 1, Len(F))
<1>2. Over(F, T) = T \o q
  BY DEF Over
<1>3. CASE Len(T) <= Len(F)
  <2>1. PICK front \in Texts, back \in Texts :
           /\ F = front \o back /\ Len(front) = Len(T)
           /\ back = SubSeq(F, Len(T) + 1, Len(F)) /\ Len(back) = Len(F) - Len(T)
    BY <1>1, <1>3, Split
  <2>2. q \in Texts /\ q = back
    BY <2>1
  <2>3. Len(back) <= Shortest
    BY <1>1, <2>1
  <2>4. Quiet(Lines(q)) /\ Calm(q)
    <3>1. Quiet(Lines(back))
      BY <2>1, <2>3, Zenon DEF Calm
    <3>2. Calm(front \o back)
      BY <2>1, Zenon
    <3>3. Calm(back)
      BY <3>2, CalmEnd
    <3> QED BY <2>2, <3>1, <3>3, Zenon
  <2> QED BY <1>2, <2>2, <2>4
<1>4. CASE Len(F) < Len(T)
  <2>1. q = <<>>
    <3>1. Len(F) \in Int /\ Len(T) + 1 \in Int /\ Len(F) < Len(T) + 1
      BY <1>1, <1>4
    <3> QED BY <3>1, SubSeqEmpty
  <2>2. q \in Texts /\ Quiet(Lines(q)) /\ Calm(q)
    <3>1. <<>> \in Texts
      BY DEF Texts
    <3> QED BY <2>1, <3>1, NoLines, CalmNone, TextNone, Zenon
  <2> QED BY <1>2, <2>2
<1> QED BY <1>1, <1>3, <1>4

-----------------------------------------------------------------------------
(* The files the program and the user begin with                             *)

LEMMA OrderOf ==
  ASSUME NEW S, IsFiniteSet(S)
  PROVE  \E n \in Nat : /\ SetToSeq(S) \in [1..n -> S]
                        /\ \A i, j \in 1..n : SetToSeq(S)[i] = SetToSeq(S)[j] => i = j
                        /\ \A e \in S : \E i \in 1..n : SetToSeq(S)[i] = e
<1> DEFINE n == Cardinality(S)
<1>1. n \in Nat /\ ExistsBijection(1..n, S)
  BY FS_CardinalityType
<1>2. IsFiniteSet(1..n) /\ Cardinality(1..n) = n
  BY <1>1, FS_Interval
<1> HIDE DEF n
<1>3. PICK f \in Bijection(1..n, S) : TRUE
  BY <1>1 DEF ExistsBijection
<1>4. f \in [1..n -> S] /\ IsInjective(f)
  BY <1>3 DEF Bijection, Injection
<1>5. SetToSeq(S) \in [1..n -> S] /\ IsInjective(SetToSeq(S))
  <2>1. SetToSeq(S) = CHOOSE g \in [1..n -> S] : IsInjective(g)
    BY DEF SetToSeq, n
  <2> QED BY <1>4, <2>1
<1>6. SetToSeq(S) \in Injection(1..n, S)
  BY <1>5 DEF Injection
<1>7. SetToSeq(S) \in Surjection(1..n, S)
  BY <1>2, <1>6, FS_Injection DEF n
<1> QED BY <1>1, <1>5, <1>7 DEF Surjection, IsInjective

\* A comment or the line of a key, each key once.
LEMMA DefaultLines ==
  ASSUME SettingsFit
  PROVE  /\ DefaultFile \in Pages
         /\ \A i \in DOMAIN DefaultFile :
              \/ DefaultFile[i] = <<"#">>
              \/ \E k \in Keys : DefaultFile[i] = Line(k, DefaultPrinted(k))
         /\ \A k \in Keys : \E i \in DOMAIN DefaultFile : DefaultFile[i] = Line(k, DefaultPrinted(k))
         /\ OneLineEach(DefaultFile)
         /\ DefaultFile # <<>> =>
              \E A \in Pages, k \in Keys : DefaultFile = Append(A, Line(k, DefaultPrinted(k)))
<1> DEFINE order == SetToSeq(Keys)
<1>1. PICK n \in Nat : /\ order \in [1..n -> Keys]
                       /\ \A i, j \in 1..n : order[i] = order[j] => i = j
                       /\ \A e \in Keys : \E i \in 1..n : order[i] = e
  BY OrderOf DEF SettingsFit
<1> DEFINE line(k) == Line(k, DefaultPrinted(k))
           cell(i) == IF i % 2 = 1 THEN <<"#">> ELSE line(order[i \div 2])
           D == [i \in 1..(2 * n) |-> cell(i)]
<1>2. DefaultFile = D
  <2>1. Len(order) = n
    <3>1. order \in Seq(Keys)
      BY <1>1, SeqDef
    <3> QED BY <1>1, <3>1, LenProperties
  <2> QED BY <2>1 DEF DefaultFile
<1> HIDE DEF order
<1>3. "#" \notin Keys
  BY DEF SettingsFit
<1>4. ASSUME NEW k \in Keys
      PROVE  line(k) \in Plain /\ KeyOf(line(k)) = k /\ DefaultPrinted(k) \in {1, 2}
  <2>1. DefaultPrinted(k) \in {1, 2}
    BY DEF DefaultPrinted, DefaultOption
  <2>2. DefaultPrinted(k) \in Nat /\ DefaultPrinted(k) # 0
    BY <2>1
  <2> QED BY <2>1, <2>2, LineType, OwnLine
<1>5. <<"#">> \in Plain /\ KeyOf(<<"#">>) = "#"
  BY DEF Plain, Marks, KeyOf
<1>6. ASSUME NEW i \in 1..(2 * n), i % 2 # 1
      PROVE  i \div 2 \in 1..n /\ i = 2 * (i \div 2) /\ order[i \div 2] \in Keys
  <2>1. i \div 2 \in 1..n /\ i = 2 * (i \div 2)
    BY <1>6
  <2> QED BY <1>1, <2>1
<1>7. ASSUME NEW j \in 1..n
      PROVE  2 * j \in 1..(2 * n) /\ (2 * j) % 2 # 1 /\ (2 * j) \div 2 = j
  OBVIOUS
<1> HIDE DEF line
<1>8. \A i \in 1..(2 * n) : cell(i) \in Plain
  BY <1>4, <1>5, <1>6
<1>9. D \in Pages /\ DOMAIN D = 1..(2 * n) /\ Len(D) = 2 * n
  <2>1. D \in [1..(2 * n) -> Plain]
    BY <1>8
  <2>2. 2 * n \in Nat
    OBVIOUS
  <2>3. D \in Pages
    BY <2>1, <2>2, SeqDef DEF Pages
  <2> QED BY <2>1, <2>2, <2>3, LenProperties DEF Pages
<1>10. \A i \in 1..(2 * n) : D[i] = <<"#">> \/ \E k \in Keys : D[i] = line(k)
  BY <1>6
<1>11. \A k \in Keys : \E i \in 1..(2 * n) : D[i] = line(k)
  <2> TAKE k \in Keys
  <2>1. PICK j \in 1..n : order[j] = k
    BY <1>1
  <2>2. D[2 * j] = line(k)
    BY <1>7, <2>1
  <2> QED BY <1>7, <2>2
<1>12. OneLineEach(D)
  <2> SUFFICES ASSUME NEW i \in 1..(2 * n), NEW j \in 1..(2 * n),
                      KeyOf(D[i]) \in Keys, KeyOf(D[i]) = KeyOf(D[j])
               PROVE  i = j
    BY <1>9 DEF OneLineEach
  <2>1. i % 2 # 1 /\ j % 2 # 1
    BY <1>3, <1>5
  <2>2. KeyOf(D[i]) = order[i \div 2] /\ KeyOf(D[j]) = order[j \div 2]
    BY <1>4, <1>6, <2>1
  <2>3. i \div 2 = j \div 2
    BY <1>1, <1>6, <2>1, <2>2
  <2> QED BY <1>6, <2>1, <2>3
<1>13. ASSUME D # <<>>
       PROVE  \E A \in Pages, k \in Keys : D = Append(A, line(k))
  <2>1. n # 0
    BY <1>9, <1>13, EmptySeq DEF Pages
  <2>5. n \in 1..n /\ D[2 * n] = line(order[n]) /\ order[n] \in Keys
    <3>1. n \in 1..n
      BY <2>1
    <3> QED BY <1>1, <1>7, <3>1
  <2> HIDE DEF D
  <2>2. PICK A \in Pages, y \in Plain : D = Append(A, y)
    BY <1>9, <1>13, SequenceEmptyOrAppend DEF Pages
  <2>3. Len(D) = Len(A) + 1 /\ D[Len(A) + 1] = y
    <3>1. Len(Append(A, y)) = Len(A) + 1 /\ Append(A, y)[Len(A) + 1] = y
      BY AppendProperties DEF Pages
    <3> QED BY <2>2, <3>1, Zenon
  <2>4. 2 * n = Len(A) + 1
    BY <1>9, <2>3
  <2> QED BY <2>2, <2>3, <2>4, <2>5
<1> HIDE DEF D
<1> QED BY <1>2, <1>9, <1>10, <1>11, <1>12, <1>13 DEF line

\* A text that reads back as it should, now and after every change
Sound(text) ==
  /\ text \in Texts /\ Calm(text)
  /\ OneLineEach(Lines(text)) /\ ShrinksLittle(Lines(text))

LEMMA DefaultSound ==
  ASSUME SettingsFit
  PROVE  /\ Sound(Text(DefaultFile))
         /\ \A k \in Keys : Parsed(Text(DefaultFile))[k] = DefaultPrinted(k)
<1> DEFINE D == DefaultFile
<1>1. /\ D \in Pages /\ OneLineEach(D)
      /\ \A i \in DOMAIN D : D[i] = <<"#">> \/ \E k \in Keys : D[i] = Line(k, DefaultPrinted(k))
      /\ \A k \in Keys : \E i \in DOMAIN D : D[i] = Line(k, DefaultPrinted(k))
      /\ D # <<>> => \E A \in Pages, k \in Keys : D = Append(A, Line(k, DefaultPrinted(k)))
  BY DefaultLines
<1> HIDE DEF D
<1>2. NL \notin Marks /\ "#" \notin Keys /\ Values \subseteq Nat
  BY DEF SettingsFit
<1>3. Lines(Text(D)) = D /\ Text(D) \in Texts
  <2>1. <<>> \in Plain
    BY DEF Plain
  <2> QED BY <1>1, <1>2, <2>1, LinesOfText, TextType
<1>4. \A k \in Keys : DefaultPrinted(k) \in {1, 2}
  BY DEF DefaultPrinted, DefaultOption
<1>5. ASSUME NEW k \in Keys
      PROVE  /\ DefaultPrinted(k) \in Nat /\ DefaultPrinted(k) # 0 /\ Len(Line(k, DefaultPrinted(k))) <= 4
             /\ KeyOf(Line(k, DefaultPrinted(k))) = k /\ ValueOf(Line(k, DefaultPrinted(k))) = DefaultPrinted(k)
  <2>1. DefaultPrinted(k) \in Nat /\ DefaultPrinted(k) # 0 /\ DefaultPrinted(k) + 2 <= 4
    BY <1>4
  <2> QED BY <2>1, LineType, OwnLine
<1>6. Calm(Text(D))
  <2>1. CASE D = <<>>
    BY <2>1, CalmNone
  <2>2. CASE D # <<>>
    <3>1. PICK A \in Pages, k \in Keys : D = Append(A, Line(k, DefaultPrinted(k)))
      BY <1>1, <2>2
    <3>2. Calm(Text(Append(A, Line(k, DefaultPrinted(k)))))
      BY <1>2, <1>5, CalmAppend
    <3> QED BY <3>1, <3>2, Zenon
  <2> QED BY <2>1, <2>2
<1>7. ShrinksLittle(D)
  <2> SUFFICES ASSUME NEW i \in DOMAIN D, NEW m \in Values, KeyOf(D[i]) \in Keys
               PROVE  Len(D[i]) <= Len(Line(KeyOf(D[i]), m)) + Shortest
    BY DEF ShrinksLittle
  <2>1. KeyOf(<<"#">>) = "#"
    BY DEF KeyOf
  <2>2. PICK k \in Keys : D[i] = Line(k, DefaultPrinted(k))
    BY <1>1, <1>2, <2>1
  <2>3. Len(D[i]) <= 4 /\ KeyOf(D[i]) = k /\ Len(D[i]) \in Nat
    <3>1. Line(k, DefaultPrinted(k)) \in Plain
      BY <1>5, LineType
    <3> QED BY <1>5, <2>2, <3>1, LenProperties DEF Plain
  <2>4. Len(Line(k, m)) = m + 2 /\ m \in Nat /\ Shortest = 3
    BY <1>2, LineType DEF Shortest, DefaultOption
  <2> QED BY <2>3, <2>4
<1>8. ASSUME NEW k \in Keys PROVE Parsed(Text(D))[k] = DefaultPrinted(k)
  <2>1. PICK i \in DOMAIN D : D[i] = Line(k, DefaultPrinted(k))
    BY <1>1
  <2>2. KeyOf(D[i]) = k /\ ValueOf(D[i]) = DefaultPrinted(k) /\ DefaultPrinted(k) # 0
    BY <1>5, <2>1
  <2> QED BY <1>1, <1>3, <2>2, ParsedIn
<1> QED BY <1>1, <1>3, <1>6, <1>7, <1>8 DEF D, Sound

\* The cells before a last NL.
LEMMA FrontOfClosed ==
  ASSUME NEW u \in Texts
  PROVE  Front(u \o <<NL>>) = u
<1> DEFINE nl == <<NL>>
           s == u \o nl
           m == Len(u)
<1>1. nl \in Texts /\ Len(nl) = 1 /\ m \in Nat
  BY TextLen DEF Texts
<1>2. s \in Texts /\ Len(s) = m + 1
  BY <1>1, CatType, CatLen
<1>3. Front(s) = SubSeq(s, 0 + 1, 0 + m)
  BY <1>1, <1>2 DEF Front
<1>4. \A i \in 1..m : s[i] = u[i]
  BY <1>1, CatLeft
<1> HIDE DEF s, m
<1>5. \A l \in Nat : l + m <= Len(s) =>
        /\ SubSeq(s, l + 1, l + m) \in Texts /\ Len(SubSeq(s, l + 1, l + m)) = m
        /\ \A j \in 1..m : SubSeq(s, l + 1, l + m)[j] = s[l + j]
  BY <1>1, <1>2, Piece
<1>6. 0 \in Nat /\ 0 + m <= Len(s) /\ \A j \in 1..m : 0 + j = j
  BY <1>1, <1>2
<1>7. /\ Front(s) \in Texts /\ Len(Front(s)) = m /\ \A j \in 1..m : Front(s)[j] = s[j]
  <2>1. /\ SubSeq(s, 0 + 1, 0 + m) \in Texts /\ Len(SubSeq(s, 0 + 1, 0 + m)) = m
        /\ \A j \in 1..m : SubSeq(s, 0 + 1, 0 + m)[j] = s[0 + j]
    BY <1>5, <1>6, Zenon
  <2> QED BY <1>3, <1>6, <2>1, Zenon
<1>8. Front(s) = u
  <2>1. Len(Front(s)) = Len(u) /\ \A j \in 1..Len(Front(s)) : Front(s)[j] = u[j]
    BY <1>4, <1>7 DEF m
  <2> QED BY <1>7, <2>1, SameText
<1> QED BY <1>8 DEF s

LEMMA CardSound ==
  ASSUME SettingsFit, NEW text \in Cards
  PROVE  Sound(text)
<1>1. /\ NL \notin Marks /\ HarmlessEnd(text)
      /\ \A f \in Files : f \in Pages /\ OneLineEach(f) /\ ShrinksLittle(f)
  BY DEF SettingsFit, Pages, Plain
<1>2. <<>> \in Plain /\ <<>> \in Pages
  BY DEF Plain, Pages
<1>3. text \in Texts /\ OneLineEach(Lines(text)) /\ ShrinksLittle(Lines(text))
  <2>1. CASE text = <<>>
    <3>1. <<>> \in Texts /\ OneLineEach(<<>>) /\ ShrinksLittle(<<>>)
      BY DEF Texts, OneLineEach, ShrinksLittle
    <3> QED BY <2>1, <3>1, NoLines
  <2>2. CASE \E f \in Files : text = Text(f)
    BY <1>1, <1>2, <2>2, LinesOfText, TextType
  <2>3. CASE \E f \in Files \ {<<>>} : text = Front(Text(f))
    <3>1. PICK f \in Files : f # <<>> /\ text = Front(Text(f))
      BY <2>3
    <3>2. PICK D \in Pages, y \in Plain : f = Append(D, y)
      BY <1>1, <3>1, SequenceEmptyOrAppend DEF Pages
    <3>3. Text(f) = (Text(D) \o y) \o <<NL>> /\ Text(D) \o y \in Texts
      BY <1>1, <3>2, Closed, LinesOfText
    <3>4. text = Text(D) \o y
      BY <3>1, <3>3, FrontOfClosed
    <3>5. Lines(text) = (IF y = <<>> THEN D ELSE Append(D, y))
      BY <1>1, <3>4, LinesOfText
    <3>6. OneLineEach(D) /\ ShrinksLittle(D)
      <4>1. /\ Len(f) = Len(D) + 1 /\ DOMAIN f = 1..Len(f) /\ DOMAIN D = 1..Len(D) /\ Len(D) \in Nat
            /\ \A j \in 1..Len(D) : f[j] = D[j]
        BY <3>2, AppendProperties, LenProperties DEF Pages
      <4>2. \A j \in DOMAIN D : j \in DOMAIN f /\ f[j] = D[j]
        BY <4>1
      <4> QED BY <1>1, <4>2 DEF OneLineEach, ShrinksLittle
    <3> QED BY <1>1, <3>2, <3>3, <3>4, <3>5, <3>6
  <2> QED BY <2>1, <2>2, <2>3 DEF Cards
<1>4. Calm(text)
  BY <1>1, <1>3, HarmlessIsCalm
<1> QED BY <1>3, <1>4 DEF Sound

LEMMA SetSound ==
  ASSUME SettingsFit, NEW F, Sound(F), NEW key \in Keys, NEW n \in Values,
         NEW G, G = Over(F, Text(SetInLines(Lines(F), key, n)))
  PROVE  /\ Sound(G) /\ Parsed(G)[key] = n
         /\ \A k \in Keys \ {key} : Parsed(G)[k] = Parsed(F)[k]
<1> DEFINE L == Lines(F)
           N == SetInLines(L, key, n)
<1>1. /\ NL \notin Marks /\ n \in Nat /\ n # 0
      /\ F \in Texts /\ Calm(F) /\ OneLineEach(L) /\ ShrinksLittle(L)
  BY DEF SettingsFit, Sound
<1>2. L \in Pages
  <2>1. PICK A \in Pages, x \in Plain : F = Text(A) \o x
    BY <1>1, TextIsLines
  <2> QED BY <1>1, <2>1, LinesOfText
<1>3. N \in Pages /\ Calm(Text(N)) /\ Len(F) <= Len(Text(N)) + Shortest
  <2> HIDE DEF L
  <2>1. L = Lines(F)
    BY DEF L
  <2> QED BY <1>1, <1>2, <2>1, ChangedLines
<1>4. PICK q \in Texts : Over(F, Text(N)) = Text(N) \o q /\ Quiet(Lines(q)) /\ Calm(q)
  BY <1>1, <1>3, OverEnd, TextType
<1>5. G = Text(N) \o q
  BY <1>4
<1>6. Lines(G) = N \o Lines(q) /\ Lines(q) \in Pages
  BY <1>1, <1>3, <1>5, LinesConcat
<1>7. Calm(G) /\ G \in Texts
  BY <1>1, <1>3, <1>4, <1>5, CalmOver, CatType, TextType
<1> DEFINE M == Lines(G)
<1>8. /\ M \in Pages /\ OneLineEach(M) /\ ShrinksLittle(M)
      /\ \E i \in DOMAIN M : M[i] = Line(key, n)
      /\ \A j \in DOMAIN M : KeyOf(M[j]) \in Keys \ {key} => j \in DOMAIN L /\ M[j] = L[j]
      /\ \A j \in DOMAIN L : KeyOf(L[j]) \in Keys \ {key} => j \in DOMAIN M /\ M[j] = L[j]
  <2>1. M = SetInLines(L, key, n) \o Lines(q)
    BY <1>6
  <2> DEFINE Q == Lines(q)
  <2>2. Followed(M, SetInLines(L, key, n), Q) /\ Q \in Pages /\ Quiet(Q)
    BY <1>4, <1>6, <2>1 DEF Followed
  <2> HIDE DEF L, M, N, Q
  <2> QED BY <1>1, <1>2, <2>2, ChangedOneEach
<1>9. Parsed(G)[key] = n
  <2>1. PICK i \in DOMAIN M : M[i] = Line(key, n)
    BY <1>8
  <2>2. KeyOf(M[i]) = key /\ ValueOf(M[i]) = n
    BY <1>1, <2>1, OwnLine
  <2> QED BY <1>1, <1>8, <2>2, ParsedIn
<1>10. ASSUME NEW k \in Keys \ {key} PROVE Parsed(G)[k] = Parsed(F)[k]
  <2>1. CASE \E i \in DOMAIN L : KeyOf(L[i]) = k
    <3>1. PICK i \in DOMAIN L : KeyOf(L[i]) = k
      BY <2>1
    <3>2. i \in DOMAIN M /\ M[i] = L[i]
      BY <1>8, <3>1
    <3>3. Parsed(F)[k] = IF ValueOf(L[i]) = 0 THEN DefaultOption ELSE ValueOf(L[i])
      BY <1>1, <1>2, <3>1, ParsedIn
    <3>4. Parsed(G)[k] = IF ValueOf(M[i]) = 0 THEN DefaultOption ELSE ValueOf(M[i])
      BY <1>8, <3>1, <3>2, ParsedIn
    <3> QED BY <3>2, <3>3, <3>4
  <2>2. CASE \A i \in DOMAIN L : KeyOf(L[i]) # k
    <3>1. \A i \in DOMAIN M : KeyOf(M[i]) # k
      BY <1>8, <2>2
    <3>2. Parsed(F)[k] = DefaultOption /\ Parsed(G)[k] = DefaultOption
      BY <2>2, <3>1, ParsedOut
    <3> QED BY <3>2
  <2> QED BY <2>1, <2>2
<1> QED BY <1>7, <1>8, <1>9, <1>10 DEF Sound

-----------------------------------------------------------------------------
(* The file on the card reads back as it should and as the options in use,   *)
(* before the first start too.                                               *)
ConfigInv ==
  /\ Sound(file) /\ printed \subseteq Keys /\ DOMAIN options = Keys
  /\ \A k \in Keys \ (printed \cap Misprinted) : Parsed(file)[k] = options[k]

LEMMA ConfigInit == ASSUME SettingsFit, Init PROVE ConfigInv
  BY CardSound DEF Init, ConfigInv, Parsed

LEMMA ConfigNext ==
  ASSUME SettingsFit, ConfigInv, [Next]_vars
  PROVE  ConfigInv'
<1>1. CASE ConfigLoad
  <2>1. CASE file = <<>>
    <3>1. /\ options' = [k \in Keys |-> DefaultOption] /\ file' = Text(DefaultFile) /\ printed' = Keys
      BY <1>1, <2>1 DEF ConfigLoad
    <3>2. \A k \in Keys \ Misprinted : DefaultPrinted(k) = DefaultOption
      BY DEF DefaultPrinted
    <3>3. Sound(file')
      BY <3>1, DefaultSound
    <3>4. \A k \in Keys \ Misprinted : Parsed(file')[k] = options'[k]
      BY <3>1, <3>2, DefaultSound
    <3> QED BY <3>1, <3>3, <3>4 DEF ConfigInv
  <2>2. CASE file # <<>>
    <3>1. options' = Parsed(file) /\ printed' = {} /\ file' = file
      BY <1>1, <2>2 DEF ConfigLoad
    <3>2. DOMAIN Parsed(file) = Keys
      BY DEF Parsed
    <3> QED BY <3>1, <3>2 DEF ConfigInv
  <2> QED BY <2>1, <2>2
<1>2. ASSUME NEW key \in Keys, NEW n \in Values, ConfigSetValue(key, n)
      PROVE  ConfigInv'
  <2>1. /\ options' = [options EXCEPT ![key] = n] /\ printed' = printed \ {key}
        /\ file' = Over(file, Text(SetInLines(Lines(file), key, n)))
    BY <1>2 DEF ConfigSetValue
  <2>2. /\ Sound(file') /\ Parsed(file')[key] = n
        /\ \A k \in Keys \ {key} : Parsed(file')[k] = Parsed(file)[k]
    BY <2>1, SetSound DEF ConfigInv
  <2>3. ASSUME NEW k \in Keys \ (printed' \cap Misprinted) PROVE Parsed(file')[k] = options'[k]
    <3>1. CASE k = key
      BY <2>1, <2>2, <3>1 DEF ConfigInv
    <3>2. CASE k # key
      <4>1. k \notin printed \cap Misprinted /\ options'[k] = options[k]
        BY <2>1, <2>3, <3>2 DEF ConfigInv
      <4> QED BY <2>2, <3>2, <4>1 DEF ConfigInv
    <3> QED BY <3>1, <3>2
  <2>4. printed' \subseteq Keys /\ DOMAIN options' = Keys
    BY <2>1 DEF ConfigInv
  <2> QED BY <2>2, <2>3, <2>4 DEF ConfigInv
<1>3. CASE UNCHANGED vars
  BY <1>3 DEF vars, ConfigInv
<1> QED BY <1>1, <1>2, <1>3 DEF Next

(* What the Config window set is in force after the next start, and so is what it *)
(* did not touch.                                                                 *)
THEOREM SettingsSurvive == ASSUME SettingsFit PROVE Spec => []SettingsLast
<1>1. Init => ConfigInv
  BY ConfigInit
<1>2. ConfigInv /\ [Next]_vars => ConfigInv'
  BY ConfigNext
<1>3. ConfigInv => SettingsLast
  BY DEF ConfigInv, SettingsLast
<1> QED BY <1>1, <1>2, <1>3, PTL DEF Spec


-----------------------------------------------------------------------------
(* The ROM Browser                                                           *)

CONSTANTS Counts, Pictures, VISIBLE_ROWS, MaxChanges
VARIABLES
  open_flag, count, selected, top, preview_for, preview_w, preview_upload, preview_tex,
  in_memory, paint_seq, painted_seq, tex_upload, tex, shown, wpc, changes, dpc, seq, row,
  upload, sampling

Win == INSTANCE Popup

\* A change of the window that the sequence number does not tell of yet.
HalfWay == wpc \in {"scroll", "preview", "decode", "size", "upload", "dirty"}

Places ==
  /\ count \in Nat /\ selected \in Nat /\ top \in Nat /\ row \in Nat
  /\ paint_seq \in Nat /\ painted_seq \in Nat /\ seq \in Nat
  /\ painted_seq <= paint_seq /\ seq <= paint_seq
  /\ tex \in [Win!Rows -> [rom : Int, lit : BOOLEAN]]
  /\ dpc = "row" => row < VISIBLE_ROWS

\* The selected ROM is one of the rows, unless the list has yet to scroll.
SelectedVisible ==
  /\ count > 0 => selected < count
  /\ count > 0 /\ wpc # "scroll" => top <= selected /\ selected < top + VISIBLE_ROWS

Painting ==
  /\ dpc \in {"snapshot", "row", "painted"} => painted_seq # paint_seq
  /\ dpc = "row" /\ seq = paint_seq /\ ~HalfWay =>
       \A r \in Win!Rows : tex[r] = IF r < row THEN Win!RowOf(r) ELSE Win!Empty
  /\ dpc = "painted" /\ seq = paint_seq /\ ~HalfWay => \A r \in Win!Rows : tex[r] = Win!RowOf(r)
  /\ painted_seq = paint_seq /\ ~HalfWay => \A r \in Win!Rows : tex[r] = Win!RowOf(r)

PanelInv == Places /\ SelectedVisible /\ Painting

-----------------------------------------------------------------------------
LEMMA RowType ==
  ASSUME Places, NEW r \in Win!Rows
  PROVE  Win!RowOf(r) \in [rom : Int, lit : BOOLEAN] /\ Win!Empty \in [rom : Int, lit : BOOLEAN]
<1>1. Win!Empty \in [rom : Int, lit : BOOLEAN]
  BY DEF Win!Empty, Win!None
<1>2. top + r \in Int /\ (top + r = selected) \in BOOLEAN
  BY DEF Places, Win!Rows
<1>3. [rom |-> top + r, lit |-> top + r = selected] \in [rom : Int, lit : BOOLEAN]
  BY <1>2, Zenon
<1> QED BY <1>1, <1>3 DEF Win!RowOf

LEMMA InitPanel ==
  ASSUME VISIBLE_ROWS \in Nat \ {0}, Win!Init
  PROVE  PanelInv
<1>1. Win!Background \in [Win!Rows -> [rom : Int, lit : BOOLEAN]]
  <2>1. Win!Empty \in [rom : Int, lit : BOOLEAN]
    BY DEF Win!Empty, Win!None
  <2> QED BY <2>1 DEF Win!Background
<1> QED BY <1>1 DEF Win!Init, PanelInv, Places, SelectedVisible, Painting, HalfWay

\* The worker's steps that leave the window and the numbers alone.
LEMMA QuietSteps ==
  ASSUME PanelInv,
         Win!FindPreview \/ Win!Decode \/ Win!SetSize \/ Win!SetUpload \/ Win!Show \/ Win!Close \/ Win!FreePreview \/ Win!Hide
  PROVE  PanelInv'
<1>1. /\ UNCHANGED <<count, selected, top, paint_seq, Win!panel, Win!display>>
      /\ (HalfWay' <=> HalfWay) /\ wpc # "scroll" /\ wpc' # "scroll"
  <2>1. CASE Win!FindPreview BY <2>1 DEF Win!FindPreview, Win!window, HalfWay
  <2>2. CASE Win!Decode BY <2>2 DEF Win!Decode, Win!window, HalfWay
  <2>3. CASE Win!SetSize BY <2>3 DEF Win!SetSize, Win!window, HalfWay
  <2>4. CASE Win!SetUpload BY <2>4 DEF Win!SetUpload, Win!window, HalfWay
  <2>5. CASE Win!Show BY <2>5 DEF Win!Show, HalfWay
  <2>6. CASE Win!Close BY <2>6 DEF Win!Close, Win!window, HalfWay
  <2>7. CASE Win!FreePreview BY <2>7 DEF Win!FreePreview, Win!window, HalfWay
  <2>8. CASE Win!Hide BY <2>8 DEF Win!Hide, HalfWay
  <2> QED BY <2>1, <2>2, <2>3, <2>4, <2>5, <2>6, <2>7, <2>8
<1>2. Places'
  BY <1>1 DEF PanelInv, Places, Win!panel, Win!display
<1>3. SelectedVisible'
  BY <1>1 DEF PanelInv, SelectedVisible
<1>4. Painting'
  BY <1>1 DEF PanelInv, Painting, Win!panel, Win!display, Win!RowOf
<1> QED BY <1>2, <1>3, <1>4 DEF PanelInv

\* The steps that begin or go on with a change.
LEMMA ChangeSteps ==
  ASSUME VISIBLE_ROWS \in Nat \ {0}, Counts \subseteq Nat, PanelInv,
         (\E n \in Counts : Win!Open(n)) \/ (\E step \in {1, count - 1} : Win!Move(step)) \/ Win!Scroll
  PROVE  PanelInv'
<1>1. UNCHANGED <<paint_seq, Win!panel, Win!display>> /\ HalfWay'
  BY DEF Win!Open, Win!Move, Win!Scroll, HalfWay
<1>2. CASE \E n \in Counts : Win!Open(n)
  <2>1. PICK n \in Counts : Win!Open(n)
    BY <1>2
  <2>2. count' \in Nat /\ selected' = 0 /\ top' = 0 /\ wpc' = "preview"
    BY <2>1 DEF Win!Open
  <2> QED BY <1>1, <2>2 DEF PanelInv, Places, SelectedVisible, Painting, Win!panel, Win!display
<1>3. CASE \E step \in {1, count - 1} : Win!Move(step)
  <2>1. PICK step \in {1, count - 1} : Win!Move(step)
    BY <1>3
  <2>2. /\ count \in Nat /\ count > 0 /\ count' = count /\ top' = top /\ wpc' = "scroll"
        /\ selected' = (selected + step) % count
    BY <2>1 DEF Win!Move, Win!StepTo, PanelInv, Places
  <2>3. selected + step \in Nat
    BY <2>2 DEF PanelInv, Places
  <2>4. selected' \in Nat /\ selected' < count
    BY <2>2, <2>3
  <2> QED BY <1>1, <2>2, <2>4 DEF PanelInv, Places, SelectedVisible, Painting, Win!panel, Win!display
<1>4. CASE Win!Scroll
  <2>1. /\ UNCHANGED <<count, selected>> /\ wpc' = "preview"
        /\ top' = IF selected < top THEN selected
                  ELSE IF selected >= top + VISIBLE_ROWS THEN selected - VISIBLE_ROWS + 1
                  ELSE top
    BY <1>4 DEF Win!Scroll
  <2>2. top' \in Nat /\ top' <= selected /\ selected < top' + VISIBLE_ROWS
    BY <2>1 DEF PanelInv, Places
  <2> QED BY <1>1, <2>1, <2>2 DEF PanelInv, Places, SelectedVisible, Painting, Win!panel, Win!display
<1> QED BY <1>2, <1>3, <1>4

\* The end of a change: what was painted before is old now.
LEMMA DirtyStep ==
  ASSUME PanelInv, Win!MarkDirty
  PROVE  PanelInv'
<1>1. /\ UNCHANGED <<count, selected, top, Win!panel, Win!display>> /\ wpc = "dirty"
      /\ wpc' \in {"poll", "show"} /\ paint_seq' = paint_seq + 1
  BY DEF Win!MarkDirty, Win!window
<1>2. painted_seq' # paint_seq' /\ seq' # paint_seq'
  BY <1>1 DEF PanelInv, Places, Win!panel, Win!display
<1>3. Places'
  BY <1>1 DEF PanelInv, Places, Win!panel, Win!display
<1>4. SelectedVisible'
  BY <1>1 DEF PanelInv, SelectedVisible
<1>5. Painting'
  BY <1>2 DEF Painting
<1> QED BY <1>3, <1>4, <1>5 DEF PanelInv

\* The display thread, but for the painting itself.
LEMMA DrawSteps ==
  ASSUME PanelInv,
         Win!TestPaint \/ Win!StartList \/ Win!DrawPanel \/ Win!ReadUpload \/ Win!ClearUpload \/ Win!WriteBack \/ Win!DrawPreview
  PROVE  PanelInv'
<1>1. /\ UNCHANGED <<count, selected, top, wpc, paint_seq, painted_seq, tex, seq, row>>
      /\ dpc' \notin {"row", "painted"}
      /\ dpc' = "snapshot" => painted_seq # paint_seq
  BY DEF Win!TestPaint, Win!NeedsRepaint, Win!StartList, Win!DrawPanel, Win!ReadUpload, Win!ClearUpload, Win!WriteBack,
         Win!DrawPreview, Win!window, Win!panel, Win!worker
<1>2. Places'
  BY <1>1 DEF PanelInv, Places
<1>3. SelectedVisible'
  BY <1>1 DEF PanelInv, SelectedVisible
<1>4. Painting'
  BY <1>1 DEF PanelInv, Painting, Win!RowOf, HalfWay
<1> QED BY <1>2, <1>3, <1>4 DEF PanelInv

LEMMA PaintSteps ==
  ASSUME VISIBLE_ROWS \in Nat \ {0}, PanelInv, Win!Snapshot \/ Win!PaintRow \/ Win!FinishPaint
  PROVE  PanelInv'
<1>1. UNCHANGED <<Win!window, paint_seq, Win!worker>>
  BY DEF Win!Snapshot, Win!PaintRow, Win!FinishPaint
<1>2. SelectedVisible' /\ (HalfWay' <=> HalfWay) /\ \A r \in Win!Rows : Win!RowOf(r)' = Win!RowOf(r)
  BY <1>1 DEF PanelInv, SelectedVisible, HalfWay, Win!RowOf, Win!window, Win!worker
<1>3. CASE Win!Snapshot
  <2>1. /\ dpc = "snapshot" /\ dpc' = "row" /\ seq' = paint_seq /\ row' = 0
        /\ tex' = Win!Background /\ painted_seq' = painted_seq
    BY <1>3 DEF Win!Snapshot
  <2>2. Win!Empty \in [rom : Int, lit : BOOLEAN]
    BY DEF Win!Empty, Win!None
  <2>3. Win!Background \in [Win!Rows -> [rom : Int, lit : BOOLEAN]]
        /\ \A r \in Win!Rows : Win!Background[r] = Win!Empty /\ ~(r < 0)
    BY <2>2 DEF Win!Background, Win!Rows
  <2>4. Places'
    BY <1>1, <2>1, <2>3 DEF PanelInv, Places, Win!window, Win!worker
  <2>5. Painting'
    BY <1>1, <2>1, <2>3 DEF PanelInv, Painting
  <2> QED BY <1>2, <2>4, <2>5 DEF PanelInv
<1>4. CASE Win!PaintRow
  <2>1. /\ dpc = "row" /\ row' = row + 1 /\ tex' = [tex EXCEPT ![row] = Win!RowOf(row)]
        /\ dpc' = (IF top + row >= count \/ row + 1 = VISIBLE_ROWS THEN "painted" ELSE "row")
        /\ UNCHANGED <<seq, painted_seq>>
    BY <1>4 DEF Win!PaintRow
  <2>2. row \in Win!Rows /\ row \in Nat /\ row < VISIBLE_ROWS
    BY <2>1 DEF PanelInv, Places, Win!Rows
  <2>3. /\ tex' \in [Win!Rows -> [rom : Int, lit : BOOLEAN]]
        /\ \A r \in Win!Rows : tex'[r] = IF r = row THEN Win!RowOf(r) ELSE tex[r]
    BY <2>1, <2>2, RowType DEF PanelInv, Places
  <2>4. Places'
    BY <1>1, <2>1, <2>2, <2>3 DEF PanelInv, Places, Win!window, Win!worker
  <2>5. painted_seq # paint_seq
    BY <2>1 DEF PanelInv, Painting
  <2>6. ASSUME seq = paint_seq, ~HalfWay, NEW r \in Win!Rows
        PROVE  /\ tex'[r] = IF r < row' THEN Win!RowOf(r) ELSE Win!Empty
               /\ dpc' = "painted" => tex'[r] = Win!RowOf(r)
    <3>1. tex[r] = IF r < row THEN Win!RowOf(r) ELSE Win!Empty
      BY <2>1, <2>6 DEF PanelInv, Painting
    <3>2. tex'[r] = IF r < row' THEN Win!RowOf(r) ELSE Win!Empty
      BY <2>1, <2>2, <2>3, <3>1 DEF Win!Rows
    <3>3. ASSUME dpc' = "painted", ~(r < row') PROVE Win!RowOf(r) = Win!Empty
      <4>1. top + row >= count \/ row + 1 = VISIBLE_ROWS
        BY <2>1, <3>3
      <4>2. top + r >= count
        BY <2>1, <2>2, <3>3, <4>1 DEF PanelInv, Places, Win!Rows
      <4> QED BY <4>2 DEF Win!RowOf
    <3> QED BY <3>2, <3>3
  <2>7. Painting'
    BY <1>1, <1>2, <2>1, <2>5, <2>6 DEF Painting
  <2> QED BY <1>2, <2>4, <2>7 DEF PanelInv
<1>5. CASE Win!FinishPaint
  <2>1. dpc = "painted" /\ painted_seq' = seq /\ dpc' = "sync" /\ row' = 0 /\ seq' = 0 /\ tex' = tex
    BY <1>5 DEF Win!FinishPaint, Win!PaintedTo
  <2>2. Places'
    BY <1>1, <2>1 DEF PanelInv, Places, Win!window, Win!worker
  <2>3. Painting'
    BY <1>1, <1>2, <2>1 DEF PanelInv, Painting
  <2> QED BY <1>2, <2>2, <2>3 DEF PanelInv
<1> QED BY <1>3, <1>4, <1>5

LEMMA NextPanel ==
  ASSUME VISIBLE_ROWS \in Nat \ {0}, Counts \subseteq Nat, PanelInv, [Win!Next]_Win!vars
  PROVE  PanelInv'
<1>1. CASE UNCHANGED Win!vars
  BY <1>1 DEF Win!vars, Win!window, Win!preview, Win!panel, Win!worker, Win!display, PanelInv, Places, SelectedVisible,
              Painting, HalfWay, Win!RowOf
<1>2. CASE Win!User
  BY <1>2, QuietSteps, ChangeSteps DEF Win!User
<1>3. CASE Win!Worker
  BY <1>3, QuietSteps, ChangeSteps, DirtyStep DEF Win!Worker
<1>4. CASE Win!Display
  BY <1>4, DrawSteps, PaintSteps DEF Win!Display
<1> QED BY <1>1, <1>2, <1>3, <1>4 DEF Win!Next

\* What the invariant says of a window that is at rest.
LEMMA PanelAtRest ==
  ASSUME VISIBLE_ROWS \in Nat \ {0}, PanelInv
  PROVE  Win!PaintedIsCurrent
<1> SUFFICES ASSUME wpc \in {"poll", "free", "hide"}, painted_seq = paint_seq
             PROVE  tex = Win!Current /\ (count > 0 => \E r \in Win!Rows : tex[r].lit)
  BY DEF Win!PaintedIsCurrent
<1>1. \A r \in Win!Rows : tex[r] = Win!RowOf(r)
  BY DEF PanelInv, Painting, HalfWay
<1>2. tex = Win!Current
  BY <1>1 DEF Win!Current, PanelInv, Places
<1>3. ASSUME count > 0 PROVE \E r \in Win!Rows : tex[r].lit
  <2>1. top <= selected /\ selected < top + VISIBLE_ROWS /\ selected < count
    BY <1>3 DEF PanelInv, SelectedVisible
  <2>2. selected - top \in Win!Rows /\ top + (selected - top) = selected /\ ~(selected >= count)
    BY <2>1 DEF PanelInv, Places, Win!Rows
  <2>3. Win!RowOf(selected - top).lit
    BY <2>2, Zenon DEF Win!RowOf
  <2> QED BY <1>1, <2>2, <2>3
<1> QED BY <1>2, <1>3

(* A panel that counts as painted shows the window as it is, with the         *)
(* selected ROM in it, though it was painted from a window in motion: for any  *)
(* number of rows and any list.                                                *)
THEOREM PaintedPanelIsCurrent ==
  ASSUME VISIBLE_ROWS \in Nat \ {0}, Counts \subseteq Nat
  PROVE  Win!Spec => []Win!PaintedIsCurrent
<1>1. Win!Init => PanelInv
  BY InitPanel
<1>2. PanelInv /\ [Win!Next]_Win!vars => PanelInv'
  BY NextPanel
<1>3. PanelInv => Win!PaintedIsCurrent
  BY PanelAtRest
<1> QED BY <1>1, <1>2, <1>3, PTL DEF Win!Spec

-----------------------------------------------------------------------------
(* The session *)

CONSTANT MaxCalls
VARIABLES up, http, infra_ready, connected, catalog_ok, body, rom, rom_ready, failed, calls

\* The window of the Game Center; its open_flag is the popup's.
Net == INSTANCE NetSession

(* A session that never failed has each layer once.  With it, and counts that  *)
(* never get below zero, SessionNests is inductive.                            *)
SessionInv ==
  /\ up \in [Net!Layers -> Nat]
  /\ infra_ready \in BOOLEAN /\ open_flag \in BOOLEAN
  /\ ~failed => up = [l \in Net!Layers |-> IF infra_ready THEN 1 ELSE 0]
  /\ Net!SessionNests

LEMMA InitSession == Net!Init => SessionInv
<1> SUFFICES ASSUME Net!Init PROVE SessionInv
  OBVIOUS
<1>1. up = [l \in Net!Layers |-> 0] /\ infra_ready = FALSE /\ connected = FALSE
      /\ open_flag = FALSE /\ catalog_ok = FALSE /\ rom_ready = FALSE
  BY DEF Net!Init
<1> QED BY <1>1 DEF SessionInv, Net!SessionNests

\* What open() brings up, from a closed window.
LEMMA InfrastructureUp ==
  ASSUME SessionInv, ~open_flag, Net!Infrastructure
  PROVE  /\ infra_ready' = TRUE /\ up' \in [Net!Layers -> Nat]
         /\ \A l \in Net!Layers : up'[l] > 0
         /\ ~failed => up' = [l \in Net!Layers |-> 1]
<1>1. ~infra_ready
  BY DEF SessionInv, Net!SessionNests
<1>2. up' = [l \in Net!Layers |-> up[l] + 1] /\ infra_ready' = TRUE
  BY <1>1 DEF Net!Infrastructure, Net!InitUpTo, Net!Layers
<1> QED BY <1>1, <1>2 DEF SessionInv

\* close() leaves what it found before open().
LEMMA CloseNetDown ==
  ASSUME SessionInv, Net!CloseNet
  PROVE  /\ infra_ready' = FALSE /\ connected' = FALSE /\ open_flag' = FALSE
         /\ up' \in [Net!Layers -> Nat]
         /\ ~failed => up' = [l \in Net!Layers |-> 0]
<1>1. CASE infra_ready
  <2>1. up' = [l \in Net!Layers |-> up[l] - 1]
    BY <1>1 DEF Net!CloseNet, Net!Shutdown
  <2>2. \A l \in Net!Layers : up[l] \in Nat /\ up[l] > 0
    BY <1>1 DEF SessionInv, Net!SessionNests
  <2>3. ~failed => \A l \in Net!Layers : up[l] = 1
    BY <1>1 DEF SessionInv
  <2> QED BY <2>1, <2>2, <2>3 DEF Net!CloseNet
<1>2. CASE ~infra_ready
  BY <1>2 DEF SessionInv, Net!CloseNet
<1> QED BY <1>1, <1>2

LEMMA StepSession == SessionInv /\ [Net!Next]_(Net!vars) => SessionInv'
<1> SUFFICES ASSUME SessionInv, [Net!Next]_(Net!vars) PROVE SessionInv'
  OBVIOUS
<1>1. CASE Net!OpenOffline
  BY <1>1 DEF Net!OpenOffline, SessionInv, Net!SessionNests
<1>2. ASSUME NEW n \in Net!Layers, Net!OpenInitFails(n) PROVE SessionInv'
  <2>1. up' = [l \in Net!Layers |-> IF l < n THEN up[l] + 1 ELSE up[l]] /\ failed' = TRUE
        /\ open_flag' = TRUE /\ catalog_ok' = FALSE /\ ~infra_ready
        /\ UNCHANGED <<infra_ready, connected, rom_ready>>
    BY <1>2 DEF Net!OpenInitFails, Net!InitUpTo
  <2>2. up' \in [Net!Layers -> Nat]
    BY <2>1 DEF SessionInv
  <2> QED BY <2>1, <2>2 DEF SessionInv, Net!SessionNests
<1>3. CASE Net!OpenConnectFails
  <2>1. ~open_flag /\ Net!Infrastructure /\ open_flag' = TRUE /\ catalog_ok' = FALSE
        /\ UNCHANGED <<connected, rom_ready, failed>>
    BY <1>3 DEF Net!OpenConnectFails
  <2> QED BY <2>1, InfrastructureUp DEF SessionInv, Net!SessionNests
<1>4. CASE Net!OpenConnected
  <2>1. ~open_flag /\ Net!Infrastructure /\ open_flag' = TRUE /\ connected' = TRUE
        /\ UNCHANGED <<rom_ready, failed>>
    BY <1>4 DEF Net!OpenConnected
  <2> QED BY <2>1, InfrastructureUp DEF SessionInv, Net!SessionNests
<1>5. CASE Net!UpdatePreview
  BY <1>5 DEF Net!UpdatePreview, SessionInv, Net!SessionNests
<1>6. CASE Net!LoadRom
  <2>1. open_flag /\ UNCHANGED <<up, infra_ready, connected, open_flag, catalog_ok, failed>>
    BY <1>6 DEF Net!LoadRom
  <2> QED BY <2>1 DEF SessionInv, Net!SessionNests
<1>7. CASE Net!TakeRom
  <2>1. open_flag /\ rom_ready' = FALSE /\ UNCHANGED <<catalog_ok, failed>>
    BY <1>7 DEF Net!TakeRom
  <2>2. CASE Net!CloseNet
    BY <2>1, <2>2, CloseNetDown DEF SessionInv, Net!SessionNests
  <2>3. CASE UNCHANGED <<up, infra_ready, connected, open_flag>>
    BY <2>1, <2>3 DEF SessionInv, Net!SessionNests
  <2> QED BY <1>7, <2>2, <2>3 DEF Net!TakeRom
<1>8. CASE Net!Close
  <2>1. ~rom_ready /\ Net!CloseNet /\ UNCHANGED <<catalog_ok, rom_ready, failed>>
    BY <1>8 DEF Net!Close
  <2> QED BY <2>1, CloseNetDown DEF SessionInv, Net!SessionNests
<1>9. CASE UNCHANGED Net!vars
  BY <1>9 DEF Net!vars, SessionInv, Net!SessionNests
<1> QED BY <1>1, <1>2, <1>3, <1>4, <1>5, <1>6, <1>7, <1>8, <1>9 DEF Net!Next

(* However often windows open, whatever fails to come up, breaks or is         *)
(* cancelled: games are only offered over a connection, no layer is used that  *)
(* is down, and a closed window leaves no connection behind, nor, before the   *)
(* first initialisation that fails, any layer.                                 *)
THEOREM SessionsNest == Net!Spec => []Net!SessionNests
<1>1. SessionInv => Net!SessionNests
  BY DEF SessionInv
<1> QED BY <1>1, InitSession, StepSession, PTL DEF Net!Spec

=============================================================================
