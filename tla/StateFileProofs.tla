--------------------------- MODULE StateFileProofs ---------------------------
(***************************************************************************)
(* The slot without boot ROM swaps (BootSwaps = FALSE, every image has the *)
(* same length) for any number of runs, failed operations, power losses    *)
(* and backup names.                                                       *)
(*                                                                         *)
(* The heart of the invariant is Files: whatever failed or was cut short,  *)
(* every file but the temporary one is absent or one whole image, and the  *)
(* temporary file is never longer than an image, so that writing over it   *)
(* without O_TRUNC leaves nothing of the old content behind.  Saving says  *)
(* what is where while a save is under way; Copies and Picture are about   *)
(* runs with power losses only, and with failures only.                    *)
(***************************************************************************)
EXTENDS StateFile, SequenceTheorems, TLAPS

\* The image of state s, header and payload.
Saved(s) == Image([mem |-> s, rest |-> s, boot |-> FALSE])

Parts == {"header", "memory", "memory+", "ram", "boot", "rest", "registers"}
UnitSet == [snap : Nat, part : Parts]
ImageLen == 5

\* What a file other than the temporary one may hold.
WholeOrAbsent(f) == f = Absent \/ (\E s \in 1..last : f = Saved(s))

Frozen ==
  /\ crashes \in 0..MaxCrashes /\ faults \in 0..MaxFaults
  /\ last \in 1..(MaxRuns + crashes + 1)
  /\ machine.mem \in 1..last
  /\ machine = [mem |-> machine.mem, rest |-> machine.mem, boot |-> FALSE]

Files ==
  /\ DOMAIN files = Names
  /\ files["tmp"] \in Seq(UnitSet) /\ Len(files["tmp"]) <= ImageLen
  /\ \A n \in Names \ {"tmp"} : WholeOrAbsent(files[n])

Window ==
  /\ pc \in {"game", "browse", "write", "rename", "backup", "rename2", "unlink", "giveup",
             "shot", "drop"}
  /\ mode \in {"save", "load"} /\ occupied \in BOOLEAN /\ ok \in BOOLEAN
  /\ status \in {"none", "saving", "saved", "failed", "invalid", "empty"}
  /\ shot \in 0..last /\ acked \in 0..last /\ overdue \in BOOLEAN

Saving ==
  /\ pc \in {"write", "rename", "backup", "rename2"} => buf = Image(machine) /\ ~ok
  /\ pc \in {"rename", "backup", "rename2"} => files["tmp"] = Image(machine)
  /\ pc \in {"backup", "rename2", "unlink"} => bak \in Baks
  /\ pc \in {"shot", "drop"} \/ (pc = "unlink" /\ ok) => files["bin"] = Image(machine)
  /\ pc = "browse" /\ status = "saved" => files["bin"] = Image(machine) /\ acked = machine.mem

\* Without failed operations the machine and the slot never fall behind the last
\* acknowledged save, and a complete copy of it, or of a newer state, is not in
\* the temporary file.
Copies ==
  faults = 0 =>
    /\ machine.mem >= acked
    /\ files["bin"] # Absent => files["bin"][1].snap >= acked
    /\ acked # None =>
         \E n \in Names \ {"tmp"} : files[n] # Absent /\ files[n][1].snap >= acked
    /\ pc # "giveup"
    /\ pc = "unlink" => ok
    /\ pc = "backup" => files["bin"] # Absent

\* Without power losses the picture lags behind the slot only between the rename
\* and the end of img_save, and after an img_save that could not remove it.
Picture ==
  /\ crashes = 0 /\ ~overdue
  /\ pc \notin {"shot", "drop"} /\ ~(pc = "unlink" /\ ok)
  =>
    shot = None \/ files["bin"] = Absent \/ files["bin"][1].snap = shot

IInv == Frozen /\ Files /\ Window /\ Saving /\ Copies /\ Picture
-----------------------------------------------------------------------------
(* An image *)

LEMMA PairOfPairs ==
  ASSUME NEW a, NEW b, NEW c, NEW d
  PROVE  <<a, b>> \o <<c, d>> = <<a, b, c, d>>
<1> DEFINE S == {a, b, c, d}
           l == <<a, b>>
           r == <<c, d>>
           t == <<a, b, c, d>>
<1>1. l \in Seq(S) /\ r \in Seq(S) /\ t \in Seq(S)
  OBVIOUS
<1>2. Len(l) = 2 /\ Len(r) = 2 /\ Len(t) = 4
  OBVIOUS
<1>3. l[1] = a /\ l[2] = b /\ r[1] = c /\ r[2] = d
      /\ t[1] = a /\ t[2] = b /\ t[3] = c /\ t[4] = d
  OBVIOUS
<1> HIDE DEF S, l, r, t
<1>4. /\ l \o r \in Seq(S) /\ Len(l \o r) = Len(l) + Len(r)
      /\ \A i \in 1..(Len(l) + Len(r)) :
           (l \o r)[i] = IF i <= Len(l) THEN l[i] ELSE r[i - Len(l)]
  BY <1>1, ConcatProperties
<1>5. \A i \in 1..4 : (l \o r)[i] = t[i]
  BY <1>2, <1>3, <1>4
<1>6. l \o r = t
  <2>1. Len(l \o r) = Len(t) /\ \A i \in 1..Len(l \o r) : (l \o r)[i] = t[i]
    BY <1>2, <1>4, <1>5
  <2> QED BY <1>1, <1>4, <2>1, SeqEqual
<1> QED BY <1>6 DEF l, r, t

LEMMA OneBeforeFour ==
  ASSUME NEW e, NEW a, NEW b, NEW c, NEW d
  PROVE  /\ <<e>> \o <<a, b, c, d>> = <<e, a, b, c, d>>
         /\ Tail(<<e, a, b, c, d>>) = <<a, b, c, d>>
<1> DEFINE S == {e, a, b, c, d}
           l == <<e>>
           r == <<a, b, c, d>>
           t == <<e, a, b, c, d>>
<1>1. l \in Seq(S) /\ r \in Seq(S) /\ t \in Seq(S)
  OBVIOUS
<1>2. Len(l) = 1 /\ Len(r) = 4 /\ Len(t) = 5 /\ t # << >>
  OBVIOUS
<1>3. l[1] = e /\ r[1] = a /\ r[2] = b /\ r[3] = c /\ r[4] = d
      /\ t[1] = e /\ t[2] = a /\ t[3] = b /\ t[4] = c /\ t[5] = d
  OBVIOUS
<1> HIDE DEF S, l, r, t
<1>4. /\ l \o r \in Seq(S) /\ Len(l \o r) = Len(l) + Len(r)
      /\ \A i \in 1..(Len(l) + Len(r)) :
           (l \o r)[i] = IF i <= Len(l) THEN l[i] ELSE r[i - Len(l)]
  BY <1>1, ConcatProperties
<1>5. l \o r = t
  <2>1. Len(l \o r) = Len(t) /\ \A i \in 1..Len(l \o r) : (l \o r)[i] = t[i]
    BY <1>2, <1>3, <1>4
  <2> QED BY <1>1, <1>4, <2>1, SeqEqual
<1> DEFINE u == Tail(t)
<1>6. /\ u \in Seq(S) /\ Len(u) = Len(t) - 1
      /\ \A i \in 1..Len(u) : u[i] = t[i + 1]
  BY <1>1, <1>2, HeadTailProperties
<1> HIDE DEF u
<1>7. u = r
  <2>1. Len(u) = 4 /\ Len(r) = 4
    BY <1>2, <1>6
  <2>2. u[1] = t[2] /\ u[2] = t[3] /\ u[3] = t[4] /\ u[4] = t[5]
    <3>1. u[1] = t[1 + 1] /\ u[2] = t[2 + 1] /\ u[3] = t[3 + 1] /\ u[4] = t[4 + 1]
      <4>1. 1 \in 1..4 /\ 2 \in 1..4 /\ 3 \in 1..4 /\ 4 \in 1..4
        OBVIOUS
      <4> QED BY <1>6, <2>1, <4>1
    <3> QED BY <3>1
  <2>3. \A i \in 1..4 : u[i] = r[i]
    <3>1. \A i \in 1..4 : i = 1 \/ i = 2 \/ i = 3 \/ i = 4
      OBVIOUS
    <3> QED BY <1>3, <2>2, <3>1
  <2> QED BY <1>1, <1>6, <2>1, <2>3, SeqEqual
<1> QED BY <1>5, <1>7 DEF l, r, t, u

LEMMA SavedUnits ==
  ASSUME NEW s
  PROVE  Saved(s) = << Unit(s, "header"), Unit(s, "memory"), Unit(s, "ram"),
                       Unit(s, "rest"), Unit(s, "registers") >>
<1> DEFINE m == [mem |-> s, rest |-> s, boot |-> FALSE]
<1>1. Units(s, <<"header">>) = << Unit(s, "header") >>
  BY DEF Units
<1>2. Units(s, MemoryChunk(FALSE)) = << Unit(s, "memory"), Unit(s, "ram") >>
  BY DEF Units, MemoryChunk
<1>3. Units(s, RestChunk) = << Unit(s, "rest"), Unit(s, "registers") >>
  BY DEF Units, RestChunk
<1>4. Saved(s) = Units(s, <<"header">>) \o (Units(s, MemoryChunk(FALSE)) \o Units(s, RestChunk))
  BY DEF Saved, Image, Payload
<1>5. << Unit(s, "memory"), Unit(s, "ram") >> \o << Unit(s, "rest"), Unit(s, "registers") >>
      = << Unit(s, "memory"), Unit(s, "ram"), Unit(s, "rest"), Unit(s, "registers") >>
  BY PairOfPairs
<1>6. << Unit(s, "header") >>
        \o << Unit(s, "memory"), Unit(s, "ram"), Unit(s, "rest"), Unit(s, "registers") >>
      = << Unit(s, "header"), Unit(s, "memory"), Unit(s, "ram"), Unit(s, "rest"),
           Unit(s, "registers") >>
  BY OneBeforeFour
<1> QED BY <1>1, <1>2, <1>3, <1>4, <1>5, <1>6

LEMMA SavedFacts ==
  ASSUME NEW s \in Nat
  PROVE  /\ Saved(s) \in Seq(UnitSet) /\ Len(Saved(s)) = ImageLen
         /\ Saved(s) # Absent
         /\ Saved(s)[1] = Unit(s, "header") /\ Saved(s)[1].snap = s
         /\ HeaderOK(Saved(s))
<1>2. Saved(s) \in Seq(UnitSet) /\ Len(Saved(s)) = ImageLen
  <2>1. /\ Unit(s, "header") \in UnitSet /\ Unit(s, "memory") \in UnitSet
        /\ Unit(s, "ram") \in UnitSet /\ Unit(s, "rest") \in UnitSet
        /\ Unit(s, "registers") \in UnitSet
    BY DEF Unit, UnitSet, Parts
  <2>2. << Unit(s, "header"), Unit(s, "memory"), Unit(s, "ram"), Unit(s, "rest"),
           Unit(s, "registers") >> \in Seq(UnitSet)
    BY <2>1
  <2> QED BY <2>2, SavedUnits DEF ImageLen
<1>3. Saved(s)[1] = Unit(s, "header") /\ Saved(s) # << >>
  BY SavedUnits
<1> QED BY <1>2, <1>3 DEF Absent, HeaderOK, Unit

LEMMA SavedWhole ==
  ASSUME NEW s \in Nat
  PROVE  Whole(Saved(s))
<1>1. HeaderOK(Saved(s)) /\ Saved(s)[1].snap = s
  BY SavedFacts
<1>2. Saved(s) = Image([mem |-> Saved(s)[1].snap, rest |-> Saved(s)[1].snap, boot |-> FALSE])
  BY <1>1 DEF Saved
<1> QED BY <1>1, <1>2, Zenon DEF Whole

\* restore_state() of a whole image.
LEMMA SavedRestored ==
  ASSUME NEW s \in Nat
  PROVE  Restored(Body(Saved(s))) = [mem |-> s, rest |-> s, boot |-> FALSE]
<1> DEFINE p     == Body(Saved(s))
           heads == {i \in DOMAIN p : ChunkLen(p[i]) > 0}
           mem   == {p[i] : i \in {j \in heads : p[j].part \in {"memory", "memory+"}}}
           rest  == {p[i] : i \in {j \in heads : p[j].part = "rest"}}
<1>1. p = << Unit(s, "memory"), Unit(s, "ram"), Unit(s, "rest"), Unit(s, "registers") >>
  <2>1. Tail(Saved(s)) = Tail(<< Unit(s, "header"), Unit(s, "memory"), Unit(s, "ram"),
                                 Unit(s, "rest"), Unit(s, "registers") >>)
    BY SavedUnits
  <2>2. Tail(<< Unit(s, "header"), Unit(s, "memory"), Unit(s, "ram"), Unit(s, "rest"),
                Unit(s, "registers") >>)
        = << Unit(s, "memory"), Unit(s, "ram"), Unit(s, "rest"), Unit(s, "registers") >>
    BY OneBeforeFour
  <2> QED BY <2>1, <2>2 DEF Body
<1> HIDE DEF p
<1>2. /\ DOMAIN p = 1..4
      /\ p[1] = Unit(s, "memory") /\ p[2] = Unit(s, "ram")
      /\ p[3] = Unit(s, "rest") /\ p[4] = Unit(s, "registers")
  BY <1>1
<1>3. /\ ChunkLen(p[1]) = 2 /\ ChunkLen(p[2]) = 0 /\ ChunkLen(p[3]) = 2 /\ ChunkLen(p[4]) = 0
  BY <1>2 DEF ChunkLen, Unit
<1>4. heads = {1, 3}
  BY <1>2, <1>3
<1> HIDE DEF heads
<1>5. {j \in heads : p[j].part \in {"memory", "memory+"}} = {1}
  BY <1>2, <1>4 DEF Unit
<1>6. {j \in heads : p[j].part = "rest"} = {3}
  BY <1>2, <1>4 DEF Unit
<1>7. mem = {p[1]} /\ rest = {p[3]}
  BY <1>5, <1>6
<1>8. Restored(p) = [mem  |-> IF mem = {} THEN machine.mem ELSE (CHOOSE u \in mem : TRUE).snap,
                     rest |-> IF rest = {} THEN None ELSE (CHOOSE u \in rest : TRUE).snap,
                     boot |-> \E u \in mem : u.part = "memory+"]
  BY Zenon DEF Restored, heads
<1> HIDE DEF mem, rest
<1>9. (CHOOSE u \in mem : TRUE).snap = s /\ (CHOOSE u \in rest : TRUE).snap = s
  BY <1>2, <1>7 DEF Unit
<1>10. (\E u \in mem : u.part = "memory+") = FALSE
  BY <1>2, <1>7 DEF Unit
<1>11. mem # {} /\ rest # {}
  BY <1>7
<1> QED BY <1>8, <1>9, <1>10, <1>11 DEF p

\* A write that goes over what is there without cutting it off.
LEMMA OverFacts ==
  ASSUME NEW f \in Seq(UnitSet), Len(f) <= ImageLen,
         buf \in Seq(UnitSet), Len(buf) = ImageLen
  PROVE  /\ \A n \in 0..Len(buf) : Over(f, n) \in Seq(UnitSet) /\ Len(Over(f, n)) <= ImageLen
         /\ Over(f, Len(buf)) = buf
<1>1. ASSUME NEW n \in 0..Len(buf)
      PROVE  Over(f, n) \in Seq(UnitSet) /\ Len(Over(f, n)) <= ImageLen
  <2> DEFINE a == SubSeq(buf, 1, n)
             b == SubSeq(f, n + 1, Len(f))
  <2>1. a \in Seq(UnitSet) /\ Len(a) = n
    <3>1. \A i \in 1..n : buf[i] \in UnitSet
      BY ElementOfSeq, LenProperties
    <3>2. Len(a) = IF 1 <= n THEN n - 1 + 1 ELSE 0
      BY <3>1, SubSeqProperties DEF ImageLen
    <3>3. a \in Seq(UnitSet)
      <4>1. 1 \in Int /\ n \in Int
        BY DEF ImageLen
      <4> QED BY <3>1, <4>1, SubSeqProperties
    <3>4. n \in Nat
      BY DEF ImageLen
    <3> QED BY <3>2, <3>3, <3>4
  <2>2. b \in Seq(UnitSet) /\ n + Len(b) <= ImageLen
    <3>1. Len(f) \in Nat /\ n \in Nat /\ n <= ImageLen
      BY LenProperties DEF ImageLen
    <3>2. \A i \in (n + 1)..Len(f) : f[i] \in UnitSet
      BY <3>1, ElementOfSeq
    <3>3. b \in Seq(UnitSet) /\ Len(b) = IF n + 1 <= Len(f) THEN Len(f) - (n + 1) + 1 ELSE 0
      BY <3>1, <3>2, SubSeqProperties
    <3> QED BY <3>1, <3>3 DEF ImageLen
  <2> HIDE DEF a, b
  <2>3. a \o b \in Seq(UnitSet) /\ Len(a \o b) = Len(a) + Len(b)
    BY <2>1, <2>2, ConcatProperties
  <2>4. Over(f, n) = a \o b
    BY DEF Over, a, b
  <2> QED BY <2>1, <2>2, <2>3, <2>4
<1>2. Over(f, Len(buf)) = buf
  <2>1. SubSeq(buf, 1, Len(buf)) = buf
    OBVIOUS
  <2>2. SubSeq(f, Len(buf) + 1, Len(f)) = << >>
    BY DEF ImageLen
  <2>3. buf \o << >> = buf
    OBVIOUS
  <2> QED BY <2>1, <2>2, <2>3 DEF Over
<1> QED BY <1>1, <1>2

-----------------------------------------------------------------------------
(* What the invariant says of the machine, of names and of files *)

LEMMA ImageSaved ==
  ASSUME Frozen
  PROVE  machine.mem \in Nat /\ last \in Nat /\ Image(machine) = Saved(machine.mem)
<1>1. machine.mem \in Nat /\ last \in Nat
  BY DEF Frozen
<1>2. machine = [mem |-> machine.mem, rest |-> machine.mem, boot |-> FALSE]
  BY DEF Frozen
<1> QED BY <1>1, <1>2 DEF Saved

LEMMA NamesApart ==
  /\ "bin" \in Names \ {"tmp"} /\ "tmp" \in Names /\ "bin" # "tmp"
  /\ \A n \in Baks : n \in Names /\ n # "bin" /\ n # "tmp"
BY StateFileAssumption DEF Names

LEMMA WholeFile ==
  ASSUME Frozen, NEW f, WholeOrAbsent(f), f # Absent
  PROVE  /\ f[1].snap \in 1..last /\ f = Saved(f[1].snap)
         /\ Whole(f) /\ HeaderOK(f)
<1>1. PICK s \in 1..last : f = Saved(s)
  BY DEF WholeOrAbsent
<1>2. s \in Nat
  BY ImageSaved
<1>3. f[1].snap = s
  BY <1>1, <1>2, SavedFacts
<1> QED BY <1>1, <1>2, <1>3, SavedFacts, SavedWhole

LEMMA StoredIs ==
  ASSUME Frozen, Files
  PROVE  Stored = IF files["bin"] = Absent THEN None ELSE files["bin"][1].snap
<1>1. WholeOrAbsent(files["bin"])
  BY NamesApart DEF Files
<1>2. files["bin"] # Absent => Whole(files["bin"])
  BY <1>1, WholeFile
<1> QED BY <1>2 DEF Stored

\* What is whole stays whole when the machine reaches a new state.
LEMMA WholeLater ==
  ASSUME Frozen, last' \in Int, last <= last', NEW f, WholeOrAbsent(f)
  PROVE  f = Absent \/ \E s \in 1..last' : f = Saved(s)
<1>1. 1..last \subseteq 1..last'
  BY ImageSaved
<1> QED BY <1>1 DEF WholeOrAbsent

-----------------------------------------------------------------------------
LEMMA InitInv == Init => IInv
<1> SUFFICES ASSUME Init PROVE IInv
  OBVIOUS
<1> USE DEF Init
<1>1. Frozen
  BY StateFileAssumption DEF Frozen
<1>2. Files
  <2>1. << >> \in Seq(UnitSet) /\ Len(<< >>) = 0
    OBVIOUS
  <2> QED BY <2>1, NamesApart DEF Files, WholeOrAbsent, Absent, ImageLen
<1>3. Window
  <2>1. shot \in 0..last /\ acked \in 0..last
    BY DEF None
  <2>2. occupied \in BOOLEAN /\ ok \in BOOLEAN
    OBVIOUS
  <2> QED BY <2>1, <2>2 DEF Window
<1>4. Saving
  BY DEF Saving
<1>5. Copies
  BY NamesApart DEF Copies, None
<1>6. Picture
  BY DEF Picture, None
<1> QED BY <1>1, <1>2, <1>3, <1>4, <1>5, <1>6 DEF IInv

-----------------------------------------------------------------------------
(* The machine and the window *)

LEMMA RunStep ==
  ASSUME BootSwaps = FALSE, IInv, Run
  PROVE  IInv'
<1>1. /\ machine' = [mem |-> last + 1, rest |-> last + 1, boot |-> FALSE]
      /\ last' = last + 1 /\ last < MaxRuns + crashes + 1
  <2>1. machine.boot = FALSE
    BY DEF IInv, Frozen
  <2>2. PICK boot \in IF BootSwaps THEN BOOLEAN ELSE {machine.boot} :
          machine' = [Fresh EXCEPT !.boot = boot]
    BY DEF Run
  <2>3. boot = FALSE
    BY <2>1, <2>2
  <2> QED BY <2>2, <2>3 DEF Run, Fresh
<1>2. /\ files' = files /\ pc' = pc /\ pc = "game" /\ shot' = shot /\ acked' = acked /\ overdue' = overdue
      /\ crashes' = crashes /\ faults' = faults
      /\ mode' = mode /\ occupied' = occupied /\ status' = status /\ ok' = ok
  BY DEF Run, disk, window, save, count
<1>3. machine'.mem = last' /\ last \in Nat /\ last' \in Nat
  BY <1>1, ImageSaved DEF IInv
<1>4. Frozen'
  BY <1>1, <1>2, <1>3, StateFileAssumption DEF IInv, Frozen
<1>5. Files'
  BY <1>1, <1>2, <1>3, WholeLater DEF IInv, Files, WholeOrAbsent
<1>6. Window'
  BY <1>1, <1>2, <1>3 DEF IInv, Window
<1>7. Saving' /\ Picture'
  BY <1>2 DEF IInv, Saving, Picture
<1>8. Copies'
  <2>1. machine'.mem >= acked'
    <3>1. acked \in 0..last
      BY DEF IInv, Window
    <3> QED BY <1>1, <1>2, <1>3, <3>1
  <2> QED BY <1>2, <2>1 DEF IInv, Copies
<1> QED BY <1>4, <1>5, <1>6, <1>7, <1>8 DEF IInv

\* The steps of the window that move no file.
LEMMA WindowSteps ==
  ASSUME IInv, OpenBrowser \/ CloseBrowser \/ BeginSave \/ LoadRefused
  PROVE  IInv'
<1>1. /\ files' = files /\ shot' = shot /\ machine' = machine /\ last' = last
      /\ acked' = acked /\ overdue' = overdue /\ crashes' = crashes
  BY DEF OpenBrowser, CloseBrowser, BeginSave, LoadRefused, disk, window, save, count
<1>2. faults' \in 0..MaxFaults /\ (faults' = 0 => faults = 0)
  BY StateFileAssumption
  DEF IInv, Frozen, OpenBrowser, CloseBrowser, BeginSave, LoadRefused, count, Fault, Fine
<1>3. Frozen' /\ Files'
  BY <1>1, <1>2 DEF IInv, Frozen, Files, WholeOrAbsent
<1>4. /\ pc \in {"game", "browse"} /\ pc' \in {"game", "browse", "write"}
      /\ mode' \in {"save", "load"} /\ occupied' \in BOOLEAN /\ ok' \in BOOLEAN
      /\ status' \in {"none", "saving", "saved", "failed", "invalid", "empty"}
      /\ pc' = "browse" => status' # "saved"
      /\ pc' = "write" => buf' = Image(machine) /\ ~ok'
  BY DEF IInv, Window, OpenBrowser, CloseBrowser, BeginSave, LoadRefused, Report, window, save,
         HeaderOK
<1>5. Window'
  BY <1>1, <1>4 DEF IInv, Window
<1>6. Saving'
  BY <1>1, <1>4 DEF Saving
<1>7. Copies'
  BY <1>1, <1>2, <1>4 DEF IInv, Copies
<1>8. Picture'
  BY <1>1, <1>4 DEF IInv, Picture
<1> QED BY <1>3, <1>5, <1>6, <1>7, <1>8 DEF IInv

-----------------------------------------------------------------------------
(* The files of a save *)

LEMMA WriteStep ==
  ASSUME IInv, WriteTmp
  PROVE  IInv'
<1>1. /\ machine' = machine /\ last' = last /\ shot' = shot /\ mode' = mode
      /\ occupied' = occupied /\ status' = status /\ buf' = buf /\ ok' = ok
      /\ acked' = acked /\ overdue' = overdue /\ crashes' = crashes /\ pc = "write"
  BY DEF WriteTmp, window, save
<1>2. buf = Image(machine) /\ ~ok /\ buf \in Seq(UnitSet) /\ Len(buf) = ImageLen
  BY <1>1, ImageSaved, SavedFacts DEF IInv, Saving
<1>3. PICK n \in 0..Len(buf) :
        /\ files' = [files EXCEPT !["tmp"] = Over(@, n)]
        /\ \/ Fine /\ pc' = "rename" /\ n = Len(buf)
           \/ Fault /\ pc' = "giveup"
  <2>1. Len(buf) \in 0..Len(buf) /\ 0..(Len(buf) - 1) \subseteq 0..Len(buf)
    BY <1>2 DEF ImageLen
  <2> QED BY <2>1 DEF WriteTmp, WriteOver
<1>4. /\ DOMAIN files = Names /\ DOMAIN files' = Names
      /\ files'["tmp"] = Over(files["tmp"], n)
      /\ \A m \in Names \ {"tmp"} : files'[m] = files[m]
  BY <1>3, NamesApart DEF IInv, Files
<1>5. files'["tmp"] \in Seq(UnitSet) /\ Len(files'["tmp"]) <= ImageLen
      /\ (n = Len(buf) => files'["tmp"] = buf)
  BY <1>2, <1>4, OverFacts DEF IInv, Files
<1>6. files'["bin"] = files["bin"]
  BY <1>4, NamesApart
<1>7. faults' \in 0..MaxFaults /\ (faults' = 0 => faults = 0 /\ pc' = "rename")
  BY <1>3, StateFileAssumption DEF IInv, Frozen, Fault, Fine
<1>8. Frozen'
  BY <1>1, <1>7 DEF IInv, Frozen
<1>9. Files'
  BY <1>1, <1>4, <1>5 DEF IInv, Files, WholeOrAbsent
<1>10. Window'
  BY <1>1, <1>3 DEF IInv, Window
<1>11. Saving'
  BY <1>1, <1>2, <1>3, <1>5 DEF Saving
<1>12. Copies'
  BY <1>1, <1>4, <1>6, <1>7 DEF IInv, Copies
<1>13. Picture'
  BY <1>1, <1>3, <1>6 DEF IInv, Picture
<1> QED BY <1>8, <1>9, <1>10, <1>11, <1>12, <1>13 DEF IInv

\* A whole file takes the place of another, or of nothing.
LEMMA RenamedFacts ==
  ASSUME IInv, NEW from \in Names, NEW to \in Names \ {"tmp"}, from # to,
         WholeOrAbsent(files[from]), Renamed(from, to), last' = last
  PROVE  /\ files'[to] = files[from] /\ files'[from] = Absent
         /\ \A n \in Names \ {from, to} : files'[n] = files[n]
         /\ Files'
<1>1. files' = [files EXCEPT ![to] = files[from], ![from] = Absent]
  BY DEF Renamed
<1>2. /\ DOMAIN files = Names /\ DOMAIN files' = Names
      /\ files'[to] = files[from] /\ files'[from] = Absent
      /\ \A n \in Names \ {from, to} : files'[n] = files[n]
  BY <1>1 DEF IInv, Files
<1>3. files'["tmp"] \in Seq(UnitSet) /\ Len(files'["tmp"]) <= ImageLen
  <2>1. << >> \in Seq(UnitSet) /\ Len(<< >>) = 0
    OBVIOUS
  <2>2. Absent \in Seq(UnitSet) /\ Len(Absent) <= ImageLen
    BY <2>1 DEF Absent, ImageLen
  <2>3. CASE from = "tmp"
    BY <1>2, <2>2, <2>3
  <2>4. CASE from # "tmp"
    BY <1>2, <2>4, NamesApart DEF IInv, Files
  <2> QED BY <2>3, <2>4
<1>4. ASSUME NEW n \in Names \ {"tmp"} PROVE WholeOrAbsent(files'[n])
  BY <1>2 DEF IInv, Files, WholeOrAbsent
<1>5. \A n \in Names \ {"tmp"} : WholeOrAbsent(files[n])'
  BY <1>4 DEF WholeOrAbsent
<1> QED BY <1>2, <1>3, <1>5 DEF Files

\* The renames into place, at the first try and at the second.
LEMMA IntoPlace ==
  ASSUME IInv, pc \in {"rename", "rename2"}, Renamed("tmp", "bin"), ok' = TRUE,
         pc' = (IF pc = "rename" THEN "shot" ELSE "unlink"),
         faults' = faults, crashes' = crashes, machine' = machine, last' = last,
         shot' = shot, acked' = acked, overdue' = overdue, UNCHANGED window, bak' = bak
  PROVE  IInv'
<1>1. files["tmp"] = Image(machine)
  BY DEF IInv, Saving
<1>2. WholeOrAbsent(files["tmp"]) /\ files["tmp"] # Absent
      /\ files["tmp"][1].snap = machine.mem
  BY <1>1, ImageSaved, SavedFacts DEF WholeOrAbsent, IInv, Frozen
<1>3. files'["bin"] = files["tmp"] /\ Files'
  BY <1>2, RenamedFacts, NamesApart
<1>4. Frozen'
  BY DEF IInv, Frozen
<1>5. Window'
  BY DEF IInv, Window, window
<1>6. Saving'
  BY <1>1, <1>3 DEF IInv, Saving
<1>7. Copies'
  BY <1>2, <1>3, NamesApart DEF IInv, Copies
<1>8. Picture'
  BY DEF IInv, Picture
<1> QED BY <1>3, <1>4, <1>5, <1>6, <1>7, <1>8 DEF IInv

LEMMA RenameSteps ==
  ASSUME IInv, RenameTmp \/ RenameTmp2
  PROVE  IInv'
<1>1. /\ machine' = machine /\ last' = last /\ shot' = shot /\ acked' = acked /\ overdue' = overdue
      /\ crashes' = crashes /\ UNCHANGED window /\ buf' = buf
  BY DEF RenameTmp, RenameTmp2
<1>2. CASE RenameTmp
  <2>1. CASE Fine /\ Renamed("tmp", "bin") /\ pc' = "shot" /\ ok' = TRUE /\ UNCHANGED bak
    <3>1. pc = "rename"
      BY <1>2 DEF RenameTmp
    <3> QED BY <1>1, <2>1, <3>1, IntoPlace DEF Fine
  <2>2. CASE /\ IF files["bin"] # Absent THEN Fine ELSE Fault
             /\ \E n \in Baks : files[n] = Absent /\ bak' = n
             /\ pc' = "backup" /\ UNCHANGED <<files, ok>>
    <3>1. /\ pc = "rename" /\ files' = files /\ ok' = ok /\ bak' \in Baks /\ pc' = "backup"
      BY <1>2, <2>2 DEF RenameTmp
    <3>2. /\ faults' \in 0..MaxFaults
          /\ faults' = 0 => faults = 0 /\ files["bin"] # Absent
      BY <2>2, StateFileAssumption DEF IInv, Frozen, Fault, Fine
    <3>3. Frozen' /\ Files'
      BY <1>1, <3>1, <3>2 DEF IInv, Frozen, Files, WholeOrAbsent
    <3>4. Window'
      BY <1>1, <3>1 DEF IInv, Window, window
    <3>5. Saving'
      BY <1>1, <3>1 DEF IInv, Saving
    <3>6. Copies'
      BY <1>1, <3>1, <3>2 DEF IInv, Copies
    <3>7. Picture'
      BY <1>1, <3>1 DEF IInv, Picture
    <3> QED BY <3>3, <3>4, <3>5, <3>6, <3>7 DEF IInv
  <2> QED BY <1>2, <2>1, <2>2 DEF RenameTmp
<1>3. CASE RenameTmp2
  <2>1. CASE Fine /\ Renamed("tmp", "bin") /\ ok' = TRUE
    <3>1. pc = "rename2" /\ pc' = "unlink" /\ bak' = bak
      BY <1>3 DEF RenameTmp2
    <3> QED BY <1>1, <2>1, <3>1, IntoPlace DEF Fine
  <2>2. CASE Fault /\ UNCHANGED <<files, ok>>
    <3>1. pc = "rename2" /\ pc' = "unlink" /\ bak' = bak /\ files' = files /\ ok' = ok /\ ~ok
      BY <1>3, <2>2 DEF RenameTmp2, IInv, Saving
    <3>2. faults' \in 0..MaxFaults /\ faults' # 0
      BY <2>2, StateFileAssumption DEF IInv, Frozen, Fault
    <3>3. Frozen' /\ Files'
      BY <1>1, <3>1, <3>2 DEF IInv, Frozen, Files, WholeOrAbsent
    <3>4. Window'
      BY <1>1, <3>1 DEF IInv, Window, window
    <3>5. Saving' /\ Copies' /\ Picture'
      BY <1>1, <3>1, <3>2 DEF IInv, Saving, Copies, Picture
    <3> QED BY <3>3, <3>4, <3>5 DEF IInv
  <2> QED BY <1>3, <2>1, <2>2 DEF RenameTmp2
<1> QED BY <1>2, <1>3

LEMMA BackupStep ==
  ASSUME IInv, RenameBak
  PROVE  IInv'
<1>1. /\ machine' = machine /\ last' = last /\ shot' = shot /\ acked' = acked /\ overdue' = overdue
      /\ crashes' = crashes /\ UNCHANGED window /\ buf' = buf /\ bak' = bak /\ ok' = ok
      /\ pc = "backup"
  BY DEF RenameBak, save
<1>2. bak \in Baks /\ buf = Image(machine) /\ ~ok /\ files["tmp"] = Image(machine)
  BY <1>1 DEF IInv, Saving
<1>3. CASE Fine /\ files["bin"] # Absent /\ Renamed("bin", bak) /\ pc' = "rename2"
  <2>1. /\ "bin" \in Names /\ bak \in Names \ {"tmp"} /\ "bin" # bak
        /\ WholeOrAbsent(files["bin"])
    BY <1>2, NamesApart DEF IInv, Files
  <2>2. /\ files'[bak] = files["bin"] /\ files'["bin"] = Absent
        /\ files'["tmp"] = files["tmp"] /\ Files'
    BY <1>1, <1>3, <2>1, NamesApart, RenamedFacts
  <2>3. Frozen' /\ Window'
    BY <1>1, <1>3 DEF IInv, Frozen, Window, window, Fine
  <2>4. Saving'
    BY <1>1, <1>2, <1>3, <2>2 DEF Saving
  <2>5. Copies'
    BY <1>1, <1>3, <2>1, <2>2 DEF IInv, Copies, Fine
  <2>6. Picture'
    BY <2>2 DEF Picture
  <2> QED BY <2>2, <2>3, <2>4, <2>5, <2>6 DEF IInv
<1>4. CASE /\ IF files["bin"] = Absent THEN Fine ELSE Fault
           /\ pc' = "unlink" /\ UNCHANGED files
  <2>1. faults' \in 0..MaxFaults /\ faults' # 0
    BY <1>1, <1>4, StateFileAssumption DEF IInv, Frozen, Fault, Fine, Copies
  <2>2. Frozen' /\ Files'
    BY <1>1, <1>4, <2>1 DEF IInv, Frozen, Files, WholeOrAbsent
  <2>3. Window'
    BY <1>1, <1>4 DEF IInv, Window, window
  <2>4. Saving' /\ Copies' /\ Picture'
    BY <1>1, <1>2, <1>4, <2>1 DEF IInv, Saving, Copies, Picture
  <2> QED BY <2>2, <2>3, <2>4 DEF IInv
<1> QED BY <1>3, <1>4 DEF RenameBak

\* A file is removed, or is not: what is whole stays whole.
LEMMA RemovedFacts ==
  ASSUME IInv, NEW n \in Names, Removed(n) \/ Kept, last' = last
  PROVE  /\ Files'
         /\ \A m \in Names \ {n} : files'[m] = files[m]
         /\ faults' \in 0..MaxFaults /\ (faults' = 0 => faults = 0)
<1>1. DOMAIN files = Names
  BY DEF IInv, Files
<1>2. files' = [files EXCEPT ![n] = Absent] \/ files' = files
  BY DEF Removed, Kept
<1>3. /\ DOMAIN files' = Names
      /\ \A m \in Names \ {n} : files'[m] = files[m]
      /\ files'[n] = Absent \/ files'[n] = files[n]
  BY <1>1, <1>2
<1>4. files'["tmp"] \in Seq(UnitSet) /\ Len(files'["tmp"]) <= ImageLen
  <2>1. << >> \in Seq(UnitSet) /\ Len(<< >>) = 0
    OBVIOUS
  <2>2. Absent \in Seq(UnitSet) /\ Len(Absent) <= ImageLen
    BY <2>1 DEF Absent, ImageLen
  <2>3. files'["tmp"] = Absent \/ files'["tmp"] = files["tmp"]
    BY <1>3, NamesApart
  <2> QED BY <2>2, <2>3 DEF IInv, Files
<1>5. \A m \in Names \ {"tmp"} : WholeOrAbsent(files[m])'
  <2>1. \A m \in Names \ {"tmp"} : files'[m] = Absent \/ files'[m] = files[m]
    BY <1>3
  <2> QED BY <2>1 DEF IInv, Files, WholeOrAbsent
<1>6. faults' \in 0..MaxFaults /\ (faults' = 0 => faults = 0)
  BY StateFileAssumption DEF IInv, Frozen, Removed, Kept, Fault, Fine
<1> QED BY <1>3, <1>4, <1>5, <1>6 DEF Files

LEMMA UnlinkStep ==
  ASSUME IInv, UnlinkBak
  PROVE  IInv'
<1>1. /\ machine' = machine /\ last' = last /\ shot' = shot /\ acked' = acked /\ overdue' = overdue
      /\ crashes' = crashes /\ UNCHANGED window /\ buf' = buf /\ bak' = bak /\ ok' = ok
      /\ pc = "unlink" /\ pc' = IF ok THEN "shot" ELSE "giveup"
  BY DEF UnlinkBak, save
<1>2. bak \in Names /\ bak # "bin" /\ bak # "tmp"
  BY <1>1, NamesApart DEF IInv, Saving
<1>3. /\ Files' /\ files'["bin"] = files["bin"]
      /\ faults' \in 0..MaxFaults /\ (faults' = 0 => faults = 0)
  BY <1>1, <1>2, RemovedFacts, NamesApart DEF UnlinkBak
<1>4. ok \in BOOLEAN /\ (ok => files["bin"] = Image(machine))
  BY <1>1 DEF IInv, Saving, Window
<1>5. Frozen' /\ Window'
  <2>1. pc' = "shot" \/ pc' = "giveup"
    BY <1>1, <1>4
  <2> QED BY <1>1, <1>3, <2>1 DEF IInv, Frozen, Window, window
<1>6. Saving'
  BY <1>1, <1>3, <1>4 DEF Saving
<1>7. Copies'
  <2> SUFFICES ASSUME faults' = 0 PROVE Copies'
    BY DEF Copies
  <2>1. faults = 0 /\ ok /\ pc' = "shot"
    BY <1>1, <1>3, <1>4 DEF IInv, Copies
  <2>2. files'["bin"] # Absent /\ files'["bin"][1].snap = machine.mem /\ machine.mem >= acked
    BY <1>3, <1>4, <2>1, ImageSaved, SavedFacts DEF IInv, Copies
  <2> QED BY <1>1, <2>1, <2>2, NamesApart DEF Copies
<1>8. Picture'
  BY <1>1, <1>3, <1>4 DEF IInv, Picture
<1> QED BY <1>3, <1>5, <1>6, <1>7, <1>8 DEF IInv

LEMMA GiveUpStep ==
  ASSUME IInv, GiveUp
  PROVE  IInv'
<1>1. /\ machine' = machine /\ last' = last /\ shot' = shot /\ acked' = acked /\ overdue' = overdue
      /\ crashes' = crashes /\ mode' = mode /\ occupied' = occupied /\ ok' = ok
      /\ pc = "giveup" /\ pc' = "browse" /\ status' = "failed"
  BY DEF GiveUp, save, Report
<1>2. /\ Files' /\ files'["bin"] = files["bin"]
      /\ faults' \in 0..MaxFaults /\ faults' # 0
  BY <1>1, RemovedFacts, NamesApart DEF GiveUp, IInv, Copies
<1>3. Frozen' /\ Window'
  BY <1>1, <1>2 DEF IInv, Frozen, Window
<1>4. Saving' /\ Copies' /\ Picture'
  BY <1>1, <1>2 DEF IInv, Saving, Copies, Picture
<1> QED BY <1>2, <1>3, <1>4 DEF IInv

\* A save that is over leaves everything but the picture as it was.
LEMMA SavedStep ==
  ASSUME IInv, pc \in {"shot", "drop"}, AfterSave,
         UNCHANGED <<machine, last, files, save, crashes>>,
         faults' \in 0..MaxFaults, faults' = 0 => faults = 0, overdue' \in BOOLEAN,
         shot' \in {machine.mem, None} \/ (shot' = shot /\ overdue')
  PROVE  IInv'
<1>1. /\ machine' = machine /\ last' = last /\ acked' = machine.mem /\ files' = files
      /\ crashes' = crashes /\ mode' = mode /\ occupied' = TRUE /\ ok' = ok
      /\ pc' = "browse" /\ status' = "saved"
  BY DEF AfterSave, Report, save
<1>2. /\ files["bin"] = Image(machine) /\ files["bin"] # Absent
      /\ files["bin"][1].snap = machine.mem /\ machine.mem \in 0..last
  BY ImageSaved, SavedFacts DEF IInv, Saving, Frozen
<1>3. Frozen' /\ Files'
  BY <1>1 DEF IInv, Frozen, Files, WholeOrAbsent
<1>4. Window'
  <2>1. shot' \in 0..last
    BY <1>2, ImageSaved DEF None, IInv, Window
  <2> QED BY <1>1, <1>2, <2>1 DEF IInv, Window
<1>5. Saving'
  BY <1>1, <1>2 DEF Saving
<1>6. Copies'
  BY <1>1, <1>2, NamesApart DEF Copies
<1>7. Picture'
  BY <1>1, <1>2 DEF Picture
<1> QED BY <1>3, <1>4, <1>5, <1>6, <1>7 DEF IInv

LEMMA ShotStep ==
  ASSUME IInv, SaveShot
  PROVE  IInv'
<1>1. faults' \in 0..MaxFaults /\ (faults' = 0 => faults = 0)
  BY StateFileAssumption DEF SaveShot, IInv, Frozen, Fault, Fine
<1>2. CASE pc' = "browse"
  <2>1. AfterSave /\ overdue' = FALSE /\ shot' \in {machine.mem, None}
    BY <1>2 DEF SaveShot
  <2> QED BY <1>1, <2>1, SavedStep DEF SaveShot
<1>3. CASE pc' # "browse"
  <2>1. /\ pc = "shot" /\ pc' = "drop" /\ faults' = faults + 1
        /\ shot' = shot /\ overdue' = overdue /\ acked' = acked
        /\ machine' = machine /\ last' = last /\ files' = files /\ crashes' = crashes
        /\ mode' = mode /\ occupied' = occupied /\ status' = status
        /\ buf' = buf /\ bak' = bak /\ ok' = ok
    BY <1>3 DEF SaveShot, AfterSave, Report, Fault, window, save
  <2>2. Frozen' /\ Files' /\ Window'
    BY <1>1, <2>1 DEF IInv, Frozen, Files, WholeOrAbsent, Window
  <2>3. Saving' /\ Picture'
    BY <2>1 DEF IInv, Saving, Picture
  <2>4. Copies'
    BY <2>1 DEF IInv, Frozen, Copies
  <2> QED BY <2>2, <2>3, <2>4 DEF IInv
<1> QED BY <1>2, <1>3

LEMMA DropStep ==
  ASSUME IInv, DropShot
  PROVE  IInv'
<1>1. faults' \in 0..MaxFaults /\ (faults' = 0 => faults = 0)
  BY StateFileAssumption DEF DropShot, IInv, Frozen, Fault, Fine
<1>2. overdue' \in BOOLEAN /\ (shot' \in {machine.mem, None} \/ (shot' = shot /\ overdue'))
  BY DEF DropShot
<1> QED BY <1>1, <1>2, SavedStep DEF DropShot

LEMMA LoadStep ==
  ASSUME IInv, LoadState
  PROVE  /\ IInv' /\ files["bin"] # Absent
         /\ machine' = [mem |-> files["bin"][1].snap, rest |-> files["bin"][1].snap,
                        boot |-> FALSE]
<1>1. /\ last' = last /\ shot' = shot /\ acked' = acked /\ overdue' = overdue /\ files' = files
      /\ crashes' = crashes /\ faults' = faults /\ mode' = mode /\ occupied' = occupied
      /\ ok' = ok /\ status' = status /\ pc = "browse" /\ pc' = "game"
  BY DEF LoadState, disk, window, save, count
<1>2. files["bin"] # Absent /\ WholeOrAbsent(files["bin"])
  BY NamesApart DEF LoadState, Accepted, HeaderOK, IInv, Files
<1> DEFINE s == files["bin"][1].snap
<1>3. s \in 1..last /\ files["bin"] = Saved(s) /\ s \in Nat
  BY <1>2, WholeFile, ImageSaved DEF IInv
<1> HIDE DEF s
<1>4. machine' = [mem |-> s, rest |-> s, boot |-> FALSE]
  BY <1>3, SavedRestored DEF LoadState
<1>5. Frozen'
  BY <1>1, <1>3, <1>4 DEF IInv, Frozen
<1>6. Files' /\ Window'
  BY <1>1 DEF IInv, Files, Window, WholeOrAbsent
<1>7. Saving' /\ Picture'
  BY <1>1 DEF IInv, Saving, Picture
<1>8. Copies'
  BY <1>1, <1>2, <1>4 DEF IInv, Copies, s
<1> QED BY <1>2, <1>4, <1>5, <1>6, <1>7, <1>8 DEF IInv, s

LEMMA CrashStep ==
  ASSUME IInv, Crash
  PROVE  IInv' /\ files'["bin"] = files["bin"]
<1>1. /\ crashes' = crashes + 1 /\ crashes < MaxCrashes
      /\ machine' = [mem |-> last + 1, rest |-> last + 1, boot |-> FALSE]
      /\ last' = last + 1 /\ pc' = "game" /\ status' = "none"
      /\ mode' = mode /\ occupied' = occupied /\ ok' = ok /\ buf' = buf /\ bak' = bak
      /\ acked' = acked /\ overdue' = overdue /\ faults' = faults
      /\ shot' \in {shot, None, machine.mem}
  BY DEF Crash, Fresh, save
<1>2. last \in Nat /\ last' \in Nat /\ machine.mem \in 1..last
  BY <1>1, ImageSaved DEF IInv, Frozen
<1>3. /\ DOMAIN files' = Names
      /\ files'["tmp"] \in Seq(UnitSet) /\ Len(files'["tmp"]) <= ImageLen
      /\ \A m \in Names \ {"tmp"} : files'[m] = files[m]
  <2>1. CASE pc = "write"
    <3>1. buf \in Seq(UnitSet) /\ Len(buf) = ImageLen
      BY <2>1, ImageSaved, SavedFacts DEF IInv, Saving
    <3>2. PICK n \in 0..Len(buf) : files' = [files EXCEPT !["tmp"] = Over(@, n)]
      BY <2>1 DEF Crash, WriteOver
    <3>3. Over(files["tmp"], n) \in Seq(UnitSet) /\ Len(Over(files["tmp"], n)) <= ImageLen
      BY <3>1, OverFacts DEF IInv, Files
    <3> QED BY <3>2, <3>3, NamesApart DEF IInv, Files
  <2>2. CASE pc # "write"
    BY <2>2 DEF Crash, IInv, Files
  <2> QED BY <2>1, <2>2
<1>4. Frozen'
  BY <1>1, <1>2, StateFileAssumption DEF IInv, Frozen
<1>5. Files'
  BY <1>1, <1>2, <1>3, WholeLater DEF IInv, Files, WholeOrAbsent
<1>6. Window'
  <2>1. shot' \in 0..last' /\ acked' \in 0..last'
    BY <1>1, <1>2 DEF IInv, Window, None
  <2> QED BY <1>1, <2>1 DEF IInv, Window
<1>7. Saving'
  BY <1>1 DEF Saving
<1>8. files'["bin"] = files["bin"]
  BY <1>3, NamesApart
<1>9. Copies'
  <2>1. machine'.mem >= acked'
    BY <1>1, <1>2 DEF IInv, Window
  <2> QED BY <1>1, <1>3, <1>8, <2>1 DEF IInv, Copies
<1>10. Picture'
  <2>1. crashes' # 0
    BY <1>1 DEF IInv, Frozen
  <2> QED BY <2>1 DEF Picture
<1> QED BY <1>4, <1>5, <1>6, <1>7, <1>8, <1>9, <1>10 DEF IInv

-----------------------------------------------------------------------------
LEMMA NextInv ==
  ASSUME BootSwaps = FALSE, IInv, [Next]_vars
  PROVE  IInv'
<1>1. CASE Run
  BY <1>1, RunStep
<1>2. CASE OpenBrowser \/ CloseBrowser \/ BeginSave \/ LoadRefused
  BY <1>2, WindowSteps
<1>3. CASE WriteTmp \/ RenameTmp \/ RenameTmp2 \/ RenameBak \/ UnlinkBak
  BY <1>3, WriteStep, RenameSteps, BackupStep, UnlinkStep
<1>4. CASE GiveUp \/ SaveShot \/ DropShot \/ LoadState \/ Crash
  BY <1>4, GiveUpStep, ShotStep, DropStep, LoadStep, CrashStep
<1>5. CASE UNCHANGED vars
  BY <1>5 DEF vars, disk, window, save, count, IInv, Frozen, Files, WholeOrAbsent, Window,
              Saving, Copies, Picture
<1> QED BY <1>1, <1>2, <1>3, <1>4, <1>5 DEF Next

(* Whatever operations fail and wherever the power goes, no file but the       *)
(* temporary one is ever half of a state, as long as every image is of one     *)
(* length.                                                                     *)
THEOREM Invariant ==
  ASSUME BootSwaps = FALSE
  PROVE  Spec => []IInv
<1>1. IInv /\ [Next]_vars => IInv'
  BY NextInv
<1> QED BY <1>1, InitInv, PTL DEF Spec

(* Every variable keeps its range, and the worker only reads a buffer, a       *)
(* backup name or a backup it has made before.                                 *)
THEOREM TypeCorrect ==
  ASSUME BootSwaps = FALSE
  PROVE  Spec => []TypeOK
<1>1. IInv => TypeOK
  <2> SUFFICES ASSUME IInv PROVE TypeOK
    OBVIOUS
  <2>1. last \in States /\ 1..last \subseteq States /\ 0..last \subseteq States \cup {None}
    BY StateFileAssumption DEF IInv, Frozen, States, None
  <2>2. machine \in [mem : States, rest : States, boot : BOOLEAN]
    <3>1. machine.mem \in States
      BY <2>1 DEF IInv, Frozen
    <3>2. machine = [mem |-> machine.mem, rest |-> machine.mem, boot |-> FALSE]
      BY DEF IInv, Frozen
    <3>3. [mem |-> machine.mem, rest |-> machine.mem, boot |-> FALSE]
          \in [mem : States, rest : States, boot : BOOLEAN]
      BY <3>1
    <3> QED BY <3>2, <3>3, Zenon
  <2>3. shot \in States \cup {None} /\ acked \in States \cup {None}
    BY <2>1 DEF IInv, Window
  <2>4. pc \in {"rename", "backup", "rename2"} => files["tmp"] # Absent
    BY ImageSaved, SavedFacts DEF IInv, Saving
  <2> QED BY <2>1, <2>2, <2>3, <2>4 DEF IInv, Frozen, Window, Saving, TypeOK
<1> QED BY <1>1, Invariant, PTL

(* A save reported as done is whole in its slot, and stays there until the     *)
(* next one.                                                                   *)
THEOREM AcknowledgedIsStored ==
  ASSUME BootSwaps = FALSE
  PROVE  Spec => []AckedIsStored
<1>1. IInv => AckedIsStored
  <2> SUFFICES ASSUME IInv, pc = "browse", status = "saved" PROVE Stored = acked
    BY DEF AckedIsStored
  <2>1. files["bin"] = Saved(machine.mem) /\ acked = machine.mem /\ machine.mem \in Nat
    BY ImageSaved DEF IInv, Saving
  <2> QED BY <2>1, StoredIs, SavedFacts DEF IInv
<1> QED BY <1>1, Invariant, PTL

(* Power losses alone, however many, never destroy the last acknowledged       *)
(* state: it, or a newer one, is complete in a file other than the temporary.  *)
THEOREM LastCopySurvives ==
  ASSUME BootSwaps = FALSE
  PROVE  Spec => []CopySurvives
<1>1. IInv => CopySurvives
  <2> SUFFICES ASSUME IInv, faults = 0, acked # None
               PROVE  \E f \in Contents : Whole(f) /\ f[1].snap >= acked
    BY DEF CopySurvives
  <2>1. PICK n \in Names \ {"tmp"} : files[n] # Absent /\ files[n][1].snap >= acked
    BY DEF IInv, Copies
  <2>2. WholeOrAbsent(files[n]) /\ n \in DOMAIN files
    BY DEF IInv, Files
  <2>3. Whole(files[n])
    BY <2>1, <2>2, WholeFile DEF IInv
  <2>4. files[n] \in Contents
    BY <2>1, <2>2 DEF Contents, Range
  <2> QED BY <2>1, <2>3, <2>4
<1> QED BY <1>1, Invariant, PTL

(* Without a power loss, a picture of another state is never beside the slot's *)
(* but after a save that could neither write its picture nor remove the old    *)
(* one: any other operations may fail, any number of them.                     *)
THEOREM PictureMatches ==
  ASSUME BootSwaps = FALSE
  PROVE  Spec => []ShotMatches
<1>1. IInv => ShotMatches
  <2> SUFFICES ASSUME IInv PROVE ShotMatches
    OBVIOUS
  <2>1. Stored = IF files["bin"] = Absent THEN None ELSE files["bin"][1].snap
    BY StoredIs DEF IInv
  <2> QED BY <2>1 DEF IInv, Picture, ShotMatches
<1> QED BY <1>1, Invariant, PTL

-----------------------------------------------------------------------------
(* The slot implements SaveSlot *)

LEMMA StoredOf ==
  ASSUME NEW l \in Nat, NEW f, f = Absent \/ \E s \in 1..l : f = Saved(s)
  PROVE  (IF f = Absent THEN None ELSE IF Whole(f) THEN f[1].snap ELSE Torn)
         = IF f = Absent THEN None ELSE f[1].snap
<1>1. f # Absent => Whole(f)
  BY SavedWhole
<1> QED BY <1>1

LEMMA SlotInit == Init => Slot!Init
<1> SUFFICES ASSUME Init PROVE Slot!Init
  OBVIOUS
<1>1. Stored = None
  BY NamesApart DEF Init, Stored
<1>2. machine.mem = 1 /\ machine.rest = 1 /\ last = 1 /\ pc = "game"
  BY DEF Init
<1> QED BY <1>1, <1>2 DEF Slot!Init, Slot!None, None

\* A step of the code is the step of the slot it should be, or none.
LEMMA SlotStep ==
  ASSUME BootSwaps = FALSE, IInv, IInv', [Next]_vars
  PROVE  [Slot!Next]_(Slot!slotVars)
<1> DEFINE m  == IF machine.mem = machine.rest THEN machine.mem ELSE Torn
           sv == pc \notin {"game", "browse"}
<1>1. m = machine.mem /\ m' = machine'.mem
  BY DEF IInv, Frozen
<1>2. Stored = IF files["bin"] = Absent THEN None ELSE files["bin"][1].snap
  BY StoredIs DEF IInv
<1>3. Stored' = IF files'["bin"] = Absent THEN None ELSE files'["bin"][1].snap
  <2>1. last' \in Nat /\ (files'["bin"] = Absent \/ \E s \in 1..last' : files'["bin"] = Saved(s))
    BY NamesApart DEF IInv, Frozen, Files, WholeOrAbsent
  <2> QED BY <2>1, StoredOf DEF Stored
<1>4. files'["bin"] = files["bin"] => Stored' = Stored
  BY <1>2, <1>3
<1>5. SUFFICES \/ Slot!Next
               \/ Stored' = Stored /\ m' = m /\ last' = last /\ sv' = sv
  BY DEF Slot!slotVars
<1> HIDE DEF m, sv
<1>6. CASE Run
  <2>1. machine'.mem = last + 1 /\ last' = last + 1 /\ files' = files /\ pc = "game" /\ pc' = pc
    BY <1>6 DEF Run, Fresh, disk
  <2>2. Slot!Run
    BY <1>1, <1>4, <2>1 DEF Slot!Run, Slot!Reach, m, sv
  <2> QED BY <2>2 DEF Slot!Next
<1>7. CASE OpenBrowser \/ CloseBrowser \/ LoadRefused
  <2>1. /\ files' = files /\ machine' = machine /\ last' = last
        /\ pc \in {"game", "browse"} /\ pc' \in {"game", "browse"}
    BY <1>7 DEF OpenBrowser, CloseBrowser, LoadRefused, Report, disk
  <2> QED BY <1>1, <1>4, <2>1 DEF sv
<1>8. CASE BeginSave
  <2>1. /\ files' = files /\ machine' = machine /\ last' = last
        /\ pc = "browse" /\ pc' \in {"browse", "write"}
    BY <1>8 DEF BeginSave, Report, disk
  <2>2. CASE pc' = "browse"
    BY <1>1, <1>4, <2>1, <2>2 DEF sv
  <2>3. CASE pc' = "write"
    <3>1. Slot!Begin
      BY <1>1, <1>4, <2>1, <2>3 DEF Slot!Begin, m, sv
    <3> QED BY <3>1 DEF Slot!Next
  <2> QED BY <2>1, <2>2, <2>3
<1>9. CASE WriteTmp \/ UnlinkBak
  <2>1. /\ machine' = machine /\ last' = last
        /\ pc \in {"write", "unlink"} /\ pc' \in {"rename", "giveup", "shot"}
    BY <1>9 DEF WriteTmp, UnlinkBak
  <2>2. files'["bin"] = files["bin"]
    <3>1. bak \in Baks \/ WriteTmp
      BY <1>9 DEF UnlinkBak, IInv, Saving
    <3> QED BY <1>9, <3>1, NamesApart DEF WriteTmp, WriteOver, UnlinkBak, Removed, Kept,
               IInv, Files
  <2> QED BY <1>1, <1>4, <2>1, <2>2 DEF sv
<1>10. CASE RenameTmp \/ RenameTmp2
  <2>1. /\ machine' = machine /\ last' = last
        /\ pc \in {"rename", "rename2"} /\ pc' \in {"shot", "backup", "unlink"}
        /\ Renamed("tmp", "bin") \/ files' = files
    BY <1>10 DEF RenameTmp, RenameTmp2
  <2>2. CASE files' = files
    BY <1>1, <1>4, <2>1, <2>2 DEF sv
  <2>3. CASE Renamed("tmp", "bin")
    <3>1. files'["bin"] = Saved(machine.mem) /\ machine.mem \in Nat
      BY <2>1, <2>3, NamesApart, ImageSaved DEF Renamed, IInv, Files, Saving
    <3>2. Stored' = machine.mem
      BY <1>3, <3>1, SavedFacts
    <3>3. Slot!Store
      BY <1>1, <2>1, <3>2 DEF Slot!Store, m, sv
    <3> QED BY <3>3 DEF Slot!Next
  <2> QED BY <2>1, <2>2, <2>3
<1>11. CASE RenameBak
  <2>1. /\ machine' = machine /\ last' = last
        /\ pc = "backup" /\ pc' \in {"rename2", "unlink"}
        /\ Renamed("bin", bak) \/ files' = files
    BY <1>11 DEF RenameBak
  <2>2. CASE files' = files
    BY <1>1, <1>4, <2>1, <2>2 DEF sv
  <2>3. CASE Renamed("bin", bak)
    <3>1. files'["bin"] = Absent
      BY <2>1, <2>3, NamesApart DEF Renamed, IInv, Files, Saving
    <3>2. Slot!Lose
      BY <1>1, <1>3, <2>1, <3>1 DEF Slot!Lose, Slot!None, None, m, sv
    <3> QED BY <3>2 DEF Slot!Next
  <2> QED BY <2>1, <2>2, <2>3
<1>12. CASE GiveUp \/ SaveShot \/ DropShot
  <2>1. /\ machine' = machine /\ last' = last
        /\ pc \in {"giveup", "shot", "drop"} /\ pc' \in {"browse", "drop"}
    BY <1>12 DEF GiveUp, SaveShot, DropShot, AfterSave, Report
  <2>2. files'["bin"] = files["bin"]
    BY <1>12, NamesApart DEF GiveUp, SaveShot, DropShot, Removed, Kept, IInv, Files
  <2>3. CASE pc' = "browse"
    <3>1. Slot!End
      BY <1>1, <1>4, <2>1, <2>2, <2>3 DEF Slot!End, m, sv
    <3> QED BY <3>1 DEF Slot!Next
  <2>4. CASE pc' = "drop"
    BY <1>1, <1>4, <2>1, <2>2, <2>4 DEF sv
  <2> QED BY <2>1, <2>3, <2>4
<1>13. CASE LoadState
  <2>1. /\ files' = files /\ last' = last /\ pc = "browse" /\ pc' = "game"
    BY <1>13 DEF LoadState, disk
  <2>2. files["bin"] # Absent /\ machine'.mem = files["bin"][1].snap
    BY <1>13, LoadStep
  <2>3. Stored # None
    <3>1. files["bin"][1].snap \in 1..last
      BY <2>2, WholeFile, NamesApart DEF IInv, Files
    <3> QED BY <1>2, <2>2, <3>1 DEF None
  <2>4. Slot!Load
    BY <1>1, <1>2, <1>4, <2>1, <2>2, <2>3 DEF Slot!Load, Slot!None, None, m, sv
  <2> QED BY <2>4 DEF Slot!Next
<1>14. CASE Crash
  <2>1. machine'.mem = last + 1 /\ last' = last + 1 /\ pc' = "game"
    BY <1>14 DEF Crash, Fresh
  <2>2. files'["bin"] = files["bin"]
    BY <1>14, CrashStep
  <2>3. Slot!Restart
    BY <1>1, <1>4, <2>1, <2>2 DEF Slot!Restart, Slot!Reach, m, sv
  <2> QED BY <2>3 DEF Slot!Next
<1>15. CASE UNCHANGED vars
  BY <1>1, <1>4, <1>15 DEF vars, disk, sv
<1> QED BY <1>6, <1>7, <1>8, <1>9, <1>10, <1>11, <1>12, <1>13, <1>14, <1>15 DEF Next

(* The files of a slot keep what statefile.h promises of it: only a save of    *)
(* the frozen machine changes the slot, to that state or to nothing, and a     *)
(* load brings one whole state back.                                           *)
THEOREM SlotImplemented ==
  ASSUME BootSwaps = FALSE
  PROVE  Spec => SlotSpec
<1>1. Slot!Spec <=> Slot!Init /\ [][Slot!Next]_(Slot!slotVars)
  BY DEF Slot!Spec
<1>2. IInv /\ IInv' /\ [Next]_vars => [Slot!Next]_(Slot!slotVars)
  BY SlotStep
<1> QED BY <1>1, <1>2, SlotInit, Invariant, PTL DEF Spec, SlotSpec

=============================================================================
