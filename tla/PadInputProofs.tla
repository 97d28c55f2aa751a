---------------------------- MODULE PadInputProofs ----------------------------
(***************************************************************************)
(* The windows of PadInput for any set of buttons, keys, key maps and      *)
(* windows: they replace each other one for one, the modal dialog is only  *)
(* over the Game Center, and a frozen machine shows a window that leads    *)
(* back to the game.                                                       *)
(*                                                                         *)
(* The invariant adds which window can be open while the machine runs.     *)
(* Only the Game Center leaves one: the poll that loads a ROM and sees     *)
(* O or START at once thaws the machine and opens the menu (CatalogPoll).  *)
(* Everywhere else the machine runs with at most the MAIN MENU just opened *)
(* over it, which is why the menu that opens by itself replaces nothing.   *)
(* A program that has both needs more than this: OneWindow is proved for   *)
(* programs that have one of the two.                                      *)
(*                                                                         *)
(* The second part proves the types: the slots, the latch table and the    *)
(* key map.  Its invariant adds that every source fed in the last poll     *)
(* still has a key, for otherwise its release would queue no key at all.   *)
(*                                                                         *)
(* The third part proves which keys the machine sees down.  Its invariant  *)
(* says that a key down there, which the program does not believe down, is *)
(* on its way up, and that the virtual keyboard and the matrix differ only *)
(* by what waits in the slots.  Two things can break it, and both are      *)
(* hypotheses: a key dropped because a slot is full (Roomy), and a button  *)
(* held across the opening of the menu or of the keyboard (Careful).       *)
(***************************************************************************)
EXTENDS PadInput, FiniteSetTheorems, NumberLemmas, TLAPS

Running == pc \in {"drain", "frame"}

OneOrNone == open = {} \/ \E w \in ToSet(Order) : open = {w}

WindowInv ==
  /\ {paused, dialog, rom_ready} \subseteq BOOLEAN
  /\ pc \in {"loop", "drain", "frame", "stopped"}
  /\ OneOrNone
  /\ open = {"gc"} => "gc" \in Windows
  /\ dialog => open = {"gc"}
  /\ dialog \/ rom_ready => "CROSS" \notin gc_prev
  /\ paused => open # {}
  /\ "gc" \notin Windows => /\ ~paused => open = {}
                            /\ Running => open \subseteq {"menu"}

-----------------------------------------------------------------------------
LEMMA Windows7 ==
  /\ ToSet(Order) = {"sb", "cfg", "mapk", "gc", "about", "browser", "menu"}
  /\ Windows \subseteq ToSet(Order) \cup {"exit"}
<1>1. ToSet(Order) = {Order[i] : i \in DOMAIN Order}
  BY DEF ToSet
<1>2. DOMAIN Order = 1..7
  BY DEF Order
<1>3. /\ Order[1] = "sb" /\ Order[2] = "cfg" /\ Order[3] = "mapk" /\ Order[4] = "gc"
      /\ Order[5] = "about" /\ Order[6] = "browser" /\ Order[7] = "menu"
  BY DEF Order
<1>4. 1..7 = {1, 2, 3, 4, 5, 6, 7}
  OBVIOUS
<1>5. ToSet(Order) = {"sb", "cfg", "mapk", "gc", "about", "browser", "menu"}
  <2>1. ToSet(Order) = {Order[i] : i \in {1, 2, 3, 4, 5, 6, 7}}
    BY <1>1, <1>2, <1>4
  <2> QED BY <1>3, <2>1
<1> QED BY <1>5, PadAssumption

\* The poll goes to the window that is open, if there is one.
LEMMA FocusIsOpen ==
  ASSUME OneOrNone
  PROVE  open = IF Focus = "game" THEN {} ELSE {Focus}
<1> DEFINE I == {i \in 1..Len(Order) : Order[i] \in open}
<1>1. Len(Order) = 7
  BY DEF Order
<1>2. Focus = LET i == IF I # {} THEN Min(I) ELSE 0
              IN  IF i = 0 THEN "game" ELSE Order[i]
  BY DEF Focus, SelectInSeq
<1>3. CASE open = {}
  <2>1. I = {}
    BY <1>3
  <2> QED BY <1>2, <1>3, <2>1
<1>4. ASSUME NEW w \in ToSet(Order), open = {w} PROVE open = {Focus} /\ Focus # "game"
  <2>1. PICK k \in 1..7 : Order[k] = w
    BY <1>1 DEF ToSet, Order
  <2>2. \A i \in 1..7 : Order[i] = w => i = k
    BY <2>1 DEF Order
  <2>3. I = {k}
    BY <1>1, <1>4, <2>1, <2>2
  <2>4. Min(I) = k
    BY <2>3 DEF Min
  <2>5. Focus = w
    BY <1>2, <2>1, <2>3, <2>4
  <2> QED BY <1>4, <2>5, Windows7
<1> QED BY <1>3, <1>4 DEF OneOrNone

LEMMA PolledWindow ==
  ASSUME WindowInv, NEW w \in ToSet(Order), NEW b, WindowPoll(w, b)
  PROVE  open = {w} /\ pc = "loop" /\ pc' = (IF paused THEN "loop" ELSE "drain")
BY FocusIsOpen, Windows7 DEF WindowInv, WindowPoll, Poll

LEMMA PolledGame ==
  ASSUME WindowInv, NEW b, GamePoll(b)
  PROVE  open = {} /\ ~paused /\ pc = "loop" /\ pc' = "drain"
BY FocusIsOpen DEF WindowInv, GamePoll, Poll

-----------------------------------------------------------------------------
LEMMA InitInv == Init => WindowInv
BY DEF Init, WindowInv, OneOrNone, Running

\* What a poll of a window that is not the Game Center must do.
LEMMA PlainSteps ==
  ASSUME WindowInv, NEW b \in SUBSET Buttons,
         \/ StatePoll(b) \/ PlainPoll("cfg", b) \/ PlainPoll("about", b)
         \/ BrowserPoll(b) \/ MapKeysPoll(b) \/ PickKeyPoll(b)
  PROVE  WindowInv'
<1>1. PICK w \in {"sb", "cfg", "about", "browser", "mapk"} : 
        /\ WindowPoll(w, b)
        /\ BackToMenu(w) \/ BackToGame(w) \/ Stay
  BY DEF StatePoll, PlainPoll, BrowserPoll, MapKeysPoll, PickKeyPoll
<1>2. dialog' = dialog /\ rom_ready' = rom_ready /\ gc_prev' = gc_prev
  BY DEF StatePoll, PlainPoll, BrowserPoll, MapKeysPoll, PickKeyPoll, center
<1>3. w \in ToSet(Order) /\ w # "gc" /\ w # "menu"
  BY Windows7
<1>4. open = {w} /\ pc' = (IF paused THEN "loop" ELSE "drain")
  BY <1>1, <1>3, PolledWindow
<1>5. ~dialog
  BY <1>3, <1>4 DEF WindowInv
<1>6. \/ open' = {"menu"} /\ paused' = paused
      \/ open' = {} /\ paused' = FALSE
      \/ open' = open /\ paused' = paused
  BY <1>1, <1>3, <1>4 DEF BackToMenu, BackToGame, Stay
<1> QED BY <1>2, <1>3, <1>4, <1>5, <1>6, Windows7 DEF WindowInv, OneOrNone, Running

LEMMA MenuStep ==
  ASSUME WindowInv, NEW b \in SUBSET Buttons, MenuPoll(b)
  PROVE  WindowInv'
<1>1. open = {"menu"} /\ pc' = (IF paused THEN "loop" ELSE "drain") /\ ~dialog
  BY PolledWindow, Windows7 DEF MenuPoll, WindowInv
<1>2. dialog' = dialog /\ rom_ready' = rom_ready /\ (gc_prev' = gc_prev \/ gc_prev' = {})
  BY DEF MenuPoll, center
<1>3. \/ open' = {} /\ paused' = FALSE
      \/ open' = open /\ paused' = paused
      \/ \E w \in Windows \ {"exit"} : open' = {w} /\ paused' = paused
  BY <1>1 DEF MenuPoll, BackToGame, Stay, ReplaceMenu
<1>4. {paused', dialog', rom_ready'} \subseteq BOOLEAN
  BY <1>2, <1>3 DEF WindowInv
<1>5. dialog' \/ rom_ready' => "CROSS" \notin gc_prev'
  BY <1>2 DEF WindowInv
<1>6. CASE open' = {} /\ paused' = FALSE
  BY <1>1, <1>2, <1>4, <1>5, <1>6 DEF WindowInv, OneOrNone, Running
<1>7. CASE open' = open /\ paused' = paused
  BY <1>1, <1>2, <1>4, <1>5, <1>7, Windows7 DEF WindowInv, OneOrNone, Running
<1>8. ASSUME NEW w \in Windows \ {"exit"}, open' = {w}, paused' = paused
      PROVE  WindowInv'
  <2>1. w \in ToSet(Order)
    BY Windows7
  <2>2. open' # {} /\ OneOrNone' /\ (open' = {"gc"} => "gc" \in Windows)
    BY <1>8, <2>1 DEF OneOrNone
  <2>3. "gc" \notin Windows => paused' /\ pc' = "loop"
    BY <1>1, <1>8 DEF WindowInv
  <2> QED BY <1>1, <1>2, <1>4, <1>5, <2>2, <2>3 DEF WindowInv, Running
<1> QED BY <1>3, <1>6, <1>7, <1>8

LEMMA CenterSteps ==
  ASSUME WindowInv, NEW b \in SUBSET Buttons, DialogPoll(b) \/ CatalogPoll(b)
  PROVE  WindowInv'
<1>1. open = {"gc"} /\ pc' = (IF paused THEN "loop" ELSE "drain") /\ "gc" \in Windows
  BY PolledWindow, Windows7 DEF DialogPoll, CatalogPoll, WindowInv
<1>2. CASE DialogPoll(b)
  <2>1. open' = open /\ paused' = paused /\ gc_prev' = gc_prev /\ dialog
    BY <1>2 DEF DialogPoll
  <2>2. dialog' \in BOOLEAN
    BY <1>2 DEF DialogPoll
  <2>3. rom_ready' \in BOOLEAN
    BY <1>2 DEF DialogPoll, WindowInv
  <2> QED BY <1>1, <2>1, <2>2, <2>3 DEF WindowInv, OneOrNone
<1>3. CASE CatalogPoll(b)
  <2>1. /\ gc_prev' = b \cap DialogButtons /\ rom_ready' = FALSE
        /\ dialog' = (catalog /\ KeyUpEdge(gc_prev, b, {"CROSS"}))
    BY <1>3 DEF CatalogPoll
  <2>2. dialog' \in BOOLEAN /\ (dialog' => "CROSS" \in gc_prev /\ "CROSS" \notin gc_prev')
    BY <2>1 DEF KeyUpEdge
  <2>3. PICK loaded \in IF rom_ready THEN BOOLEAN ELSE {FALSE} :
          /\ paused' = (paused /\ ~loaded)
          /\ open' = IF LeavesCatalog(b)
                     THEN ((IF loaded THEN open \ {"gc", "menu"} ELSE open) \ {"gc"}) \cup {"menu"}
                     ELSE (IF loaded THEN open \ {"gc", "menu"} ELSE open)
    BY <1>3 DEF CatalogPoll
  <2>4. loaded => rom_ready
    BY <2>3
  <2>5. dialog' => ~loaded /\ open' = {"gc"}
    BY <1>1, <2>2, <2>3, <2>4 DEF WindowInv, LeavesCatalog
  <2>6. \/ open' = {"menu"} /\ paused' \in BOOLEAN
        \/ open' = {} /\ paused' = FALSE
        \/ open' = {"gc"} /\ paused' \in BOOLEAN
    BY <1>1, <2>3 DEF WindowInv
  <2> QED BY <1>1, <2>1, <2>2, <2>5, <2>6, Windows7 DEF WindowInv, OneOrNone
<1> QED BY <1>2, <1>3

LEMMA GameSteps ==
  ASSUME WindowInv, NEW b \in SUBSET Buttons, GamePolls(b)
  PROVE  WindowInv'
<1>1. /\ GamePoll(b)
      /\ \/ open' = open /\ paused' = paused
         \/ open' = open \cup {"menu"} /\ paused' = TRUE
  BY DEF GamePolls, OpenMenu, ShowKeyboard, HideKeyboard, TypeOnKeyboard, FeedPad
<1>2. open = {} /\ ~paused /\ pc = "loop" /\ pc' = "drain"
  BY <1>1, PolledGame
<1>3. dialog' = dialog /\ rom_ready' = rom_ready /\ gc_prev' = gc_prev /\ ~dialog
  BY <1>1, <1>2 DEF GamePoll, center, WindowInv
<1>4. {paused', dialog', rom_ready'} \subseteq BOOLEAN
  BY <1>1, <1>3 DEF WindowInv
<1>5. CASE open' = open /\ paused' = paused
  BY <1>2, <1>3, <1>4, <1>5 DEF WindowInv, OneOrNone, Running
<1>6. CASE open' = open \cup {"menu"} /\ paused' = TRUE
  <2>1. open' = {"menu"} /\ OneOrNone'
    BY <1>2, <1>6, Windows7 DEF OneOrNone
  <2> QED BY <1>2, <1>3, <1>4, <1>6, <2>1 DEF WindowInv, Running
<1> QED BY <1>1, <1>5, <1>6

\* The frame after the poll, where the menu may open by itself.
LEMMA FrameSteps ==
  ASSUME ~AutoMenu \/ "gc" \notin Windows, WindowInv, Drain \/ RunFrame \/ StopWorker
  PROVE  WindowInv'
<1>1. dialog' = dialog /\ rom_ready' = rom_ready /\ gc_prev' = gc_prev
  BY DEF Drain, RunFrame, StopWorker, center
<1>2. CASE open' = open /\ paused' = paused
  <2>1. pc' \in {"frame", "loop", "stopped"} /\ (pc' = "frame" => Running)
    BY DEF Drain, RunFrame, StopWorker, Running
  <2> QED BY <1>1, <1>2, <2>1 DEF WindowInv, OneOrNone, Running
<1>3. CASE ~(open' = open /\ paused' = paused)
  <2>1. /\ AutoMenu /\ pc = "frame" /\ pc' = "loop"
        /\ open' = open \cup {"menu"} /\ paused' = TRUE
    BY <1>3 DEF Drain, RunFrame, StopWorker
  <2>2. open' = {"menu"} /\ ~dialog
    BY <2>1 DEF WindowInv, Running
  <2> QED BY <1>1, <2>1, <2>2, Windows7 DEF WindowInv, OneOrNone, Running
<1> QED BY <1>2, <1>3

LEMMA NextInv ==
  ASSUME ~AutoMenu \/ "gc" \notin Windows, WindowInv, [Next]_vars
  PROVE  WindowInv'
<1>1. ASSUME NEW b \in SUBSET Buttons, WindowPolls(b) PROVE WindowInv'
  BY <1>1, PlainSteps, MenuStep, CenterSteps DEF WindowPolls
<1>2. ASSUME NEW b \in SUBSET Buttons, GamePolls(b) PROVE WindowInv'
  BY <1>2, GameSteps
<1>3. CASE Drain \/ RunFrame \/ StopWorker
  BY <1>3, FrameSteps
<1>4. CASE UNCHANGED vars
  BY <1>4 DEF vars, machine, center, WindowInv, OneOrNone, Running
<1> QED BY <1>1, <1>2, <1>3, <1>4 DEF Next

LEMMA OpenCount ==
  ASSUME OneOrNone
  PROVE  Cardinality(open) = IF open = {} THEN 0 ELSE 1
BY FS_EmptySet, FS_Singleton DEF OneOrNone

(* No poll, and no menu that opens by itself, ever leaves two windows open, a  *)
(* dialog without the Game Center under it, or a frozen machine without a      *)
(* window, in a program that has the Game Center or the automatic menu.        *)
THEOREM WindowsReplaceEachOther ==
  ASSUME ~AutoMenu \/ "gc" \notin Windows
  PROVE  Spec => []OneWindow
<1>1. WindowInv /\ [Next]_vars => WindowInv'
  BY NextInv
<1>2. WindowInv => OneWindow
  BY OpenCount DEF WindowInv, OneWindow
<1> QED BY <1>1, <1>2, InitInv, PTL DEF Spec

(* Without the Game Center the machine is frozen exactly as long as a window   *)
(* is open.                                                                    *)
THEOREM WindowsFreeze ==
  ASSUME "gc" \notin Windows
  PROVE  Spec => []WindowFreezes
<1>1. WindowInv /\ [Next]_vars => WindowInv'
  BY NextInv
<1>2. WindowInv => WindowFreezes
  BY OpenCount DEF WindowInv, WindowFreezes
<1> QED BY <1>1, <1>2, InitInv, PTL DEF Spec

\* What the poll of a window does to the freeze
LEMMA WindowFreezeSteps ==
  ASSUME WindowInv, WindowFreezes, NEW b \in SUBSET Buttons, WindowPolls(b)
  PROVE  \/ paused' = TRUE /\ open' # {}
         \/ paused' = FALSE /\ open' = {}
         \/ paused' = FALSE /\ rom_ready
<1>1. paused = TRUE \/ open = {}
  BY OpenCount DEF WindowInv, WindowFreezes
<1>2. ASSUME NEW w \in ToSet(Order), WindowPoll(w, b),
             BackToMenu(w) \/ BackToGame(w) \/ Stay
      PROVE  (paused' = TRUE /\ open' # {}) \/ (paused' = FALSE /\ open' = {})
  <2>1. open = {w} /\ paused = TRUE
    BY <1>1, <1>2, PolledWindow
  <2> QED BY <1>2, <2>1 DEF BackToMenu, BackToGame, Stay
<1>3. CASE \/ StatePoll(b) \/ PlainPoll("cfg", b) \/ PlainPoll("about", b)
           \/ BrowserPoll(b) \/ MapKeysPoll(b) \/ PickKeyPoll(b)
  BY <1>2, <1>3, Windows7 DEF StatePoll, PlainPoll, BrowserPoll, MapKeysPoll, PickKeyPoll
<1>4. CASE MenuPoll(b)
  <2>1. WindowPoll("menu", b) /\ open = {"menu"} /\ paused = TRUE
    BY <1>1, <1>4, PolledWindow, Windows7 DEF MenuPoll
  <2>2. \/ BackToGame("menu") \/ Stay
        \/ \E w \in Windows : ReplaceMenu(w) /\ UNCHANGED paused
    BY <1>4 DEF MenuPoll
  <2>3. CASE BackToGame("menu") \/ Stay
    BY <1>2, <2>1, <2>3, Windows7
  <2>4. CASE \E w \in Windows : ReplaceMenu(w) /\ UNCHANGED paused
    BY <2>1, <2>4 DEF ReplaceMenu
  <2> QED BY <2>2, <2>3, <2>4
<1>5. CASE DialogPoll(b)
  <2>1. WindowPoll("gc", b) /\ Stay
    BY <1>5 DEF DialogPoll, Stay
  <2> QED BY <1>2, <2>1, Windows7
<1>6. CASE CatalogPoll(b)
  <2>1. open = {"gc"} /\ paused = TRUE
    BY <1>1, <1>6, PolledWindow, Windows7 DEF CatalogPoll
  <2>2. PICK loaded \in IF rom_ready THEN BOOLEAN ELSE {FALSE} :
          /\ paused' = (paused /\ ~loaded)
          /\ LET left == IF loaded THEN open \ {"gc", "menu"} ELSE open
             IN open' = IF LeavesCatalog(b) THEN (left \ {"gc"}) \cup {"menu"} ELSE left
    BY <1>6 DEF CatalogPoll
  <2>3. CASE loaded
    BY <2>1, <2>2, <2>3
  <2>4. CASE ~loaded
    BY <2>1, <2>2, <2>4
  <2> QED BY <2>3, <2>4
<1> QED BY <1>3, <1>4, <1>5, <1>6 DEF WindowPolls

(* With the Game Center too, only the poll that loads a downloaded ROM can     *)
(* leave the machine running under a window, and none leaves it frozen         *)
(* without one.                                                                *)
THEOREM FreezeIsKept ==
  ASSUME ~AutoMenu \/ "gc" \notin Windows
  PROVE  Spec => FreezeKept
<1>1. WindowInv /\ [Next]_vars => WindowInv'
  BY NextInv
<1> DEFINE Kept == WindowFreezes => WindowFreezes' \/ (rom_ready /\ ~paused')
<1>2. ASSUME WindowInv, [Next]_vars PROVE [Kept]_vars
  <2> SUFFICES ASSUME WindowFreezes, Next PROVE WindowFreezes' \/ (rom_ready /\ ~paused')
    BY <1>2
  <2>1. OneOrNone' /\ Cardinality(open') = IF open' = {} THEN 0 ELSE 1
    <3>1. OneOrNone'
      BY <1>1, <1>2 DEF WindowInv
    <3> QED BY <3>1, FS_EmptySet, FS_Singleton DEF OneOrNone
  <2>2. \/ paused' = TRUE /\ open' # {}
        \/ paused' = FALSE /\ open' = {}
        \/ paused' = FALSE /\ rom_ready
    <3>1. (paused = TRUE /\ open # {}) \/ (paused = FALSE /\ open = {})
      BY <1>2, OpenCount DEF WindowInv, WindowFreezes
    <3>2. ASSUME NEW b \in SUBSET Buttons, GamePolls(b)
          PROVE  (open' = open /\ paused' = paused) \/ (paused' = TRUE /\ open' # {})
      BY <3>2 DEF GamePolls, OpenMenu, ShowKeyboard, HideKeyboard, TypeOnKeyboard, FeedPad
    <3>3. ASSUME Drain \/ RunFrame \/ StopWorker
          PROVE  (open' = open /\ paused' = paused) \/ (paused' = TRUE /\ open' # {})
      BY <3>3 DEF Drain, RunFrame, StopWorker
    <3> QED BY <1>2, <3>1, <3>2, <3>3, WindowFreezeSteps DEF Next
  <2> QED BY <2>1, <2>2 DEF WindowFreezes
<1>3. FreezeKept <=> [][Kept]_vars
  BY DEF FreezeKept
<1> HIDE DEF Kept
<1> QED BY <1>1, <1>2, <1>3, InitInv, PTL DEF Spec

-----------------------------------------------------------------------------
(* The slots *)

Slot == {q \in Seq(Keys) : Len(q) <= NSlots}

\* Queueing a key leaves a slot that is not too long (worker_queue_key).
LEMMA QueueType ==
  ASSUME NEW slot \in Slot, NEW k \in Keys
  PROVE  Queue(slot, k) \in Slot
<1>1. slot \in Seq(Keys) /\ Len(slot) \in Nat /\ Len(slot) <= NSlots /\ NSlots \in Nat
  BY PadAssumption DEF Slot
<1>2. Len(Append(slot, k)) = Len(slot) + 1 /\ Append(slot, k) \in Seq(Keys)
  BY <1>1
<1>3. CASE Len(slot) = NSlots
  BY <1>3 DEF Queue
<1>4. CASE Len(slot) # NSlots
  <2>1. Append(slot, k) \in Slot
    BY <1>1, <1>2, <1>4 DEF Slot
  <2> QED BY <2>1 DEF Queue
<1> QED BY <1>3, <1>4

\* The slots after each of any number of keys
LEMMA QueueAllSteps ==
  ASSUME NEW slot \in Slot, NEW ks \in Seq(Keys)
  PROVE  \E f \in [0..Len(ks) -> Slot] :
           /\ f[0] = slot /\ QueueAll(slot, ks) = f[Len(ks)]
           /\ \A i \in 1..Len(ks) : f[i] = Queue(f[i - 1], ks[i])
<1> DEFINE n == Len(ks)
           Rule(f) == [i \in 0..n |-> IF i = 0 THEN slot ELSE Queue(f[i - 1], ks[i])]
           D == [p \in Slot \X (1..n) |-> Queue(p[1], ks[p[2]])]
<1>1. n \in Nat /\ \A i \in 1..n : ks[i] \in Keys
  OBVIOUS
<1>2. D \in [Slot \X (1..n) -> Slot]
        /\ \A q \in Slot, i \in 1..n : D[<<q, i>>] = Queue(q, ks[i])
  <2>1. \A q \in Slot, i \in 1..n : Queue(q, ks[i]) \in Slot
    BY <1>1, QueueType
  <2> HIDE DEF n
  <2> QED BY <2>1
<1> HIDE DEF D, n
<1>3. PICK f \in [0..n -> Slot] : Follows(f, n, slot, D)
  BY <1>1, <1>2, RecursionHasFunction
<1>4. f = Rule(f)
  <2>1. ASSUME NEW i \in 0..n
        PROVE  f[i] = IF i = 0 THEN slot ELSE Queue(f[i - 1], ks[i])
    <3>1. CASE i = 0
      BY <1>3, <3>1 DEF Follows
    <3>2. CASE i # 0
      <4>1. i \in 1..n /\ i - 1 \in 0..n
        BY <1>1, <3>2
      <4>2. f[i - 1] \in Slot /\ f[i] = D[<<f[i - 1], i>>]
        BY <1>3, <4>1 DEF Follows
      <4> QED BY <1>2, <3>2, <4>1, <4>2
    <3> QED BY <3>1, <3>2
  <2> QED BY <2>1
<1> DEFINE filled == CHOOSE g : g = Rule(g)
<1>5. filled = Rule(filled)
  BY <1>4, Zenon
<1>6. QueueAll(slot, ks) = filled[n]
  BY Zenon DEF QueueAll, n
<1> DEFINE T == {i \in 0..n : filled[i] \in Slot}
<1>7. 0 \in T
  <2>1. filled[0] = slot
    <3> HIDE DEF filled
    <3> QED BY <1>1, <1>5
  <2> HIDE DEF filled
  <2> QED BY <1>1, <2>1
<1>8. ASSUME NEW i \in Nat, i < n, i \in T PROVE i + 1 \in T
  <2>1. i + 1 \in 1..n /\ i + 1 \in 0..n /\ (i + 1) - 1 = i /\ i + 1 # 0
    BY <1>1, <1>8
  <2> HIDE DEF filled
  <2>2. filled[i + 1] = Queue(filled[i], ks[i + 1])
    BY <1>5, <2>1
  <2>3. filled[i] \in Slot
    BY <1>8
  <2>4. filled[i + 1] \in Slot
    BY <1>1, <2>1, <2>2, <2>3, QueueType
  <2> QED BY <2>1, <2>4
<1>9. \A i \in 0..n : i \in T
  <2> HIDE DEF T
  <2> QED BY <1>1, <1>7, <1>8, SetInduction
<1>10. filled \in [0..n -> Slot] /\ filled[0] = slot
  <2> HIDE DEF filled
  <2> QED BY <1>1, <1>5, <1>9
<1>11. \A i \in 1..n : filled[i] = Queue(filled[i - 1], ks[i])
  <2> HIDE DEF filled
  <2>1. \A i \in 1..n : i \in 0..n /\ i # 0
    BY <1>1
  <2> QED BY <1>5, <2>1
<1> HIDE DEF filled
<1> QED BY <1>6, <1>10, <1>11 DEF n

\* Queueing any number of keys leaves a slot that is not too long.
LEMMA QueueAllType ==
  ASSUME NEW slot \in Slot, NEW ks \in Seq(Keys)
  PROVE  QueueAll(slot, ks) \in Slot
<1>1. PICK f \in [0..Len(ks) -> Slot] : QueueAll(slot, ks) = f[Len(ks)]
  BY QueueAllSteps
<1>2. Len(ks) \in 0..Len(ks)
  OBVIOUS
<1> QED BY <1>1, <1>2

\* What is picked from the beginnings of a sequence is in it and in the set.
PicksAlong(f, seq, set) ==
  /\ f[0] = <<>> /\ Picked(seq, set) = f[Len(seq)]
  /\ \A i \in 1..Len(seq) :
       f[i] = IF seq[i] \in set THEN Append(f[i - 1], seq[i]) ELSE f[i - 1]

LEMMA PickedSteps ==
  ASSUME NEW S, NEW seq \in Seq(S), NEW set
  PROVE  \E f \in [0..Len(seq) -> Seq(S \cap set)] : PicksAlong(f, seq, set)
<1> DEFINE n == Len(seq)
           P == Seq(S \cap set)
           Rule(f) == [i \in 0..n |->
                         IF i = 0 THEN <<>>
                         ELSE IF seq[i] \in set THEN Append(f[i - 1], seq[i]) ELSE f[i - 1]]
           D == [p \in P \X (1..n) |->
                   IF seq[p[2]] \in set THEN Append(p[1], seq[p[2]]) ELSE p[1]]
<1>1. n \in Nat /\ \A i \in 1..n : seq[i] \in S
  OBVIOUS
<1>2. \A q \in P, i \in 1..n :
        (IF seq[i] \in set THEN Append(q, seq[i]) ELSE q) \in P
  <2> SUFFICES ASSUME NEW q \in P, NEW i \in 1..n, seq[i] \in set PROVE Append(q, seq[i]) \in P
    OBVIOUS
  <2>1. seq[i] \in S \cap set
    BY <1>1
  <2> QED BY <2>1
<1> HIDE DEF n, P
<1>3. /\ D \in [P \X (1..n) -> P]
      /\ \A q \in P, i \in 1..n :
           D[<<q, i>>] = IF seq[i] \in set THEN Append(q, seq[i]) ELSE q
  BY <1>2
<1>4. <<>> \in P
  BY DEF P
<1> HIDE DEF D
<1>5. PICK f \in [0..n -> P] : Follows(f, n, <<>>, D)
  <2> DEFINE c == <<>>
  <2>1. c \in P
    BY <1>4
  <2> HIDE DEF c
  <2>2. \E f \in [0..n -> P] : Follows(f, n, c, D)
    BY <1>1, <1>3, <2>1, RecursionHasFunction
  <2> QED BY <2>2 DEF c
<1>6. f = Rule(f)
  <2>1. ASSUME NEW i \in 0..n
        PROVE  f[i] = IF i = 0 THEN <<>>
                      ELSE IF seq[i] \in set THEN Append(f[i - 1], seq[i]) ELSE f[i - 1]
    <3>1. CASE i = 0
      BY <1>5, <3>1 DEF Follows
    <3>2. CASE i # 0
      <4>1. i \in 1..n /\ i - 1 \in 0..n
        BY <1>1, <3>2
      <4>2. f[i - 1] \in P /\ f[i] = D[<<f[i - 1], i>>]
        BY <1>5, <4>1 DEF Follows
      <4> QED BY <1>3, <3>2, <4>1, <4>2
    <3> QED BY <3>1, <3>2
  <2> QED BY <2>1
<1> DEFINE some == CHOOSE g : g = Rule(g)
<1>7. some = Rule(some)
  BY <1>6, Zenon
<1>8. Picked(seq, set) = some[n]
  BY Zenon DEF Picked, n
<1> DEFINE T == {i \in 0..n : some[i] \in P}
<1>9. 0 \in T
  <2> HIDE DEF some
  <2>1. some[0] = <<>>
    BY <1>1, <1>7
  <2> QED BY <1>1, <1>4, <2>1
<1>10. ASSUME NEW i \in Nat, i < n, i \in T PROVE i + 1 \in T
  <2>1. i + 1 \in 1..n /\ i + 1 \in 0..n /\ (i + 1) - 1 = i /\ i + 1 # 0
    BY <1>1, <1>10
  <2> HIDE DEF some
  <2>2. some[i + 1] = IF seq[i + 1] \in set THEN Append(some[i], seq[i + 1]) ELSE some[i]
    BY <1>7, <2>1
  <2>3. some[i] \in P
    BY <1>10
  <2>4. some[i + 1] \in P
    BY <1>2, <2>1, <2>2, <2>3
  <2> QED BY <2>1, <2>4
<1>11. \A i \in 0..n : i \in T
  <2> HIDE DEF T
  <2> QED BY <1>1, <1>9, <1>10, SetInduction
<1>12. some \in [0..n -> P] /\ some[0] = <<>>
  <2> HIDE DEF some
  <2> QED BY <1>1, <1>7, <1>11
<1>13. \A i \in 1..n : some[i] = IF seq[i] \in set THEN Append(some[i - 1], seq[i])
                                                  ELSE some[i - 1]
  <2> HIDE DEF some
  <2>1. \A i \in 1..n : i \in 0..n /\ i # 0
    BY <1>1
  <2> QED BY <1>7, <2>1
<1> HIDE DEF some
<1>14. PicksAlong(some, seq, set)
  BY <1>8, <1>12, <1>13 DEF PicksAlong, n
<1> QED BY <1>12, <1>14 DEF n, P

LEMMA PickedType ==
  ASSUME NEW S, NEW seq \in Seq(S), NEW set
  PROVE  Picked(seq, set) \in Seq(S \cap set)
<1>1. PICK f \in [0..Len(seq) -> Seq(S \cap set)] : PicksAlong(f, seq, set)
  BY PickedSteps
<1> DEFINE P == Seq(S \cap set)
<1>2. Len(seq) \in 0..Len(seq)
  OBVIOUS
<1> HIDE DEF P
<1>3. Picked(seq, set) \in P
  BY <1>1, <1>2 DEF P, PicksAlong
<1> QED BY <1>3 DEF P

\* The matrix after each slot
LEMMA DrainedSteps ==
  ASSUME keydowns \in Slot, keyups \in Slot, matrix \subseteq Keys
  PROVE  \E f \in [0..NSlots -> SUBSET Keys] :
           /\ f[0] = matrix /\ Drained = f[NSlots]
           /\ \A i \in 1..NSlots : f[i] = (f[i - 1] \cup At(keydowns, i)) \ At(keyups, i)
<1> DEFINE n == NSlots
           M == SUBSET Keys
           Met(m, i) == (m \cup At(keydowns, i)) \ At(keyups, i)
           Rule(f) == [i \in 0..n |-> IF i = 0 THEN matrix
                                      ELSE (f[i - 1] \cup At(keydowns, i)) \ At(keyups, i)]
           D == [p \in M \X (1..n) |-> Met(p[1], p[2])]
<1>1. n \in Nat /\ matrix \in M
  BY PadAssumption
<1>2. \A m \in M, i \in 1..n : Met(m, i) \in M
  BY DEF At, Slot
<1> HIDE DEF n, M, Met
<1>3. /\ D \in [M \X (1..n) -> M]
      /\ \A m \in M, i \in 1..n : D[<<m, i>>] = Met(m, i)
  BY <1>2
<1> HIDE DEF D
<1>4. PICK f \in [0..n -> M] : Follows(f, n, matrix, D)
  BY <1>1, <1>3, RecursionHasFunction
<1>5. f = Rule(f)
  <2>1. ASSUME NEW i \in 0..n
        PROVE  f[i] = IF i = 0 THEN matrix
                      ELSE (f[i - 1] \cup At(keydowns, i)) \ At(keyups, i)
    <3>1. CASE i = 0
      BY <1>4, <3>1 DEF Follows
    <3>2. CASE i # 0
      <4>1. i \in 1..n /\ i - 1 \in 0..n
        BY <1>1, <3>2
      <4>2. f[i - 1] \in M /\ f[i] = D[<<f[i - 1], i>>]
        BY <1>4, <4>1 DEF Follows
      <4>3. f[i] = Met(f[i - 1], i)
        BY <1>3, <4>1, <4>2
      <4> QED BY <3>2, <4>3 DEF Met
    <3> QED BY <3>1, <3>2
  <2> QED BY <2>1
<1> DEFINE after == CHOOSE g : g = Rule(g)
<1>6. after = Rule(after)
  BY <1>5, Zenon
<1>7. Drained = after[n]
  BY Zenon DEF Drained, n
<1> DEFINE T == {i \in 0..n : after[i] \in M}
<1>8. 0 \in T
  <2> HIDE DEF after
  <2>1. after[0] = matrix
    BY <1>1, <1>6
  <2> QED BY <1>1, <2>1
<1>9. ASSUME NEW i \in Nat, i < n, i \in T PROVE i + 1 \in T
  <2>1. i + 1 \in 1..n /\ i + 1 \in 0..n /\ (i + 1) - 1 = i /\ i + 1 # 0
    BY <1>1, <1>9
  <2> HIDE DEF after
  <2>2. after[i + 1] = Met(after[i], i + 1)
    BY <1>6, <2>1 DEF Met
  <2>3. after[i] \in M
    BY <1>9
  <2>4. after[i + 1] \in M
    BY <1>2, <2>1, <2>2, <2>3
  <2> QED BY <2>1, <2>4
<1>10. \A i \in 0..n : i \in T
  <2> HIDE DEF T
  <2> QED BY <1>1, <1>8, <1>9, SetInduction
<1>11. after \in [0..n -> M] /\ after[0] = matrix
  <2> HIDE DEF after
  <2> QED BY <1>1, <1>6, <1>10
<1>12. \A i \in 1..n : after[i] = (after[i - 1] \cup At(keydowns, i)) \ At(keyups, i)
  <2> HIDE DEF after
  <2>1. \A i \in 1..n : i \in 0..n /\ i # 0
    BY <1>1
  <2> QED BY <1>6, <2>1
<1> HIDE DEF after
<1> QED BY <1>7, <1>11, <1>12 DEF n, M

\* Whatever the slots hold, the matrix is left with keys.
LEMMA DrainedType ==
  ASSUME keydowns \in Slot, keyups \in Slot, matrix \subseteq Keys
  PROVE  Drained \subseteq Keys
<1>1. PICK f \in [0..NSlots -> SUBSET Keys] : Drained = f[NSlots]
  BY DrainedSteps
<1>2. NSlots \in 0..NSlots
  BY PadAssumption
<1> QED BY <1>1, <1>2

\* The keys of sources that have one
LEMMA KeysOfType ==
  ASSUME keymap \in KeyMaps, NEW srcs, \A s \in srcs : keymap[s] # NoKey
  PROVE  KeysOf(srcs) \in Seq(Keys)
<1> DEFINE fed == Picked(Sources, srcs)
<1>1. fed \in Seq(Source \cap srcs)
  BY PadAssumption, PickedType
<1>2. KeysOf(srcs) = [i \in DOMAIN fed |-> keymap[fed[i]]]
  BY Zenon DEF KeysOf
<1> HIDE DEF fed
<1>3. DOMAIN fed = 1..Len(fed) /\ Len(fed) \in Nat
  BY <1>1
<1>4. \A i \in 1..Len(fed) : keymap[fed[i]] \in Keys
  <2> TAKE i \in 1..Len(fed)
  <2>1. fed[i] \in Source /\ fed[i] \in srcs
    BY <1>1
  <2> QED BY <2>1 DEF KeyMaps
<1>5. [i \in 1..Len(fed) |-> keymap[fed[i]]] \in Seq(Keys)
  BY <1>3, <1>4
<1> QED BY <1>2, <1>3, <1>5

Table == [1 .. NSticky -> Sticky \cup {NoKey}]

\* The latch table of the keyboard keeps its size and holds latchable keys or none.
LEMMA UnlatchedType == Unlatched \in Table
BY DEF Unlatched, Table

\* What the table holds down is a sequence of keys.
LEMMA LatchedType ==
  ASSUME NEW sticky \in Table
  PROVE  Latched(sticky) \in Seq(Keys)
<1>1. sticky \in Seq(Sticky \cup {NoKey})
  BY PadAssumption DEF Table
<1>2. Latched(sticky) \in Seq((Sticky \cup {NoKey}) \cap Keys)
  BY <1>1, PickedType DEF Latched
<1>3. (Sticky \cup {NoKey}) \cap Keys \subseteq Keys
  OBVIOUS
<1> DEFINE U == (Sticky \cup {NoKey}) \cap Keys
<1> HIDE DEF U
<1>4. U \subseteq Keys /\ Latched(sticky) \in Seq(U)
  BY <1>2, <1>3 DEF U
<1> QED BY <1>4

LEMMA SetToSeqType ==
  ASSUME NEW S, IsFiniteSet(S)
  PROVE  SetToSeq(S) \in Seq(S)
<1> DEFINE n == Cardinality(S)
<1>1. n \in Nat /\ ExistsBijection(1..n, S)
  BY FS_CardinalityType
<1> HIDE DEF n
<1>2. PICK f \in Bijection(1..n, S) : TRUE
  BY <1>1 DEF ExistsBijection
<1>3. f \in [1..n -> S] /\ IsInjective(f)
  BY <1>2 DEF Bijection, Injection, IsInjective
<1>4. SetToSeq(S) \in [1..n -> S]
  <2>1. SetToSeq(S) = CHOOSE g \in [1..n -> S] : IsInjective(g)
    BY DEF SetToSeq, n
  <2> QED BY <1>3, <2>1
<1> QED BY <1>1, <1>4

\* So is what closing the keyboard releases (release_all_key_ups).
LEMMA HeldType ==
  ASSUME NEW down, down \subseteq Keys, IsFiniteSet(down), NEW sticky \in Table
  PROVE  Held(down, sticky) \in Seq(Keys)
<1>1. SetToSeq(down) \in Seq(down)
  BY SetToSeqType
<1>2. SetToSeq(down) \in Seq(Keys)
  BY <1>1
<1>3. Latched(sticky) \in Seq(Keys)
  BY LatchedType
<1> QED BY <1>2, <1>3 DEF Held

-----------------------------------------------------------------------------
(* Types.  What the pad fed in the last poll had a key, and still has it, as the *)
(* windows that change the mapping forget it: without this a release could     *)
(* queue NoKey.                                                                *)
MachineType ==
  /\ pc \in {"loop", "drain", "frame", "stopped"}
  /\ auto_opened \in BOOLEAN /\ exit_request \in BOOLEAN
  /\ buttons \subseteq Buttons /\ matrix \subseteq Keys
WindowType == open \subseteq ToSet(Order) /\ paused \in BOOLEAN
SlotsType == keydowns \in Slot /\ keyups \in Slot
MapType ==
  /\ keymap \in KeyMaps
  /\ wait_src \subseteq Source /\ Cardinality(wait_src) <= 1
FedType == old_mapped \subseteq Source /\ \A s \in old_mapped : keymap[s] # NoKey
KeyboardType ==
  /\ visible \in BOOLEAN /\ finger \in Keys
  /\ keys_down \subseteq Keys /\ IsFiniteSet(keys_down)
  /\ sticky_down \in Table /\ lit \subseteq Sticky
  /\ vk_prev \subseteq VkbdButtons
CenterType ==
  /\ catalog \in BOOLEAN /\ rom_ready \in BOOLEAN /\ dialog \in BOOLEAN
  /\ gc_prev \subseteq DialogButtons /\ dlg_prev \subseteq DialogButtons

PadType == /\ MachineType /\ WindowType /\ SlotsType /\ MapType /\ FedType
           /\ KeyboardType /\ CenterType

\* The invariant is stronger than TypeOK only in what was fed and in finiteness.
LEMMA PadTypeIsTypeOK == PadType => TypeOK
BY DEF PadType, MachineType, WindowType, SlotsType, MapType, FedType, KeyboardType,
       CenterType, TypeOK, Slot, Table

\* The machine starts with empty slots and nothing held.
LEMMA InitType == Init => PadType
<1> SUFFICES ASSUME Init PROVE PadType
  OBVIOUS
<1>1. MachineType /\ WindowType /\ FedType /\ CenterType
  BY DEF Init, MachineType, WindowType, FedType, CenterType
<1>2. SlotsType
  BY PadAssumption DEF Init, SlotsType, Slot
<1>3. MapType
  BY PadAssumption, FS_EmptySet DEF Init, MapType
<1>4. KeyboardType
  BY UnlatchedType, FS_EmptySet DEF Init, KeyboardType
<1> QED BY <1>1, <1>2, <1>3, <1>4 DEF PadType

\* Reading the pad keeps the types of what every poll writes.
LEMMA PollType ==
  ASSUME PadType, NEW w, NEW b \in SUBSET Buttons, Poll(w, b)
  PROVE  /\ pc' \in {"loop", "drain"} /\ buttons' \subseteq Buttons
         /\ auto_opened' \in BOOLEAN /\ matrix' \subseteq Keys
         /\ exit_request' \in BOOLEAN => MachineType'
BY DEF PadType, MachineType, Poll

\* What a poll that reaches a window leaves of the fed sources: nothing.
LEMMA ForgottenType ==
  ASSUME NEW w, NEW b, WindowPoll(w, b)
  PROVE  FedType'
BY DEF FedType, WindowPoll

\* Closing, opening and replacing windows
LEMMA WindowMoves ==
  ASSUME PadType, NEW w \in ToSet(Order),
         BackToMenu(w) \/ BackToGame(w) \/ Stay \/ (ReplaceMenu(w) /\ UNCHANGED paused)
  PROVE  WindowType'
BY Windows7 DEF PadType, WindowType, BackToMenu, BackToGame, Stay, ReplaceMenu

\* Groups of variables a step leaves alone
LEMMA SlotsStay ==
  ASSUME PadType, UNCHANGED slots PROVE SlotsType'
BY DEF PadType, SlotsType, slots
LEMMA MapStays ==
  ASSUME PadType, UNCHANGED <<keymap, wait_src>> PROVE MapType'
BY DEF PadType, MapType
LEMMA KeyboardStays ==
  ASSUME PadType, UNCHANGED vkbd PROVE KeyboardType'
BY DEF PadType, KeyboardType, vkbd
LEMMA CenterStays ==
  ASSUME PadType, UNCHANGED center PROVE CenterType'
BY DEF PadType, CenterType, center
LEMMA RomInstalls ==
  ASSUME PadType, KeepRom \/ InstallRom, UNCHANGED wait_src PROVE MapType'
BY PadAssumption DEF PadType, MapType, KeepRom, InstallRom

LEMMA HideType ==
  ASSUME PadType, NEW b, Hide(b), finger' = finger PROVE KeyboardType'
BY UnlatchedType, FS_EmptySet DEF PadType, KeyboardType, Hide
LEMMA ShowType ==
  ASSUME PadType, NEW b, Show(b) PROVE KeyboardType'
BY DEF PadType, KeyboardType, Show

LEMMA ReleasingType ==
  ASSUME PadType PROVE Releasing \in Slot
BY HeldType, QueueAllType DEF PadType, SlotsType, KeyboardType, Releasing

-----------------------------------------------------------------------------
(* One step per poll *)

LEMMA StatePollType ==
  ASSUME PadType, NEW b \in SUBSET Buttons, StatePoll(b) PROVE PadType'
<1>1. WindowPoll("sb", b) /\ UNCHANGED <<exit_request, slots, vkbd, mapping, center>>
      /\ (BackToMenu("sb") \/ BackToGame("sb") \/ Stay)
  BY DEF StatePoll
<1>2. MachineType'
  BY <1>1, PollType DEF WindowPoll, PadType, MachineType
<1>3. WindowType'
  BY <1>1, WindowMoves, Windows7
<1> QED BY <1>1, <1>2, <1>3, ForgottenType, SlotsStay, MapStays, KeyboardStays, CenterStays
        DEF PadType, mapping

LEMMA PlainPollType ==
  ASSUME PadType, NEW b \in SUBSET Buttons, NEW w \in {"cfg", "about"}, PlainPoll(w, b)
  PROVE  PadType'
<1>1. WindowPoll(w, b) /\ UNCHANGED <<exit_request, slots, vkbd, mapping, center>>
      /\ (BackToMenu(w) \/ Stay)
  BY DEF PlainPoll
<1>2. MachineType'
  BY <1>1, PollType DEF WindowPoll, PadType, MachineType
<1>3. WindowType'
  BY <1>1, WindowMoves, Windows7
<1> QED BY <1>1, <1>2, <1>3, ForgottenType, SlotsStay, MapStays, KeyboardStays, CenterStays
        DEF PadType, mapping

LEMMA BrowserPollType ==
  ASSUME PadType, NEW b \in SUBSET Buttons, BrowserPoll(b) PROVE PadType'
<1>1. WindowPoll("browser", b) /\ UNCHANGED <<exit_request, slots, vkbd, wait_src, center>>
      /\ (BackToMenu("browser") \/ BackToGame("browser") \/ Stay) /\ (KeepRom \/ InstallRom)
  BY DEF BrowserPoll
<1>2. MachineType'
  BY <1>1, PollType DEF WindowPoll, PadType, MachineType
<1>3. WindowType'
  BY <1>1, WindowMoves, Windows7
<1> QED BY <1>1, <1>2, <1>3, ForgottenType, SlotsStay, RomInstalls, KeyboardStays, CenterStays
        DEF PadType

LEMMA MenuPollType ==
  ASSUME PadType, NEW b \in SUBSET Buttons, MenuPoll(b) PROVE PadType'
<1>1. WindowPoll("menu", b) /\ UNCHANGED <<slots, vkbd, keymap>>
  BY DEF MenuPoll
<1>2. exit_request' \in BOOLEAN
  BY DEF MenuPoll, PadType, MachineType
<1>3. MachineType'
  BY <1>1, <1>2, PollType DEF WindowPoll
<1>4. WindowType'
  <2>1. BackToGame("menu") \/ Stay \/ \E w \in Windows \ {"exit"} : ReplaceMenu(w) /\ UNCHANGED paused
    BY DEF MenuPoll
  <2>2. \A w \in Windows \ {"exit"} : w \in ToSet(Order)
    BY Windows7
  <2> QED BY <2>1, <2>2, WindowMoves, Windows7
<1>5. MapType'
  <2>1. wait_src' = wait_src \/ wait_src' = {}
    BY DEF MenuPoll
  <2> QED BY <1>1, <2>1, FS_EmptySet DEF PadType, MapType
<1>6. CenterType'
  <2>1. UNCHANGED center \/ (catalog' \in BOOLEAN /\ gc_prev' = {}
                             /\ UNCHANGED <<rom_ready, dialog, dlg_prev>>)
    BY DEF MenuPoll
  <2> QED BY <2>1, CenterStays DEF PadType, CenterType
<1> QED BY <1>1, <1>3, <1>4, <1>5, <1>6, ForgottenType, SlotsStay, KeyboardStays DEF PadType

LEMMA DialogPollType ==
  ASSUME PadType, NEW b \in SUBSET Buttons, DialogPoll(b) PROVE PadType'
<1>1. WindowPoll("gc", b)
      /\ UNCHANGED <<open, paused, exit_request, slots, vkbd, mapping, catalog, gc_prev>>
  BY DEF DialogPoll
<1>2. MachineType'
  BY <1>1, PollType DEF WindowPoll, PadType, MachineType
<1>3. WindowType'
  BY <1>1 DEF PadType, WindowType
<1>4. CenterType'
  <2>1. dlg_prev' \subseteq DialogButtons /\ dialog' \in BOOLEAN /\ rom_ready' \in BOOLEAN
    BY DEF DialogPoll, PadType, CenterType
  <2> QED BY <1>1, <2>1 DEF PadType, CenterType
<1> QED BY <1>1, <1>2, <1>3, <1>4, ForgottenType, SlotsStay, MapStays, KeyboardStays
        DEF PadType, mapping

LEMMA CatalogPollType ==
  ASSUME PadType, NEW b \in SUBSET Buttons, CatalogPoll(b) PROVE PadType'
<1>1. WindowPoll("gc", b) /\ UNCHANGED <<exit_request, slots, vkbd, wait_src, catalog>>
      /\ (KeepRom \/ InstallRom)
  BY DEF CatalogPoll
<1>2. MachineType'
  BY <1>1, PollType DEF WindowPoll, PadType, MachineType
<1>3. WindowType'
  <2>1. paused' \in BOOLEAN
    BY DEF CatalogPoll, PadType, WindowType
  <2>2. open' \subseteq open \cup {"menu"}
    BY DEF CatalogPoll
  <2> QED BY <2>1, <2>2, Windows7 DEF PadType, WindowType
<1>4. CenterType'
  <2>1. gc_prev' \subseteq DialogButtons /\ (dlg_prev' = {} \/ dlg_prev' = dlg_prev)
        /\ rom_ready' = FALSE
    BY DEF CatalogPoll
  <2>2. dialog' \in BOOLEAN
    BY DEF CatalogPoll
  <2> QED BY <1>1, <2>1, <2>2 DEF PadType, CenterType
<1> QED BY <1>1, <1>2, <1>3, <1>4, ForgottenType, SlotsStay, RomInstalls, KeyboardStays
        DEF PadType

-----------------------------------------------------------------------------
(* The virtual keyboard *)

StepType(step) ==
  /\ step.down \subseteq Keys /\ IsFiniteSet(step.down)
  /\ step.sticky \in Table /\ step.lit \subseteq Sticky
  /\ step.presses \in Seq(Keys) /\ step.releases \in Seq(Keys)

\* What a step of the keyboard returns has the types its caller stores.
LEMMA KeyedType ==
  ASSUME NEW down, NEW sticky, NEW on, NEW presses, NEW releases,
         down \subseteq Keys, IsFiniteSet(down), sticky \in Table, on \subseteq Sticky,
         presses \in Seq(Keys), releases \in Seq(Keys)
  PROVE  StepType(Keyed(down, sticky, on, presses, releases))
BY DEF StepType, Keyed

\* A single key, or none, is a sequence of keys.
LEMMA OneKey ==
  ASSUME NEW k \in Keys
  PROVE  <<k>> \in Seq(Keys) /\ <<>> \in Seq(Keys)
OBVIOUS

\* The entry of the table PressKey chooses for k: 0 when there is none
Entry(k) == SelectInSeq(sticky_down, LAMBDA x : x \in {k, NoKey})

\* The entry a search of the table finds is one of it.
LEMMA EntryFound ==
  ASSUME sticky_down \in Table, NEW k
  PROVE  /\ Entry(k) \in 0..NSticky
         /\ Entry(k) # 0 => sticky_down[Entry(k)] \in {k, NoKey}
<1> DEFINE I == {i \in 1..Len(sticky_down) : sticky_down[i] \in {k, NoKey}}
           n == NSticky
           T == {n - i : i \in I}
<1>1. n \in Nat /\ Len(sticky_down) = n
  BY PadAssumption DEF Table
<1>2. Entry(k) = IF I # {} THEN Min(I) ELSE 0
  BY Zenon DEF Entry, SelectInSeq
<1>3. I \subseteq 1..n /\ \A i \in I : sticky_down[i] \in {k, NoKey}
  BY <1>1
<1>4. ASSUME I # {} PROVE Min(I) \in I
  <2> HIDE DEF I, n
  <2>1. T \subseteq 0..n /\ T # {}
    <3>1. \A i \in I : n - i \in 0..n
      BY <1>1, <1>3
    <3>2. PICK i \in I : TRUE
      BY <1>4
    <3>3. n - i \in T
      BY <3>2
    <3> QED BY <3>1, <3>3
  <2>2. PICK m \in T : \A j \in T : j <= m
    <3> HIDE DEF T
    <3> QED BY <1>1, <2>1, GreatestBelow
  <2>3. PICK i \in I : m = n - i
    BY <2>2
  <2>4. \A j \in I : i <= j
    <3> TAKE j \in I
    <3>1. n - j <= m
      BY <2>2
    <3>2. i \in Int /\ j \in Int
      BY <1>1, <1>3
    <3> QED BY <1>1, <2>3, <3>1, <3>2
  <2>5. Min(I) = CHOOSE x \in I : \A y \in I : x =< y
    BY DEF Min
  <2> QED BY <2>4, <2>5
<1> HIDE DEF I
<1>5. CASE I # {}
  <2>1. Entry(k) \in I
    BY <1>2, <1>4, <1>5, Zenon
  <2>2. Entry(k) \in 1..n
    BY <1>3, <2>1, Zenon
  <2>3. NSticky \in Nat => 1..NSticky \subseteq 0..NSticky
    OBVIOUS
  <2> QED BY <1>1, <1>3, <2>1, <2>2, <2>3
<1>6. CASE I = {}
  BY <1>1, <1>2, <1>6
<1> QED BY <1>5, <1>6

\* Pressing a key, latchable or not (VirtualKeyboard::pressKey)
LEMMA PressKeyType ==
  ASSUME KeyboardType, NEW k \in Keys
  PROVE  StepType(PressKey(k))
<1> DEFINE i == Entry(k)
<1>1. i \in 0..NSticky /\ NSticky \in Nat
  <2>1. sticky_down \in Table
    BY DEF KeyboardType
  <2>2. i \in 0..NSticky
    BY <2>1, EntryFound
  <2> QED BY <2>2, PadAssumption
<1>2. PressKey(k) = IF k \notin Sticky \cup keys_down
     THEN Keyed(keys_down \cup {k}, sticky_down, lit, <<k>>, <<>>)
     ELSE IF k \in keys_down \/ i = 0 THEN Keyed(keys_down, sticky_down, lit, <<>>, <<>>)
     ELSE IF sticky_down[i] = k
     THEN Keyed(keys_down, [sticky_down EXCEPT ![i] = NoKey], lit \ {k}, <<>>, <<k>>)
     ELSE Keyed(keys_down, [sticky_down EXCEPT ![i] = k], lit \cup {k}, <<k>>, <<>>)
  BY Zenon DEF PressKey, Entry
<1> HIDE DEF i
<1>3. keys_down \subseteq Keys /\ IsFiniteSet(keys_down) /\ sticky_down \in Table
      /\ lit \subseteq Sticky
  BY DEF KeyboardType
<1>4. <<k>> \in Seq(Keys) /\ <<>> \in Seq(Keys)
  BY OneKey
<1>5. StepType(Keyed(keys_down \cup {k}, sticky_down, lit, <<k>>, <<>>))
  <2>1. IsFiniteSet(keys_down \cup {k})
    BY <1>3, FS_AddElement
  <2> QED BY <1>3, <1>4, <2>1, KeyedType
<1>6. StepType(Keyed(keys_down, sticky_down, lit, <<>>, <<>>))
  BY <1>3, <1>4, KeyedType
<1>7. ASSUME k \in Sticky, i # 0
      PROVE  /\ StepType(Keyed(keys_down, [sticky_down EXCEPT ![i] = NoKey], lit \ {k}, <<>>, <<k>>))
             /\ StepType(Keyed(keys_down, [sticky_down EXCEPT ![i] = k], lit \cup {k}, <<k>>, <<>>))
  <2>1. /\ [sticky_down EXCEPT ![i] = NoKey] \in Table
        /\ [sticky_down EXCEPT ![i] = k] \in Table
    BY <1>3, <1>7 DEF Table
  <2>2. lit \ {k} \subseteq Sticky /\ lit \cup {k} \subseteq Sticky
    BY <1>3, <1>7
  <2> QED BY <1>3, <1>4, <2>1, <2>2, KeyedType
<1> QED BY <1>2, <1>5, <1>6, <1>7

\* Lifting the finger also lets go of the latched keys (VirtualKeyboard::releaseKey).
LEMMA ReleaseKeyType ==
  ASSUME KeyboardType, NEW k \in Keys
  PROVE  StepType(ReleaseKey(k))
<1>1. IsFiniteSet(keys_down \ {k})
  BY FS_RemoveElement DEF KeyboardType
<1>2. <<k>> \o Latched(sticky_down) \in Seq(Keys)
  <2>1. Latched(sticky_down) \in Seq(Keys)
    BY LatchedType DEF KeyboardType
  <2> QED BY <2>1, OneKey
<1>3. <<>> \in Seq(Keys)
  BY OneKey
<1>4. keys_down \ {k} \subseteq Keys /\ lit \ ToSet(sticky_down) \subseteq Sticky
  BY DEF KeyboardType
<1> QED BY <1>1, <1>2, <1>3, <1>4, UnlatchedType, KeyedType DEF ReleaseKey

\* One update of the keyboard, whatever it is given
LEMMA UpdateType ==
  ASSUME KeyboardType, NEW b, NEW repeat, NEW k \in Keys
  PROVE  StepType(Update(b, repeat, k))
<1>1. StepType(Keyed(keys_down, sticky_down, lit, <<>>, <<>>))
  BY OneKey, KeyedType DEF KeyboardType
<1>2. StepType(PressKey(k))
  BY PressKeyType
<1>3. StepType(ReleaseKey(finger))
  BY ReleaseKeyType DEF KeyboardType
<1> QED BY <1>1, <1>2, <1>3 DEF Update

\* The finger never leaves the keyboard.
LEMMA FingersType ==
  ASSUME KeyboardType, NEW b, NEW repeat
  PROVE  Fingers(b, repeat) \subseteq Keys
BY DEF KeyboardType, Fingers

\* A poll of the MAP KEYS window: a source is forgotten, or waits for its key.
LEMMA MapKeysPollType ==
  ASSUME PadType, NEW b \in SUBSET Buttons, MapKeysPoll(b) PROVE PadType'
<1>1. WindowPoll("mapk", b) /\ UNCHANGED <<exit_request, center>>
      /\ (BackToMenu("mapk") \/ Stay)
  BY DEF MapKeysPoll
<1>2. MachineType'
  BY <1>1, PollType DEF WindowPoll, PadType, MachineType
<1>3. WindowType'
  BY <1>1, WindowMoves, Windows7
<1>4. SlotsType' /\ KeyboardType'
  <2>1. CASE Hide(b) /\ keyups' = Releasing /\ UNCHANGED <<finger, keydowns>>
    BY <2>1, HideType, ReleasingType DEF PadType, SlotsType
  <2>2. CASE UNCHANGED <<vkbd, slots>>
    BY <2>2, SlotsStay, KeyboardStays
  <2>3. CASE UNCHANGED slots /\ (Show(b) \/ UNCHANGED vkbd)
    BY <2>3, SlotsStay, KeyboardStays, ShowType
  <2> QED BY <2>1, <2>2, <2>3 DEF MapKeysPoll
<1>5. MapType'
  <2>1. \/ keymap' = keymap
        \/ \E src \in Source : keymap' = [keymap EXCEPT ![src] = NoKey]
    BY DEF MapKeysPoll, mapping
  <2>2. wait_src' = wait_src \/ \E src \in Source : wait_src' = {src}
    BY DEF MapKeysPoll, mapping
  <2>3. keymap' \in KeyMaps
    BY <2>1 DEF PadType, MapType, KeyMaps
  <2>4. wait_src' \subseteq Source /\ Cardinality(wait_src') <= 1
    <3>1. CASE wait_src' = wait_src
      BY <3>1 DEF PadType, MapType
    <3>2. ASSUME NEW src \in Source, wait_src' = {src}
          PROVE  wait_src' \subseteq Source /\ Cardinality(wait_src') <= 1
      <4>1. Cardinality({src}) = 1
        BY FS_Singleton
      <4> QED BY <3>2, <4>1
    <3> QED BY <2>2, <3>1, <3>2
  <2> QED BY <2>3, <2>4 DEF MapType
<1> QED BY <1>1, <1>2, <1>3, <1>4, <1>5, ForgottenType, CenterStays DEF PadType

\* A poll that picks the key of the waiting source on the keyboard
LEMMA PickKeyPollType ==
  ASSUME PadType, NEW b \in SUBSET Buttons, PickKeyPoll(b) PROVE PadType'
<1>1. WindowPoll("mapk", b) /\ UNCHANGED <<exit_request, center, keydowns>> /\ Stay
  BY DEF PickKeyPoll
<1>2. MachineType'
  BY <1>1, PollType DEF WindowPoll, PadType, MachineType
<1>3. WindowType'
  BY <1>1, WindowMoves, Windows7
<1>4p. PICK repeat \in BOOLEAN : \E k \in Fingers(b, repeat) :
        LET step   == Update(b, repeat, k)
            picked == step.presses # <<>>
            ends   == picked \/ "CIRCLE" \in Pressed(b)
        IN /\ finger' = k
           /\ keymap' = IF picked THEN [s \in Source |-> IF s \in wait_src THEN k ELSE keymap[s]]
                                  ELSE keymap
           /\ wait_src' = IF ends THEN {} ELSE wait_src
           /\ keyups' = QueueAll(keyups, step.releases
                                 \o IF ends THEN Held(step.down, step.sticky) ELSE <<>>)
           /\ IF ends THEN Hide(b)
              ELSE /\ keys_down' = step.down /\ sticky_down' = step.sticky /\ lit' = step.lit
                   /\ vk_prev' = b \cap VkbdButtons /\ UNCHANGED visible
  BY Zenon DEF PickKeyPoll
<1>4. PICK k \in Fingers(b, repeat) :
        LET step   == Update(b, repeat, k)
            picked == step.presses # <<>>
            ends   == picked \/ "CIRCLE" \in Pressed(b)
        IN /\ finger' = k
           /\ keymap' = IF picked THEN [s \in Source |-> IF s \in wait_src THEN k ELSE keymap[s]]
                                  ELSE keymap
           /\ wait_src' = IF ends THEN {} ELSE wait_src
           /\ keyups' = QueueAll(keyups, step.releases
                                 \o IF ends THEN Held(step.down, step.sticky) ELSE <<>>)
           /\ IF ends THEN Hide(b)
              ELSE /\ keys_down' = step.down /\ sticky_down' = step.sticky /\ lit' = step.lit
                   /\ vk_prev' = b \cap VkbdButtons /\ UNCHANGED visible
  BY <1>4p, Zenon
<1> DEFINE step == Update(b, repeat, k)
           ends == step.presses # <<>> \/ "CIRCLE" \in Pressed(b)
<1>5. k \in Keys
  BY FingersType DEF PadType
<1>6. StepType(step)
  BY <1>5, UpdateType DEF PadType
<1>7. /\ finger' = k
      /\ keymap' = keymap \/ keymap' = [s \in Source |-> IF s \in wait_src THEN k ELSE keymap[s]]
      /\ wait_src' = {} \/ wait_src' = wait_src
      /\ keyups' = QueueAll(keyups, step.releases
                            \o IF ends THEN Held(step.down, step.sticky) ELSE <<>>)
      /\ \/ Hide(b)
         \/ /\ keys_down' = step.down /\ sticky_down' = step.sticky /\ lit' = step.lit
            /\ vk_prev' = b \cap VkbdButtons /\ UNCHANGED visible
  BY <1>4, Zenon
<1> HIDE DEF step
<1>8. SlotsType'
  <2>1. step.releases \in Seq(Keys) /\ Held(step.down, step.sticky) \in Seq(Keys)
        /\ <<>> \in Seq(Keys)
    BY <1>5, <1>6, HeldType, OneKey DEF StepType
  <2>2. (step.releases \o IF ends THEN Held(step.down, step.sticky) ELSE <<>>) \in Seq(Keys)
    BY <2>1
  <2>3. keyups' \in Slot
    BY <1>7, <2>2, QueueAllType DEF PadType, SlotsType
  <2> QED BY <1>1, <2>3 DEF PadType, SlotsType
<1>9. KeyboardType'
  <2>1. CASE Hide(b)
    BY <1>5, <1>7, <2>1, UnlatchedType, FS_EmptySet DEF KeyboardType, Hide
  <2>2. CASE /\ keys_down' = step.down /\ sticky_down' = step.sticky /\ lit' = step.lit
             /\ vk_prev' = b \cap VkbdButtons /\ UNCHANGED visible
    BY <1>5, <1>6, <1>7, <2>2 DEF PadType, KeyboardType, StepType
  <2> QED BY <1>7, <2>1, <2>2
<1>10. MapType'
  <2>1. keymap' \in KeyMaps
    BY <1>5, <1>7 DEF PadType, MapType, KeyMaps
  <2>2. Cardinality({}) = 0
    BY FS_EmptySet
  <2>3. wait_src \subseteq Source /\ Cardinality(wait_src) <= 1
    BY DEF PadType, MapType
  <2>4. wait_src' = {} \/ wait_src' = wait_src
    BY <1>7
  <2>5. wait_src' \subseteq Source /\ Cardinality(wait_src') <= 1
    BY <2>2, <2>3, <2>4
  <2> QED BY <2>1, <2>5 DEF MapType
<1> QED BY <1>1, <1>2, <1>3, <1>8, <1>9, <1>10, ForgottenType, CenterStays DEF PadType

-----------------------------------------------------------------------------
(* The game *)

\* What every poll of it leaves alone
LEMMA GamePollType ==
  ASSUME PadType, NEW b \in SUBSET Buttons, GamePoll(b)
  PROVE  MachineType' /\ MapType' /\ CenterType' /\ keymap' = keymap
BY PollType, MapStays, CenterStays DEF GamePoll, PadType, MachineType, mapping

\* What the pad feeds in this poll, and what changes against the last, are keys.
LEMMA FedNow ==
  ASSUME PadType, NEW b
  PROVE  /\ Mapped(b) \subseteq Source /\ \A s \in Mapped(b) : keymap[s] # NoKey
         /\ KeysOf(Mapped(b)) \in Seq(Keys)
         /\ KeysOf(Mapped(b) \ old_mapped) \in Seq(Keys)
         /\ KeysOf(old_mapped \ Mapped(b)) \in Seq(Keys)
<1>1. Mapped(b) \subseteq Source /\ \A s \in Mapped(b) : keymap[s] # NoKey
  BY DEF Mapped
<1>2. keymap \in KeyMaps /\ \A s \in old_mapped : keymap[s] # NoKey
  BY DEF PadType, MapType, FedType
<1>3. /\ \A s \in Mapped(b) \ old_mapped : keymap[s] # NoKey
      /\ \A s \in old_mapped \ Mapped(b) : keymap[s] # NoKey
  BY <1>1, <1>2
<1> QED BY <1>1, <1>2, <1>3, KeysOfType

\* The polls of the running game, one case per way the pad is used
LEMMA GamePollsType ==
  ASSUME PadType, NEW b \in SUBSET Buttons, GamePolls(b) PROVE PadType'
<1>1. CASE OpenMenu(b)
  <2>1. GamePoll(b) /\ open' = open \cup {"menu"} /\ paused' = TRUE /\ old_mapped' = {}
        /\ UNCHANGED keydowns
    BY <1>1 DEF OpenMenu
  <2>2. WindowType' /\ FedType'
    BY <2>1, Windows7 DEF PadType, WindowType, FedType
  <2>3. KeyboardType' /\ keyups' \in Slot
    <3>1. CASE Hide(b) /\ keyups' = Releasing /\ UNCHANGED finger
      BY <3>1, HideType, ReleasingType
    <3>2. CASE keyups' = QueueAll(keyups, KeysOf(Mapped(b))) /\ UNCHANGED vkbd
      BY <3>2, FedNow, QueueAllType, KeyboardStays DEF PadType, SlotsType
    <3> QED BY <1>1, <3>1, <3>2 DEF OpenMenu
  <2> QED BY <2>1, <2>2, <2>3, GamePollType DEF PadType, SlotsType
<1>2. CASE ShowKeyboard(b)
  <2>1. GamePoll(b) /\ Show(b) /\ old_mapped' = {} /\ UNCHANGED <<keydowns, open, paused>>
        /\ keyups' = QueueAll(keyups, KeysOf(Mapped(b)))
    BY <1>2 DEF ShowKeyboard
  <2>2. keyups' \in Slot
    BY <2>1, FedNow, QueueAllType DEF PadType, SlotsType
  <2>3. WindowType' /\ FedType' /\ KeyboardType'
    BY <2>1, ShowType DEF PadType, WindowType, FedType
  <2> QED BY <2>1, <2>2, <2>3, GamePollType DEF PadType, SlotsType
<1>3. CASE HideKeyboard(b)
  <2>1. /\ GamePoll(b) /\ Hide(b) /\ old_mapped' = Mapped(b) /\ UNCHANGED <<finger, open, paused>>
        /\ keydowns' = QueueAll(keydowns, KeysOf(Mapped(b) \ old_mapped))
        /\ keyups' = QueueAll(Releasing, KeysOf(old_mapped \ Mapped(b)))
    BY <1>3 DEF HideKeyboard
  <2>2. keydowns' \in Slot /\ keyups' \in Slot
    BY <2>1, FedNow, QueueAllType, ReleasingType DEF PadType, SlotsType
  <2>3. WindowType' /\ FedType' /\ KeyboardType'
    BY <2>1, HideType, FedNow, GamePollType DEF PadType, WindowType, FedType
  <2> QED BY <2>1, <2>2, <2>3, GamePollType DEF PadType, SlotsType
<1>4. CASE TypeOnKeyboard(b)
  <2>1. GamePoll(b) /\ vk_prev' = b \cap VkbdButtons /\ old_mapped' = {}
        /\ UNCHANGED <<visible, open, paused>>
    BY <1>4 DEF TypeOnKeyboard
  <2>2p. PICK repeat \in BOOLEAN : \E k \in Fingers(b, repeat) :
          LET step == Update(b, repeat, k)
          IN /\ finger' = k
             /\ keys_down' = step.down /\ sticky_down' = step.sticky /\ lit' = step.lit
             /\ keydowns' = QueueAll(keydowns, step.presses)
             /\ keyups' = QueueAll(keyups, step.releases)
    BY <1>4, Zenon DEF TypeOnKeyboard
  <2>2. PICK k \in Fingers(b, repeat) :
          LET step == Update(b, repeat, k)
          IN /\ finger' = k
             /\ keys_down' = step.down /\ sticky_down' = step.sticky /\ lit' = step.lit
             /\ keydowns' = QueueAll(keydowns, step.presses)
             /\ keyups' = QueueAll(keyups, step.releases)
    BY <2>2p, Zenon
  <2> DEFINE step == Update(b, repeat, k)
  <2>3. k \in Keys
    BY FingersType DEF PadType
  <2>4. StepType(step)
    BY <2>3, UpdateType DEF PadType
  <2>5. /\ finger' = k
        /\ keys_down' = step.down /\ sticky_down' = step.sticky /\ lit' = step.lit
        /\ keydowns' = QueueAll(keydowns, step.presses)
        /\ keyups' = QueueAll(keyups, step.releases)
    BY <2>2, Zenon
  <2> HIDE DEF step
  <2>6. SlotsType'
    BY <2>4, <2>5, QueueAllType DEF PadType, SlotsType, StepType
  <2>7. KeyboardType'
    BY <2>1, <2>3, <2>4, <2>5 DEF PadType, KeyboardType, StepType
  <2>8. WindowType' /\ FedType'
    BY <2>1 DEF PadType, WindowType, FedType
  <2> QED BY <2>1, <2>6, <2>7, <2>8, GamePollType DEF PadType
<1>5. CASE FeedPad(b)
  <2>1. /\ GamePoll(b) /\ old_mapped' = Mapped(b) /\ UNCHANGED <<vkbd, open, paused>>
        /\ keydowns' = QueueAll(keydowns, KeysOf(Mapped(b) \ old_mapped))
        /\ keyups' = QueueAll(keyups, KeysOf(old_mapped \ Mapped(b)))
    BY <1>5 DEF FeedPad
  <2>2. SlotsType'
    BY <2>1, FedNow, QueueAllType DEF PadType, SlotsType
  <2>3. WindowType' /\ FedType' /\ KeyboardType'
    BY <2>1, KeyboardStays, FedNow, GamePollType DEF PadType, WindowType, FedType
  <2> QED BY <2>1, <2>2, <2>3, GamePollType DEF PadType
<1> QED BY <1>1, <1>2, <1>3, <1>4, <1>5 DEF GamePolls

\* The steps of the worker around a frame
LEMMA FrameStepsType ==
  ASSUME PadType, Drain \/ RunFrame \/ StopWorker PROVE PadType'
<1>1. CASE Drain
  <2>1. /\ pc' = "frame" /\ matrix' = Drained /\ keydowns' = <<>> /\ keyups' = <<>>
        /\ UNCHANGED <<paused, auto_opened, exit_request, buttons,
                       old_mapped, vkbd, open, mapping, center>>
    BY <1>1 DEF Drain
  <2>2. Drained \subseteq Keys
    BY DrainedType DEF PadType, SlotsType, MachineType
  <2>3. MachineType'
    BY <2>1, <2>2 DEF PadType, MachineType
  <2>4. SlotsType'
    BY <2>1, PadAssumption DEF SlotsType, Slot
  <2>5. WindowType' /\ FedType'
    BY <2>1 DEF PadType, WindowType, FedType, mapping
  <2> QED BY <2>1, <2>3, <2>4, <2>5, MapStays, KeyboardStays, CenterStays DEF PadType, mapping
<1>2. CASE RunFrame
  <2>1. /\ pc' = "loop" /\ UNCHANGED <<exit_request, buttons, old_mapped, slots, matrix,
                                       vkbd, mapping, center>>
        /\ \/ UNCHANGED <<open, paused, auto_opened>>
           \/ auto_opened' = TRUE /\ open' = open \cup {"menu"} /\ paused' = TRUE
    BY <1>2 DEF RunFrame
  <2>2. MachineType'
    BY <2>1 DEF PadType, MachineType
  <2>3. WindowType' /\ FedType'
    BY <2>1, Windows7 DEF PadType, WindowType, FedType, mapping
  <2> QED BY <2>1, <2>2, <2>3, SlotsStay, MapStays, KeyboardStays, CenterStays
          DEF PadType, mapping
<1>3. CASE StopWorker
  <2>1. /\ pc' = "stopped"
        /\ UNCHANGED <<paused, auto_opened, exit_request, buttons,
                       old_mapped, slots, matrix, vkbd, open, mapping, center>>
    BY <1>3 DEF StopWorker
  <2>2. MachineType' /\ WindowType' /\ FedType'
    BY <2>1 DEF PadType, MachineType, WindowType, FedType, mapping
  <2> QED BY <2>1, <2>2, SlotsStay, MapStays, KeyboardStays, CenterStays DEF PadType, mapping
<1> QED BY <1>1, <1>2, <1>3

\* The invariant is inductive: one case per action of Next.
LEMMA NextType == PadType /\ [Next]_vars => PadType'
<1> SUFFICES ASSUME PadType, [Next]_vars PROVE PadType'
  OBVIOUS
<1>1. ASSUME NEW b \in SUBSET Buttons, WindowPolls(b) PROVE PadType'
  BY <1>1, StatePollType, PlainPollType, BrowserPollType, MenuPollType, DialogPollType,
     CatalogPollType, MapKeysPollType, PickKeyPollType DEF WindowPolls
<1>2. ASSUME NEW b \in SUBSET Buttons, GamePolls(b) PROVE PadType'
  BY <1>2, GamePollsType
<1>3. CASE Drain \/ RunFrame \/ StopWorker
  BY <1>3, FrameStepsType
<1>4. CASE UNCHANGED vars
  <2>1. UNCHANGED <<machine, buttons, old_mapped, slots, matrix, vkbd, open, mapping, center>>
    BY <1>4 DEF vars
  <2>2. MachineType' /\ WindowType' /\ FedType'
    BY <2>1 DEF machine, mapping, PadType, MachineType, WindowType, FedType
  <2> QED BY <2>1, <2>2, SlotsStay, MapStays, KeyboardStays, CenterStays DEF PadType, mapping
<1> QED BY <1>1, <1>2, <1>3, <1>4 DEF Next

(* Whatever buttons change, keys are released and windows come and go: the     *)
(* slots never hold more than they have room for nor anything that is not a    *)
(* key, the latch table keeps its size, and at most one source waits for a key. *)
THEOREM TypeCorrect == Spec => []TypeOK
<1> QED BY InitType, NextType, PadTypeIsTypeOK, PTL DEF Spec

-----------------------------------------------------------------------------
(* What the slots, the picks and the drain keep and lose                     *)

\* There is room for another key, or no other key to queue.
Room(slot) == Len(slot) < NSlots \/ Keys \subseteq ToSet(slot)

\* The elements of two sequences joined are those of both.
LEMMA ConcatElements ==
  ASSUME NEW S, NEW s \in Seq(S), NEW t \in Seq(S)
  PROVE  ToSet(s \o t) = ToSet(s) \cup ToSet(t)
<1>1. /\ DOMAIN s = 1..Len(s) /\ DOMAIN t = 1..Len(t) /\ DOMAIN (s \o t) = 1..(Len(s) + Len(t))
      /\ Len(s) \in Nat /\ Len(t) \in Nat
      /\ \A i \in 1..(Len(s) + Len(t)) : (s \o t)[i] = IF i <= Len(s) THEN s[i] ELSE t[i - Len(s)]
  OBVIOUS
<1>2. ToSet(s \o t) \subseteq ToSet(s) \cup ToSet(t)
  BY <1>1 DEF ToSet
<1>3. ToSet(s) \subseteq ToSet(s \o t)
  <2> SUFFICES ASSUME NEW i \in 1..Len(s) PROVE s[i] \in ToSet(s \o t)
    BY <1>1 DEF ToSet
  <2>1. i \in 1..(Len(s) + Len(t)) /\ (s \o t)[i] = s[i]
    BY <1>1
  <2> QED BY <1>1, <2>1 DEF ToSet
<1>4. ToSet(t) \subseteq ToSet(s \o t)
  <2> SUFFICES ASSUME NEW i \in 1..Len(t) PROVE t[i] \in ToSet(s \o t)
    BY <1>1 DEF ToSet
  <2>1. Len(s) + i \in 1..(Len(s) + Len(t)) /\ (s \o t)[Len(s) + i] = t[i]
    BY <1>1
  <2> QED BY <1>1, <2>1 DEF ToSet
<1> QED BY <1>2, <1>3, <1>4

\* Appending adds one element.
LEMMA AppendElements ==
  ASSUME NEW S, NEW s \in Seq(S), NEW x \in S
  PROVE  ToSet(Append(s, x)) = ToSet(s) \cup {x}
<1> DEFINE t == <<x>>
<1>1. t \in Seq(S) /\ Append(s, x) = s \o t
  OBVIOUS
<1>2. ToSet(t) = {x}
  BY DEF ToSet
<1> HIDE DEF t
<1>3. ToSet(s \o t) = ToSet(s) \cup ToSet(t)
  BY <1>1, ConcatElements
<1> QED BY <1>1, <1>2, <1>3

\* A key that is queued joins those in the slot, unless the slot is full.
LEMMA QueueHolds ==
  ASSUME NEW slot \in Slot, NEW k \in Keys
  PROVE  /\ ToSet(slot) \subseteq ToSet(Queue(slot, k))
         /\ ToSet(Queue(slot, k)) \subseteq ToSet(slot) \cup {k}
         /\ k \in ToSet(Queue(slot, k)) \/ (Len(slot) = NSlots /\ Queue(slot, k) = slot)
<1>1. ToSet(Append(slot, k)) = ToSet(slot) \cup {k}
  BY AppendElements DEF Slot
<1> QED BY <1>1 DEF Queue

\* So do several, as far as there is room: while there is, none is lost.
LEMMA QueueAllHolds ==
  ASSUME NEW slot \in Slot, NEW ks \in Seq(Keys)
  PROVE  /\ ToSet(slot) \subseteq ToSet(QueueAll(slot, ks))
         /\ ToSet(QueueAll(slot, ks)) \subseteq ToSet(slot) \cup ToSet(ks)
         /\ Room(QueueAll(slot, ks)) => ToSet(ks) \subseteq ToSet(QueueAll(slot, ks))
<1> DEFINE n == Len(ks)
<1>1. n \in Nat /\ DOMAIN ks = 1..n /\ \A i \in 1..n : ks[i] \in Keys /\ ks[i] \in ToSet(ks)
  BY DEF ToSet
<1>2. PICK f \in [0..n -> Slot] :
        /\ f[0] = slot /\ QueueAll(slot, ks) = f[n]
        /\ \A i \in 1..n : f[i] = Queue(f[i - 1], ks[i])
  BY QueueAllSteps
<1> DEFINE Kept(i) == /\ ToSet(slot) \subseteq ToSet(f[i])
                      /\ ToSet(f[i]) \subseteq ToSet(slot) \cup ToSet(ks)
                      /\ Len(f[i]) = NSlots \/ \A j \in 1..i : ks[j] \in ToSet(f[i])
           T == {i \in 0..n : Kept(i)}
<1> HIDE DEF n
<1>3. 0 \in T
  <2>1. Kept(0)
    BY <1>2
  <2> QED BY <1>1, <2>1
<1>4. ASSUME NEW i \in Nat, i < n, i \in T PROVE i + 1 \in T
  <2>1. i + 1 \in 1..n /\ i + 1 \in 0..n /\ (i + 1) - 1 = i /\ i \in 0..n
    BY <1>1, <1>4
  <2>2. f[i + 1] = Queue(f[i], ks[i + 1]) /\ f[i] \in Slot /\ ks[i + 1] \in Keys
        /\ ks[i + 1] \in ToSet(ks)
    BY <1>1, <1>2, <2>1
  <2>3. /\ ToSet(f[i]) \subseteq ToSet(f[i + 1])
        /\ ToSet(f[i + 1]) \subseteq ToSet(f[i]) \cup {ks[i + 1]}
        /\ ks[i + 1] \in ToSet(f[i + 1]) \/ (Len(f[i]) = NSlots /\ f[i + 1] = f[i])
    BY <2>2, QueueHolds
  <2>4. Len(f[i]) = NSlots => f[i + 1] = f[i]
    BY <2>2 DEF Queue
  <2>5. Kept(i)
    BY <1>4
  <2>6. Len(f[i + 1]) = NSlots \/ \A j \in 1..(i + 1) : ks[j] \in ToSet(f[i + 1])
    <3>1. CASE Len(f[i]) = NSlots
      BY <2>4, <3>1
    <3>2. CASE Len(f[i]) # NSlots
      <4>1. \A j \in 1..i : ks[j] \in ToSet(f[i + 1])
        BY <2>3, <2>5, <3>2
      <4>2. \A j \in 1..(i + 1) : j \in 1..i \/ j = i + 1
        BY <1>4
      <4> QED BY <2>3, <3>2, <4>1, <4>2
    <3> QED BY <3>1, <3>2
  <2>7. Kept(i + 1)
    BY <2>2, <2>3, <2>5, <2>6
  <2> QED BY <2>1, <2>7
<1>5. \A i \in 0..n : i \in T
  <2> HIDE DEF T
  <2> QED BY <1>1, <1>3, <1>4, SetInduction
<1>6. Kept(n) /\ f[n] \in Slot
  BY <1>1, <1>2, <1>5
<1>7. ASSUME Room(f[n]) PROVE ToSet(ks) \subseteq ToSet(f[n])
  <2>1. ToSet(ks) \subseteq Keys /\ ToSet(ks) = {ks[j] : j \in 1..n}
    BY <1>1 DEF ToSet
  <2>2. CASE Keys \subseteq ToSet(f[n])
    BY <2>1, <2>2
  <2>3. CASE Len(f[n]) < NSlots
    <3>1. Len(f[n]) # NSlots
      BY <1>6, <2>3, PadAssumption DEF Slot
    <3> QED BY <1>6, <2>1, <3>1
  <2> QED BY <1>7, <2>2, <2>3 DEF Room
<1> QED BY <1>2, <1>6, <1>7

\* Exactly the elements in the set are picked.
LEMMA PickedHolds ==
  ASSUME NEW S, NEW seq \in Seq(S), NEW set
  PROVE  ToSet(Picked(seq, set)) = ToSet(seq) \cap set
<1>0. PICK f \in [0..Len(seq) -> Seq(S \cap set)] : PicksAlong(f, seq, set)
  BY PickedSteps
<1> DEFINE n == Len(seq)
           U == S \cap set
<1>1. n \in Nat /\ DOMAIN seq = 1..n /\ \A i \in 1..n : seq[i] \in S
  OBVIOUS
<1>2. /\ f \in [0..n -> Seq(U)] /\ f[0] = <<>> /\ Picked(seq, set) = f[n]
      /\ \A i \in 1..n : f[i] = IF seq[i] \in set THEN Append(f[i - 1], seq[i]) ELSE f[i - 1]
  BY <1>0 DEF PicksAlong
<1> DEFINE Chosen(i) == {seq[j] : j \in 1..i} \cap set
           T == {i \in 0..n : ToSet(f[i]) = Chosen(i)}
<1> HIDE DEF n
<1>3. 0 \in T
  <2>1. ToSet(f[0]) = {} /\ Chosen(0) = {}
    BY <1>2 DEF ToSet
  <2> QED BY <1>1, <2>1
<1>4. ASSUME NEW i \in Nat, i < n, i \in T PROVE i + 1 \in T
  <2>1. i + 1 \in 1..n /\ i + 1 \in 0..n /\ (i + 1) - 1 = i /\ i \in 0..n
    BY <1>1, <1>4
  <2>2. f[i + 1] = IF seq[i + 1] \in set THEN Append(f[i], seq[i + 1]) ELSE f[i]
    BY <1>2, <2>1
  <2>3. 1..(i + 1) = (1..i) \cup {i + 1}
    BY <1>4
  <2>4. Chosen(i + 1) = Chosen(i) \cup ({seq[i + 1]} \cap set)
    BY <2>3
  <2>5. seq[i + 1] \in set => ToSet(Append(f[i], seq[i + 1])) = ToSet(f[i]) \cup {seq[i + 1]}
    <3> SUFFICES ASSUME seq[i + 1] \in set
                 PROVE  ToSet(Append(f[i], seq[i + 1])) = ToSet(f[i]) \cup {seq[i + 1]}
      OBVIOUS
    <3>1. seq[i + 1] \in U
      BY <1>1, <2>1
    <3> HIDE DEF U
    <3>2. f[i] \in Seq(U)
      BY <1>2, <2>1 DEF U
    <3> QED BY <3>1, <3>2, AppendElements
  <2>6. ToSet(f[i]) = Chosen(i)
    BY <1>4
  <2> HIDE DEF Chosen
  <2>7. ToSet(f[i + 1]) = Chosen(i + 1)
    BY <2>2, <2>4, <2>5, <2>6
  <2> QED BY <2>1, <2>7
<1>5. \A i \in 0..n : i \in T
  <2> HIDE DEF T
  <2> QED BY <1>1, <1>3, <1>4, SetInduction
<1>6. ToSet(f[n]) = Chosen(n)
  BY <1>1, <1>5
<1>7. {seq[j] : j \in 1..n} = ToSet(seq)
  BY <1>1 DEF ToSet
<1> QED BY <1>2, <1>6, <1>7

\* The drain takes out what was released, and puts in what was pressed.
LEMMA DrainedHolds ==
  ASSUME keydowns \in Slot, keyups \in Slot, matrix \subseteq Keys
  PROVE  /\ Drained \subseteq (matrix \ ToSet(keyups)) \cup ToSet(keydowns)
         /\ keydowns = <<>> \/ keyups = <<>> =>
              Drained = (matrix \cup ToSet(keydowns)) \ ToSet(keyups)
<1> DEFINE n == NSlots
           Down(i) == {keydowns[j] : j \in {k \in 1..Len(keydowns) : k <= i}}
           Up(i)   == {keyups[j] : j \in {k \in 1..Len(keyups) : k <= i}}
<1>1. /\ n \in Nat /\ Len(keydowns) \in 0..n /\ Len(keyups) \in 0..n
      /\ DOMAIN keydowns = 1..Len(keydowns) /\ DOMAIN keyups = 1..Len(keyups)
  BY PadAssumption DEF Slot
<1>2. PICK f \in [0..n -> SUBSET Keys] :
        /\ f[0] = matrix /\ Drained = f[n]
        /\ \A i \in 1..n : f[i] = (f[i - 1] \cup At(keydowns, i)) \ At(keyups, i)
  BY DrainedSteps
<1> DEFINE Bound(i) == /\ f[i] \subseteq (matrix \ Up(i)) \cup Down(i)
                       /\ keydowns = <<>> \/ keyups = <<>> => f[i] = (matrix \cup Down(i)) \ Up(i)
           T == {i \in 0..n : Bound(i)}
<1> HIDE DEF n
<1>3. 0 \in T
  <2>1. Down(0) = {} /\ Up(0) = {}
    BY <1>1
  <2> HIDE DEF Down, Up
  <2>2. Bound(0)
    BY <1>2, <2>1
  <2> QED BY <1>1, <2>2
<1>4. ASSUME NEW i \in Nat, i < n, i \in T PROVE i + 1 \in T
  <2>1. i + 1 \in 1..n /\ i + 1 \in 0..n /\ (i + 1) - 1 = i /\ i \in 0..n
    BY <1>1, <1>4
  <2>2. f[i + 1] = (f[i] \cup At(keydowns, i + 1)) \ At(keyups, i + 1)
    BY <1>2, <2>1
  <2>3. ASSUME NEW m \in 0..n
        PROVE  {k \in 1..m : k <= i + 1} = {k \in 1..m : k <= i} \cup
                                           (IF i + 1 <= m THEN {i + 1} ELSE {})
    BY <1>1, <1>4
  <2>4. Down(i + 1) = Down(i) \cup At(keydowns, i + 1)
    BY <1>1, <2>3 DEF At
  <2>5. Up(i + 1) = Up(i) \cup At(keyups, i + 1)
    BY <1>1, <2>3 DEF At
  <2>6. /\ keydowns = <<>> => Down(i) = {} /\ At(keydowns, i + 1) = {}
        /\ keyups = <<>> => Up(i) = {} /\ At(keyups, i + 1) = {}
    BY <1>4 DEF At
  <2>7. Bound(i)
    BY <1>4
  <2> HIDE DEF Down, Up
  <2>8. Bound(i + 1)
    BY <2>2, <2>4, <2>5, <2>6, <2>7
  <2> QED BY <2>1, <2>8
<1>5. \A i \in 0..n : i \in T
  <2> HIDE DEF T
  <2> QED BY <1>1, <1>3, <1>4, SetInduction
<1>6. Bound(n)
  BY <1>1, <1>5
<1>7. Down(n) = ToSet(keydowns) /\ Up(n) = ToSet(keyups)
  BY <1>1 DEF ToSet
<1> HIDE DEF Down, Up
<1> QED BY <1>2, <1>6, <1>7

\* The keys of a set of sources are queued, all of them and no other.
LEMMA KeysOfHolds ==
  ASSUME NEW srcs, srcs \subseteq Source
  PROVE  ToSet(KeysOf(srcs)) = {keymap[s] : s \in srcs}
<1> DEFINE fed == Picked(Sources, srcs)
<1>1. fed \in Seq(Source \cap srcs) /\ ToSet(fed) = srcs
  <2>1. ToSet(fed) = ToSet(Sources) \cap srcs
    BY PadAssumption, PickedHolds
  <2> QED BY <2>1, PadAssumption, PickedType DEF Source
<1>2. KeysOf(srcs) = [i \in DOMAIN fed |-> keymap[fed[i]]]
  BY Zenon DEF KeysOf
<1> HIDE DEF fed
<1>3. ToSet(KeysOf(srcs)) = {keymap[fed[i]] : i \in DOMAIN fed}
  BY <1>2 DEF ToSet
<1>4. srcs = {fed[i] : i \in DOMAIN fed}
  BY <1>1 DEF ToSet
<1> QED BY <1>3, <1>4

\* The sequence made of a set has its elements.
LEMMA SetToSeqHolds ==
  ASSUME NEW S, IsFiniteSet(S)
  PROVE  ToSet(SetToSeq(S)) = S
<1> DEFINE n == Cardinality(S)
<1>1. n \in Nat /\ ExistsBijection(1..n, S)
  BY FS_CardinalityType
<1>2. IsFiniteSet(1..n) /\ Cardinality(1..n) = n
  BY <1>1, FS_Interval
<1> HIDE DEF n
<1>3. PICK f \in Bijection(1..n, S) : TRUE
  BY <1>1 DEF ExistsBijection
<1>4. f \in [1..n -> S] /\ IsInjective(f)
  BY <1>3 DEF Bijection, Injection
<1>5. SetToSeq(S) \in [1..n -> S] /\ IsInjective(SetToSeq(S))
  <2>1. SetToSeq(S) = CHOOSE g \in [1..n -> S] : IsInjective(g)
    BY DEF SetToSeq, n
  <2> QED BY <1>4, <2>1
<1>6. SetToSeq(S) \in Injection(1..n, S)
  BY <1>5 DEF Injection
<1>7. SetToSeq(S) \in Surjection(1..n, S)
  BY <1>2, <1>6, FS_Injection DEF n
<1> QED BY <1>7 DEF Surjection, ToSet

\* Closing the keyboard releases all it holds.
LEMMA HeldHolds ==
  ASSUME NEW down, down \subseteq Keys, IsFiniteSet(down), NEW sticky \in Table
  PROVE  ToSet(Held(down, sticky)) = down \cup (ToSet(sticky) \cap Keys)
<1>1. SetToSeq(down) \in Seq(Keys) /\ ToSet(SetToSeq(down)) = down
  <2>1. SetToSeq(down) \in Seq(down)
    BY SetToSeqType
  <2> QED BY <2>1, SetToSeqHolds
<1>2. sticky \in Seq(Sticky \cup {NoKey})
  BY PadAssumption DEF Table
<1>3. Latched(sticky) \in Seq(Keys) /\ ToSet(Latched(sticky)) = ToSet(sticky) \cap Keys
  BY <1>2, LatchedType, PickedHolds DEF Latched
<1> QED BY <1>1, <1>3, ConcatElements DEF Held

-----------------------------------------------------------------------------
(* Which keys are down                                                       *)

(* What the program believes it has pressed in the machine: the keys the pad   *)
(* fed in the last poll and those the virtual keyboard shows down.             *)
Fed == {keymap[s] : s \in old_mapped}
Believed == Fed \cup keys_down \cup lit

(* The virtual keyboard is up over the game or to pick a key.                  *)
KeyboardInv ==
  /\ ~visible => keys_down = {} /\ sticky_down = Unlatched /\ lit = {}
  /\ lit \subseteq ToSet(sticky_down) /\ keys_down \cap Sticky = {}
  /\ visible => old_mapped = {} /\ (open = {} \/ wait_src # {})
  /\ wait_src # {} => open = {"mapk"} /\ visible

(* A key that is down in the machine and that the program does not believe     *)
(* down is on its way up.  The drain empties the slots, so there are keys on   *)
(* their way down only between a poll of the game and the drain after it.      *)
SlotInv ==
  /\ open # {} => old_mapped = {}
  /\ old_mapped \subseteq buttons
  /\ pc # "drain" => keydowns = <<>>
  /\ pc = "frame" => keyups = <<>>
  /\ ToSet(keydowns) \subseteq Believed
  /\ matrix \subseteq Believed \cup ToSet(keyups)

(* Over the game the keyboard and the matrix differ only by what waits.        *)
Exact ==
  visible /\ open = {} =>
    IF pc = "drain"
    THEN /\ keydowns = <<>> \/ keyups = <<>>
         /\ (matrix \cup ToSet(keydowns)) \ ToSet(keyups) = keys_down \cup lit
    ELSE pc # "stopped" => matrix = keys_down \cup lit /\ keyups = <<>>

PressedInv == KeyboardInv /\ SlotInv /\ Exact
KeysInv == PadType /\ WindowInv /\ PressedInv

\* No key has been dropped for want of a slot.
Roomy == Room(keydowns) /\ Room(keyups)

\* The invariant holds at the start.
LEMMA InitKeys == Init => KeyboardInv /\ SlotInv /\ Exact
<1> SUFFICES ASSUME Init PROVE KeyboardInv /\ SlotInv /\ Exact
  OBVIOUS
<1>1. ToSet(<<>>) = {}
  BY DEF ToSet
<1> QED BY <1>1 DEF Init, KeyboardInv, SlotInv, Exact

\* A poll of a window that leaves the keyboard and the slots alone
LEMMA IdleWindowKeys ==
  ASSUME KeysInv, NEW w \in ToSet(Order), NEW b \in SUBSET Buttons, WindowPoll(w, b),
         UNCHANGED <<slots, vkbd>>, wait_src = {}, wait_src' = {}
  PROVE  PressedInv'
<1>1. /\ open = {w} /\ pc = "loop" /\ pc' \in {"loop", "drain"} /\ matrix' = matrix
      /\ old_mapped' = {}
  BY PolledWindow DEF KeysInv, WindowPoll, Poll
<1>2. old_mapped = {} /\ ~visible /\ keydowns = <<>>
  BY <1>1 DEF KeysInv, PressedInv, KeyboardInv, SlotInv
<1>3. keys_down = {} /\ sticky_down = Unlatched /\ lit = {}
  BY <1>2 DEF KeysInv, PressedInv, KeyboardInv
<1>4. /\ keydowns' = keydowns /\ keyups' = keyups /\ visible' = visible
      /\ keys_down' = keys_down /\ sticky_down' = sticky_down /\ lit' = lit
  BY DEF slots, vkbd
<1>5. ToSet(<<>>) = {}
  BY DEF ToSet
<1>6. Believed = {} /\ Believed' = {}
  BY <1>1, <1>2, <1>3, <1>4 DEF Believed, Fed
<1>7. KeyboardInv'
  BY <1>1, <1>2, <1>3, <1>4 DEF KeyboardInv
<1>8. SlotInv'
  BY <1>1, <1>2, <1>4, <1>5, <1>6 DEF KeysInv, PressedInv, SlotInv
<1>9. Exact'
  BY <1>2, <1>4 DEF Exact
<1> QED BY <1>7, <1>8, <1>9 DEF PressedInv

\* No key is waited for but in the MAP KEYS window.
LEMMA OtherWindows ==
  ASSUME KeysInv, NEW w \in ToSet(Order), w # "mapk", NEW b, WindowPoll(w, b)
  PROVE  wait_src = {}
BY PolledWindow DEF KeysInv, PressedInv, KeyboardInv

\* The polls of the windows that queue no key
LEMMA IdleWindowsKeys ==
  ASSUME KeysInv, NEW b \in SUBSET Buttons,
         \/ StatePoll(b) \/ PlainPoll("cfg", b) \/ PlainPoll("about", b)
         \/ BrowserPoll(b) \/ MenuPoll(b) \/ DialogPoll(b) \/ CatalogPoll(b)
  PROVE  PressedInv'
<1>1. PICK w \in {"sb", "cfg", "about", "browser", "menu", "gc"} :
        WindowPoll(w, b) /\ UNCHANGED <<slots, vkbd>> /\ wait_src' \in {wait_src, {}}
  <2>1. CASE MenuPoll(b)
    BY <2>1 DEF MenuPoll
  <2> QED BY <2>1 DEF StatePoll, PlainPoll, BrowserPoll, DialogPoll, CatalogPoll, mapping
<1>2. w \in ToSet(Order) /\ w # "mapk"
  BY Windows7
<1>3. wait_src = {}
  BY <1>1, <1>2, OtherWindows
<1> QED BY <1>1, <1>2, <1>3, IdleWindowKeys

\* The polls of the MAP KEYS window
LEMMA MapKeysKeys ==
  ASSUME KeysInv, NEW b \in SUBSET Buttons, MapKeysPoll(b)
  PROVE  PressedInv'
<1>1. WindowPoll("mapk", b) /\ wait_src = {} /\ "mapk" \in ToSet(Order)
  BY Windows7 DEF MapKeysPoll
<1>2. open = {"mapk"} /\ pc = "loop" /\ pc' \in {"loop", "drain"} /\ matrix' = matrix
      /\ old_mapped' = {}
  BY <1>1, PolledWindow DEF KeysInv, WindowPoll, Poll
<1>3. ~visible /\ old_mapped = {} /\ keydowns = <<>>
  BY <1>1, <1>2 DEF KeysInv, PressedInv, KeyboardInv, SlotInv
<1>4. \/ UNCHANGED <<slots, vkbd>> /\ wait_src' = {}
      \/ \E src \in Source : wait_src' = {src} /\ Show(b) /\ Stay /\ UNCHANGED slots
  BY <1>1, <1>3 DEF MapKeysPoll, mapping
<1>5. CASE UNCHANGED <<slots, vkbd>> /\ wait_src' = {}
  BY <1>1, <1>5, IdleWindowKeys
<1>6. ASSUME NEW src \in Source, wait_src' = {src}, Show(b), Stay, UNCHANGED slots
      PROVE  PressedInv'
  <2>1. /\ visible' = TRUE /\ keys_down' = keys_down /\ sticky_down' = sticky_down
        /\ lit' = lit /\ keydowns' = keydowns /\ keyups' = keyups /\ open' = open
        /\ wait_src' # {}
    BY <1>6 DEF Show, Stay, slots
  <2>2. Fed = {} /\ Fed' = {}
    BY <1>2, <1>3 DEF Fed
  <2>3. KeyboardInv'
    BY <1>2, <2>1 DEF KeysInv, PressedInv, KeyboardInv
  <2>4. SlotInv'
    BY <1>2, <1>3, <2>1, <2>2 DEF KeysInv, PressedInv, SlotInv, Believed
  <2>5. Exact'
    BY <1>2, <2>1 DEF Exact
  <2> QED BY <2>3, <2>4, <2>5 DEF PressedInv
<1> QED BY <1>4, <1>5, <1>6

-----------------------------------------------------------------------------
(* What one update of the virtual keyboard does to the keys shown down is what *)
(* it sends to the machine, and it never presses and releases at once.         *)
StepHolds(step) ==
  /\ step.lit \subseteq ToSet(step.sticky) /\ step.down \cap Sticky = {}
  /\ step.presses = <<>> \/ step.releases = <<>>
  /\ step.down \cup step.lit
       = ((keys_down \cup lit) \cup ToSet(step.presses)) \ ToSet(step.releases)

\* What is in the sequences of no key and of one
LEMMA NoElements == ToSet(<<>>) = {} /\ \A x : ToSet(<<x>>) = {x}
BY DEF ToSet

\* A press of the keyboard's current key keeps it exact.
LEMMA PressKeyHolds ==
  ASSUME KeyboardType, KeyboardInv, NEW k \in Keys
  PROVE  StepHolds(PressKey(k))
<1> DEFINE i == Entry(k)
<1>1. PressKey(k) = IF k \notin Sticky \cup keys_down
     THEN Keyed(keys_down \cup {k}, sticky_down, lit, <<k>>, <<>>)
     ELSE IF k \in keys_down \/ i = 0 THEN Keyed(keys_down, sticky_down, lit, <<>>, <<>>)
     ELSE IF sticky_down[i] = k
     THEN Keyed(keys_down, [sticky_down EXCEPT ![i] = NoKey], lit \ {k}, <<>>, <<k>>)
     ELSE Keyed(keys_down, [sticky_down EXCEPT ![i] = k], lit \cup {k}, <<k>>, <<>>)
  BY Zenon DEF PressKey, Entry
<1>2. i # 0 => i \in 1..NSticky /\ sticky_down[i] \in {k, NoKey}
  <2>1. sticky_down \in Table
    BY DEF KeyboardType
  <2> QED BY <2>1, EntryFound
<1> HIDE DEF i
<1>3. /\ lit \subseteq ToSet(sticky_down) /\ keys_down \cap Sticky = {}
      /\ lit \subseteq Sticky /\ sticky_down \in Table /\ k # NoKey /\ NoKey \notin lit
  BY PadAssumption DEF KeyboardType, KeyboardInv
<1>4. CASE k \notin Sticky \cup keys_down
  BY <1>1, <1>3, <1>4, NoElements DEF StepHolds, Keyed
<1>5. CASE k \in Sticky \cup keys_down /\ (k \in keys_down \/ i = 0)
  BY <1>1, <1>3, <1>5, NoElements DEF StepHolds, Keyed
<1>6. CASE k \in Sticky /\ k \notin keys_down /\ i # 0
  <2> DEFINE off == [sticky_down EXCEPT ![i] = NoKey]
             on  == [sticky_down EXCEPT ![i] = k]
  <2>1. DOMAIN sticky_down = 1..NSticky /\ i \in 1..NSticky /\ sticky_down[i] \in {k, NoKey}
    BY <1>2, <1>3, <1>6 DEF Table
  <2>2. ASSUME NEW x, x # k, x # NoKey, x \in ToSet(sticky_down)
        PROVE  x \in ToSet(off) /\ x \in ToSet(on)
    <3>1. PICK j \in 1..NSticky : sticky_down[j] = x
      BY <2>1, <2>2 DEF ToSet
    <3>2. j # i
      BY <2>1, <2>2, <3>1
    <3>3. off[j] = x /\ on[j] = x /\ DOMAIN off = 1..NSticky /\ DOMAIN on = 1..NSticky
      BY <2>1, <3>1, <3>2
    <3> QED BY <3>1, <3>3 DEF ToSet
  <2>3. k \in ToSet(on)
    <3>1. on[i] = k /\ i \in DOMAIN on
      BY <2>1
    <3> QED BY <3>1 DEF ToSet
  <2>4. lit \ {k} \subseteq ToSet(off)
    BY <1>3, <2>2
  <2>5. lit \cup {k} \subseteq ToSet(on)
    BY <1>3, <2>2, <2>3
  <2> HIDE DEF off, on
  <2>6. StepHolds(Keyed(keys_down, off, lit \ {k}, <<>>, <<k>>))
    BY <1>3, <1>6, <2>4, NoElements DEF StepHolds, Keyed
  <2>7. StepHolds(Keyed(keys_down, on, lit \cup {k}, <<k>>, <<>>))
    BY <1>3, <1>6, <2>5, NoElements DEF StepHolds, Keyed
  <2> QED BY <1>1, <1>6, <2>6, <2>7 DEF off, on
<1> QED BY <1>4, <1>5, <1>6

\* And so does the release of the key it holds.
LEMMA ReleaseKeyHolds ==
  ASSUME KeyboardType, KeyboardInv, NEW k \in keys_down
  PROVE  StepHolds(ReleaseKey(k))
<1>1. /\ lit \subseteq ToSet(sticky_down) /\ keys_down \cap Sticky = {}
      /\ lit \subseteq Sticky /\ sticky_down \in Table /\ keys_down \subseteq Keys
      /\ Sticky \subseteq Keys /\ NoKey \notin Keys
  BY PadAssumption DEF KeyboardType, KeyboardInv
<1>2. ToSet(sticky_down) \subseteq Sticky \cup {NoKey}
  BY <1>1 DEF Table, ToSet
<1>3. ToSet(<<k>> \o Latched(sticky_down)) = {k} \cup (ToSet(sticky_down) \cap Keys)
  <2>1. sticky_down \in Seq(Sticky \cup {NoKey})
    BY <1>1, PadAssumption DEF Table
  <2>2. Latched(sticky_down) \in Seq(Keys)
        /\ ToSet(Latched(sticky_down)) = ToSet(sticky_down) \cap Keys
    BY <1>1, <2>1, LatchedType, PickedHolds DEF Latched
  <2>3. <<k>> \in Seq(Keys)
    BY <1>1
  <2> DEFINE one == <<k>>
  <2>4. ToSet(one) = {k} /\ one \in Seq(Keys)
    BY <2>3, NoElements
  <2> HIDE DEF one
  <2>5. ToSet(one \o Latched(sticky_down)) = ToSet(one) \cup ToSet(Latched(sticky_down))
    BY <2>2, <2>4, ConcatElements
  <2> QED BY <2>2, <2>4, <2>5 DEF one
<1>4. lit \ ToSet(sticky_down) = {}
  BY <1>1
<1> QED BY <1>1, <1>2, <1>3, <1>4, NoElements DEF StepHolds, ReleaseKey, Keyed

\* An update of the keyboard over the game keeps it exact.
LEMMA UpdateHolds ==
  ASSUME KeyboardType, KeyboardInv, NEW b, NEW repeat, NEW k \in Keys
  PROVE  StepHolds(Update(b, repeat, k))
<1>1. StepHolds(Keyed(keys_down, sticky_down, lit, <<>>, <<>>))
  BY NoElements DEF KeyboardInv, StepHolds, Keyed
<1>2. StepHolds(PressKey(k))
  BY PressKeyHolds
<1>3. finger \in keys_down => StepHolds(ReleaseKey(finger))
  BY ReleaseKeyHolds
<1> QED BY <1>1, <1>2, <1>3 DEF Update

\* A poll of the keyboard over the MAP KEYS window
LEMMA PickKeyKeys ==
  ASSUME KeysInv, NEW b \in SUBSET Buttons, PickKeyPoll(b), Room(keyups')
  PROVE  PressedInv'
<1>1. WindowPoll("mapk", b) /\ wait_src # {} /\ Stay /\ UNCHANGED keydowns
      /\ "mapk" \in ToSet(Order)
  BY Windows7 DEF PickKeyPoll
<1>2. open = {"mapk"} /\ open' = open /\ pc = "loop" /\ pc' \in {"loop", "drain"}
      /\ matrix' = matrix /\ old_mapped' = {}
  BY <1>1, PolledWindow DEF KeysInv, WindowPoll, Poll, Stay
<1>3. visible /\ old_mapped = {} /\ keydowns = <<>> /\ keydowns' = <<>>
  BY <1>1, <1>2 DEF KeysInv, PressedInv, KeyboardInv, SlotInv
<1>4p. PICK repeat \in BOOLEAN : \E k \in Fingers(b, repeat) :
        LET step   == Update(b, repeat, k)
            picked == step.presses # <<>>
            ends   == picked \/ "CIRCLE" \in Pressed(b)
        IN /\ finger' = k
           /\ keymap' = IF picked THEN [s \in Source |-> IF s \in wait_src THEN k ELSE keymap[s]]
                                  ELSE keymap
           /\ wait_src' = IF ends THEN {} ELSE wait_src
           /\ keyups' = QueueAll(keyups, step.releases
                                 \o IF ends THEN Held(step.down, step.sticky) ELSE <<>>)
           /\ IF ends THEN Hide(b)
              ELSE /\ keys_down' = step.down /\ sticky_down' = step.sticky /\ lit' = step.lit
                   /\ vk_prev' = b \cap VkbdButtons /\ UNCHANGED visible
  BY Zenon DEF PickKeyPoll
<1>4. PICK k \in Fingers(b, repeat) :
        LET step   == Update(b, repeat, k)
            picked == step.presses # <<>>
            ends   == picked \/ "CIRCLE" \in Pressed(b)
        IN /\ finger' = k
           /\ keymap' = IF picked THEN [s \in Source |-> IF s \in wait_src THEN k ELSE keymap[s]]
                                  ELSE keymap
           /\ wait_src' = IF ends THEN {} ELSE wait_src
           /\ keyups' = QueueAll(keyups, step.releases
                                 \o IF ends THEN Held(step.down, step.sticky) ELSE <<>>)
           /\ IF ends THEN Hide(b)
              ELSE /\ keys_down' = step.down /\ sticky_down' = step.sticky /\ lit' = step.lit
                   /\ vk_prev' = b \cap VkbdButtons /\ UNCHANGED visible
  BY <1>4p, Zenon
<1> DEFINE step == Update(b, repeat, k)
           ends == step.presses # <<>> \/ "CIRCLE" \in Pressed(b)
           more == IF ends THEN Held(step.down, step.sticky) ELSE <<>>
<1>5. k \in Keys
  BY FingersType DEF KeysInv, PadType
<1>6. StepType(step) /\ StepHolds(step)
  BY <1>5, UpdateType, UpdateHolds DEF KeysInv, PressedInv, PadType
<1>7. /\ wait_src' = IF ends THEN {} ELSE wait_src
      /\ keyups' = QueueAll(keyups, step.releases \o more)
      /\ ends => Hide(b)
      /\ ~ends => /\ step.presses = <<>> /\ visible' = visible
                  /\ keys_down' = step.down /\ sticky_down' = step.sticky /\ lit' = step.lit
  BY <1>4, Zenon
<1>8. ~ends => more = <<>>
  OBVIOUS
<1>9. ends => more = Held(step.down, step.sticky)
  OBVIOUS
<1> HIDE DEF step, more, ends
<1>10. /\ step.lit \subseteq Keys /\ step.releases \in Seq(Keys)
       /\ step.down \cup step.lit =
            ((keys_down \cup lit) \cup ToSet(step.presses)) \ ToSet(step.releases)
  BY <1>6, PadAssumption DEF StepType, StepHolds
<1>11. more \in Seq(Keys) /\ (ends => step.down \cup step.lit \subseteq ToSet(more))
  <2>1. CASE ends
    <3>1. ToSet(more) = step.down \cup (ToSet(step.sticky) \cap Keys) /\ more \in Seq(Keys)
      BY <1>6, <1>9, <2>1, HeldHolds, HeldType DEF StepType
    <3>2. step.lit \subseteq ToSet(step.sticky)
      BY <1>6 DEF StepHolds
    <3> QED BY <1>10, <3>1, <3>2
  <2>2. CASE ~ends
    BY <1>5, <1>8, <2>2, OneKey
  <2> QED BY <2>1, <2>2
<1>12. ToSet(keyups) \cup ToSet(step.releases) \cup ToSet(more) \subseteq ToSet(keyups')
  <2> DEFINE ks == step.releases \o more
  <2>1. ks \in Seq(Keys) /\ ToSet(ks) = ToSet(step.releases) \cup ToSet(more)
    BY <1>10, <1>11, ConcatElements
  <2> HIDE DEF ks
  <2>2. keyups' = QueueAll(keyups, ks) /\ keyups \in Slot
    BY <1>7 DEF ks, KeysInv, PadType, SlotsType
  <2>3. ToSet(keyups) \subseteq ToSet(keyups') /\ ToSet(ks) \subseteq ToSet(keyups')
    BY <2>1, <2>2, QueueAllHolds
  <2> QED BY <2>1, <2>3
<1>13. matrix \subseteq keys_down \cup lit \cup ToSet(keyups)
  BY <1>3 DEF KeysInv, PressedInv, SlotInv, Believed, Fed
<1>14. Fed' = {}
  BY <1>2 DEF Fed
<1>15. CASE ends
  <2>1. visible' = FALSE /\ keys_down' = {} /\ sticky_down' = Unlatched /\ lit' = {}
        /\ wait_src' = {}
    BY <1>7, <1>15 DEF Hide
  <2>2. KeyboardInv'
    BY <1>2, <2>1 DEF KeyboardInv
  <2>3. matrix' \subseteq ToSet(keyups')
    BY <1>2, <1>10, <1>11, <1>12, <1>13, <1>15
  <2>4. SlotInv'
    BY <1>2, <1>3, <2>3, NoElements DEF SlotInv
  <2> QED BY <2>1, <2>2, <2>4 DEF PressedInv, Exact
<1>16. CASE ~ends
  <2>1. /\ visible' = visible /\ keys_down' = step.down /\ sticky_down' = step.sticky
        /\ lit' = step.lit /\ wait_src' = wait_src /\ ToSet(step.presses) = {}
    BY <1>7, <1>16, NoElements
  <2>2. KeyboardInv'
    BY <1>1, <1>2, <1>3, <1>6, <2>1 DEF KeyboardInv, StepHolds
  <2>3. matrix' \subseteq keys_down' \cup lit' \cup ToSet(keyups')
    BY <1>2, <1>10, <1>12, <1>13, <2>1
  <2>4. SlotInv'
    BY <1>2, <1>3, <2>3, NoElements DEF SlotInv, Believed
  <2>5. Exact'
    BY <1>2 DEF Exact
  <2> QED BY <2>2, <2>4, <2>5 DEF PressedInv
<1> QED BY <1>15, <1>16

-----------------------------------------------------------------------------
(* The game *)

(* A careful user holds nothing when the menu opens by itself, and lets go of  *)
(* nothing in the very poll that sees START or SELECT pressed.                 *)
Careful ==
  /\ auto_opened' # auto_opened => old_mapped = {} /\ ~visible
  /\ (buttons' \ buttons) \cap {"START", "SELECT"} # {} => buttons \subseteq buttons'

\* Queueing no key leaves the slot alone.
LEMMA NothingQueued ==
  ASSUME NEW slot \in Slot
  PROVE  QueueAll(slot, <<>>) = slot
<1> DEFINE ks == <<>>
<1>1. ks \in Seq(Keys) /\ Len(ks) = 0
  OBVIOUS
<1> HIDE DEF ks
<1>2. PICK f \in [0..Len(ks) -> Slot] :
            /\ f[0] = slot /\ QueueAll(slot, ks) = f[Len(ks)]
            /\ \A i \in 1..Len(ks) : f[i] = Queue(f[i - 1], ks[i])
  BY <1>1, QueueAllSteps
<1>3. QueueAll(slot, ks) = slot
  BY <1>1, <1>2
<1> QED BY <1>3 DEF ks

\* What a poll of the game finds, and what it queues
LEMMA GameFacts ==
  ASSUME KeysInv, NEW b \in SUBSET Buttons, GamePoll(b)
  PROVE  /\ open = {} /\ wait_src = {} /\ wait_src' = {} /\ pc = "loop" /\ pc' = "drain"
         /\ matrix' = matrix /\ keymap' = keymap /\ buttons' = b /\ keydowns = <<>>
         /\ matrix \subseteq Believed \cup ToSet(keyups)
         /\ Mapped(b) \subseteq b /\ Mapped(b) \subseteq Source
         /\ visible => old_mapped = {} /\ keyups = <<>> /\ matrix = keys_down \cup lit
         /\ ~visible => keys_down = {} /\ lit = {} /\ sticky_down = Unlatched
         /\ keyups \in Slot /\ keydowns \in Slot /\ old_mapped \subseteq Source
<1>1. open = {} /\ pc = "loop" /\ pc' = "drain"
  BY PolledGame DEF KeysInv
<1>2. /\ matrix' = matrix /\ buttons' = b /\ keymap' = keymap /\ wait_src' = wait_src
  BY DEF GamePoll, Poll, mapping
<1>3. wait_src = {}
  BY <1>1 DEF KeysInv, PressedInv, KeyboardInv
<1>4. keydowns = <<>> /\ matrix \subseteq Believed \cup ToSet(keyups)
  BY <1>1 DEF KeysInv, PressedInv, SlotInv
<1>5. Mapped(b) \subseteq b /\ Mapped(b) \subseteq Source
  BY DEF Mapped
<1>6. visible => old_mapped = {} /\ keyups = <<>> /\ matrix = keys_down \cup lit
  BY <1>1 DEF KeysInv, PressedInv, KeyboardInv, Exact
<1>7. ~visible => keys_down = {} /\ lit = {} /\ sticky_down = Unlatched
  BY DEF KeysInv, PressedInv, KeyboardInv
<1>8. keyups \in Slot /\ keydowns \in Slot /\ old_mapped \subseteq Source
  BY DEF KeysInv, PadType, SlotsType, FedType
<1> QED BY <1>1, <1>2, <1>3, <1>4, <1>5, <1>6, <1>7, <1>8

\* Who presses START or SELECT still holds what the pad fed in the last poll.
LEMMA FedIsHeld ==
  ASSUME Careful, KeysInv, NEW b \in SUBSET Buttons, GamePoll(b),
         Pressed(b) \cap {"START", "SELECT"} # {}
  PROVE  old_mapped \subseteq Mapped(b)
<1>1. buttons \subseteq b
  BY DEF Careful, GamePoll, Poll, Pressed
<1>2. old_mapped \subseteq buttons /\ old_mapped \subseteq Source
      /\ \A s \in old_mapped : keymap[s] # NoKey
  BY DEF KeysInv, PressedInv, SlotInv, PadType, FedType
<1> QED BY <1>1, <1>2 DEF Mapped

\* The slot after releasing all the keyboard holds
LEMMA ReleasingHolds ==
  ASSUME KeysInv, Room(Releasing)
  PROVE  /\ ToSet(keyups) \cup keys_down \cup lit \subseteq ToSet(Releasing)
         /\ Releasing \in Slot
<1>1. /\ keys_down \subseteq Keys /\ IsFiniteSet(keys_down) /\ sticky_down \in Table
      /\ lit \subseteq ToSet(sticky_down) /\ lit \subseteq Keys /\ keyups \in Slot
  BY PadAssumption DEF KeysInv, PressedInv, PadType, KeyboardType, KeyboardInv, SlotsType
<1> DEFINE ks == Held(keys_down, sticky_down)
<1>2. ks \in Seq(Keys) /\ ToSet(ks) = keys_down \cup (ToSet(sticky_down) \cap Keys)
  BY <1>1, HeldType, HeldHolds
<1> HIDE DEF ks
<1>3. Releasing = QueueAll(keyups, ks)
  BY DEF Releasing, ks
<1>4. ToSet(keyups) \subseteq ToSet(Releasing) /\ ToSet(ks) \subseteq ToSet(Releasing)
  BY <1>1, <1>2, <1>3, QueueAllHolds
<1>5. Releasing \in Slot
  BY <1>1, <1>2, <1>3, QueueAllType
<1> QED BY <1>1, <1>2, <1>4, <1>5

\* The slot after queueing the keys of sources
LEMMA SourcesQueued ==
  ASSUME KeysInv, NEW slot \in Slot, NEW srcs, srcs \subseteq Source,
         \A s \in srcs : keymap[s] # NoKey
  PROVE  /\ ToSet(slot) \subseteq ToSet(QueueAll(slot, KeysOf(srcs)))
         /\ ToSet(QueueAll(slot, KeysOf(srcs))) \subseteq ToSet(slot) \cup {keymap[s] : s \in srcs}
         /\ Room(QueueAll(slot, KeysOf(srcs))) =>
              {keymap[s] : s \in srcs} \subseteq ToSet(QueueAll(slot, KeysOf(srcs)))
         /\ srcs = {} => QueueAll(slot, KeysOf(srcs)) = slot
<1> DEFINE ks == KeysOf(srcs)
<1>1. ks \in Seq(Keys)
  BY KeysOfType DEF KeysInv, PadType, MapType
<1>2. ToSet(ks) = {keymap[s] : s \in srcs}
  BY KeysOfHolds
<1> HIDE DEF ks
<1>3. /\ ToSet(slot) \subseteq ToSet(QueueAll(slot, ks))
      /\ ToSet(QueueAll(slot, ks)) \subseteq ToSet(slot) \cup ToSet(ks)
      /\ Room(QueueAll(slot, ks)) => ToSet(ks) \subseteq ToSet(QueueAll(slot, ks))
  BY <1>1, QueueAllHolds
<1>4. srcs = {} => ks = <<>>
  <2> SUFFICES ASSUME srcs = {} PROVE ks = <<>>
    OBVIOUS
  <2>1. ToSet(ks) = {}
    BY <1>2
  <2>2. Len(ks) \in Nat /\ (Len(ks) # 0 => 1 \in DOMAIN ks)
    BY <1>1
  <2>3. Len(ks) = 0
    BY <2>1, <2>2 DEF ToSet
  <2> QED BY <1>1, <2>3
<1>5. srcs = {} => QueueAll(slot, ks) = slot
  BY <1>4, NothingQueued
<1> QED BY <1>2, <1>3, <1>5 DEF ks

\* The poll of the game, every branch of it
LEMMA GameKeys ==
  ASSUME Careful, KeysInv, NEW b \in SUBSET Buttons, GamePolls(b), Roomy'
  PROVE  PressedInv'
<1>0. Room(keyups') /\ Room(keydowns')
  BY DEF Roomy, Room
<1>1. CASE OpenMenu(b)
  <2>1. GamePoll(b) /\ "START" \in Pressed(b) /\ old_mapped' = {} /\ open' = open \cup {"menu"}
        /\ UNCHANGED keydowns
    BY <1>1 DEF OpenMenu
  <2>2. /\ open' # {} /\ wait_src' = {} /\ pc' = "drain" /\ matrix' = matrix
        /\ matrix \subseteq Believed \cup ToSet(keyups) /\ keydowns' = <<>>
        /\ visible => old_mapped = {}
        /\ ~visible => keys_down = {} /\ lit = {} /\ sticky_down = Unlatched
        /\ keyups \in Slot
    BY <2>1, GameFacts
  <2>3. /\ visible' = FALSE /\ keys_down' = {} /\ lit' = {} /\ sticky_down' = Unlatched
        /\ matrix \subseteq ToSet(keyups')
    <3>1. CASE visible
      <4>1. Hide(b) /\ keyups' = Releasing
        BY <1>1, <3>1 DEF OpenMenu
      <4>2. ToSet(keyups) \cup keys_down \cup lit \subseteq ToSet(keyups')
        BY <1>0, <4>1, ReleasingHolds
      <4> QED BY <2>2, <3>1, <4>1, <4>2 DEF Hide, Believed, Fed
    <3>2. CASE ~visible
      <4>1. keyups' = QueueAll(keyups, KeysOf(Mapped(b))) /\ UNCHANGED vkbd
        BY <1>1, <3>2 DEF OpenMenu
      <4>2. Mapped(b) \subseteq Source /\ \A s \in Mapped(b) : keymap[s] # NoKey
        BY DEF Mapped
      <4>3. /\ ToSet(keyups) \subseteq ToSet(keyups')
             /\ {keymap[s] : s \in Mapped(b)} \subseteq ToSet(keyups')
        BY <1>0, <2>2, <4>1, <4>2, SourcesQueued
      <4>4. Fed \subseteq ToSet(keyups')
        BY <2>1, <4>3, FedIsHeld DEF Fed
      <4>5. /\ visible' = visible /\ keys_down' = keys_down /\ lit' = lit
            /\ sticky_down' = sticky_down
        BY <4>1 DEF vkbd
      <4>6. visible \in BOOLEAN
        BY DEF KeysInv, PadType, KeyboardType
      <4> QED BY <2>2, <3>2, <4>3, <4>4, <4>5, <4>6 DEF Believed
    <3> QED BY <3>1, <3>2
  <2>4. KeyboardInv'
    BY <2>1, <2>2, <2>3 DEF KeyboardInv
  <2>5. SlotInv'
    BY <2>1, <2>2, <2>3, NoElements DEF SlotInv
  <2> QED BY <2>3, <2>4, <2>5 DEF PressedInv, Exact
<1>2. CASE ShowKeyboard(b)
  <2>1. /\ GamePoll(b) /\ Pressed(b) \cap {"START", "SELECT"} # {} /\ ~visible
         /\ Show(b) /\ old_mapped' = {}
        /\ keyups' = QueueAll(keyups, KeysOf(Mapped(b))) /\ UNCHANGED <<keydowns, open, paused>>
    BY <1>2 DEF ShowKeyboard
  <2>2. /\ open' = {} /\ wait_src' = {} /\ pc' = "drain" /\ matrix' = matrix
        /\ matrix \subseteq Believed \cup ToSet(keyups) /\ keydowns' = <<>>
        /\ keys_down = {} /\ lit = {} /\ keyups \in Slot
    BY <2>1, GameFacts
  <2>3. Mapped(b) \subseteq Source /\ \A s \in Mapped(b) : keymap[s] # NoKey
    BY DEF Mapped
  <2>4. /\ ToSet(keyups) \subseteq ToSet(keyups')
         /\ {keymap[s] : s \in Mapped(b)} \subseteq ToSet(keyups')
    BY <1>0, <2>1, <2>2, <2>3, SourcesQueued
  <2>5. Fed \subseteq ToSet(keyups')
    BY <2>1, <2>4, FedIsHeld DEF Fed
  <2>6. keys_down' = {} /\ lit' = {} /\ visible' /\ matrix' \subseteq ToSet(keyups')
    BY <2>1, <2>2, <2>4, <2>5 DEF Show, Believed
  <2>7. KeyboardInv'
    BY <2>1, <2>2, <2>6 DEF KeyboardInv
  <2>8. SlotInv'
    BY <2>1, <2>2, <2>6, NoElements DEF SlotInv
  <2>9. Exact'
    BY <2>2, <2>6, NoElements DEF Exact
  <2> QED BY <2>7, <2>8, <2>9 DEF PressedInv
<1>3. CASE HideKeyboard(b)
  <2>1. /\ GamePoll(b) /\ visible /\ Hide(b) /\ old_mapped' = Mapped(b)
        /\ keydowns' = QueueAll(keydowns, KeysOf(Mapped(b) \ old_mapped))
        /\ keyups' = QueueAll(Releasing, KeysOf(old_mapped \ Mapped(b)))
        /\ UNCHANGED <<finger, open, paused>>
    BY <1>3 DEF HideKeyboard
  <2>2. /\ open' = {} /\ wait_src' = {} /\ pc' = "drain" /\ matrix' = matrix /\ old_mapped = {}
        /\ buttons' = b /\ keymap' = keymap /\ Mapped(b) \subseteq b /\ Mapped(b) \subseteq Source
        /\ matrix \subseteq Believed \cup ToSet(keyups) /\ keydowns = <<>> /\ keydowns \in Slot
    BY <2>1, GameFacts
  <2>3. keyups' = Releasing
    <3>1. Releasing \in Slot
      BY ReleasingType DEF KeysInv
    <3>2. old_mapped \ Mapped(b) = {}
      BY <2>2
    <3> QED BY <2>1, <3>1, <3>2, SourcesQueued
  <2>4. ToSet(keyups) \cup keys_down \cup lit \subseteq ToSet(keyups')
    BY <1>0, <2>3, ReleasingHolds
  <2>5. matrix' \subseteq ToSet(keyups')
    BY <2>2, <2>4 DEF Believed, Fed
  <2>6. ToSet(keydowns') \subseteq Fed'
    <3>1. /\ Mapped(b) \ old_mapped \subseteq Source
             /\ \A s \in Mapped(b) \ old_mapped : keymap[s] # NoKey
      BY DEF Mapped
    <3>2. ToSet(keydowns') \subseteq ToSet(keydowns) \cup {keymap[s] : s \in Mapped(b) \ old_mapped}
      BY <2>1, <2>2, <3>1, SourcesQueued
    <3> QED BY <2>1, <2>2, <3>2, NoElements DEF Fed
  <2>7. KeyboardInv'
    BY <2>1, <2>2 DEF KeyboardInv, Hide
  <2>8. SlotInv'
    BY <2>1, <2>2, <2>5, <2>6 DEF SlotInv, Believed
  <2>9. Exact'
    BY <2>1 DEF Exact, Hide
  <2> QED BY <2>7, <2>8, <2>9 DEF PressedInv
<1>4. CASE TypeOnKeyboard(b)
  <2>1. /\ GamePoll(b) /\ visible /\ old_mapped' = {} /\ UNCHANGED <<visible, open, paused>>
    BY <1>4 DEF TypeOnKeyboard
  <2>2. /\ open' = {} /\ wait_src' = {} /\ pc' = "drain" /\ matrix' = matrix
        /\ keydowns = <<>> /\ keyups = <<>> /\ matrix = keys_down \cup lit
        /\ keyups \in Slot /\ keydowns \in Slot
    BY <2>1, GameFacts
  <2>3p. PICK repeat \in BOOLEAN : \E k \in Fingers(b, repeat) :
          LET step == Update(b, repeat, k)
          IN /\ finger' = k
             /\ keys_down' = step.down /\ sticky_down' = step.sticky /\ lit' = step.lit
             /\ keydowns' = QueueAll(keydowns, step.presses)
             /\ keyups' = QueueAll(keyups, step.releases)
    BY <1>4, Zenon DEF TypeOnKeyboard
  <2>3. PICK k \in Fingers(b, repeat) :
          LET step == Update(b, repeat, k)
          IN /\ finger' = k
             /\ keys_down' = step.down /\ sticky_down' = step.sticky /\ lit' = step.lit
             /\ keydowns' = QueueAll(keydowns, step.presses)
             /\ keyups' = QueueAll(keyups, step.releases)
    BY <2>3p, Zenon
  <2> DEFINE step == Update(b, repeat, k)
  <2>4. StepType(step) /\ StepHolds(step)
    <3>1. k \in Keys
      BY FingersType DEF KeysInv, PadType
    <3> QED BY <3>1, UpdateType, UpdateHolds DEF KeysInv, PressedInv, PadType
  <2>5. /\ keys_down' = step.down /\ sticky_down' = step.sticky /\ lit' = step.lit
        /\ keydowns' = QueueAll(keydowns, step.presses)
        /\ keyups' = QueueAll(keyups, step.releases)
    BY <2>3, Zenon
  <2> HIDE DEF step
  <2>6. /\ step.presses \in Seq(Keys) /\ step.releases \in Seq(Keys)
        /\ step.lit \subseteq ToSet(step.sticky) /\ step.down \cap Sticky = {}
        /\ step.presses = <<>> \/ step.releases = <<>>
        /\ step.down \cup step.lit
             = (matrix \cup ToSet(step.presses)) \ ToSet(step.releases)
    BY <2>2, <2>4 DEF StepType, StepHolds
  <2>7. ToSet(keydowns') = ToSet(step.presses)
    <3>1. /\ ToSet(keydowns') \subseteq ToSet(keydowns) \cup ToSet(step.presses)
          /\ Room(keydowns') => ToSet(step.presses) \subseteq ToSet(keydowns')
      BY <2>2, <2>5, <2>6, QueueAllHolds
    <3>2. ToSet(keydowns) = {}
      BY <2>2, NoElements
    <3> QED BY <1>0, <3>1, <3>2
  <2>8. ToSet(keyups') = ToSet(step.releases)
    <3>1. /\ ToSet(keyups') \subseteq ToSet(keyups) \cup ToSet(step.releases)
          /\ Room(keyups') => ToSet(step.releases) \subseteq ToSet(keyups')
      BY <2>2, <2>5, <2>6, QueueAllHolds
    <3>2. ToSet(keyups) = {}
      BY <2>2, NoElements
    <3> QED BY <1>0, <3>1, <3>2
  <2>9. keydowns' = <<>> \/ keyups' = <<>>
    BY <2>2, <2>5, <2>6, NothingQueued
  <2>10. KeyboardInv'
    BY <2>1, <2>2, <2>5, <2>6 DEF KeyboardInv
  <2>11. /\ ToSet(keydowns') \subseteq keys_down' \cup lit'
         /\ matrix' \subseteq keys_down' \cup lit' \cup ToSet(keyups')
    BY <2>2, <2>5, <2>6, <2>7, <2>8, NoElements
  <2>12. SlotInv'
    BY <2>1, <2>2, <2>11 DEF SlotInv, Believed
  <2>13. Exact'
    BY <2>2, <2>5, <2>6, <2>7, <2>8, <2>9 DEF Exact
  <2> QED BY <2>10, <2>12, <2>13 DEF PressedInv
<1>5. CASE FeedPad(b)
  <2>1. /\ GamePoll(b) /\ ~visible /\ old_mapped' = Mapped(b) /\ UNCHANGED <<vkbd, open, paused>>
        /\ keydowns' = QueueAll(keydowns, KeysOf(Mapped(b) \ old_mapped))
        /\ keyups' = QueueAll(keyups, KeysOf(old_mapped \ Mapped(b)))
    BY <1>5 DEF FeedPad
  <2>2. /\ open' = {} /\ wait_src' = {} /\ pc' = "drain" /\ matrix' = matrix
        /\ buttons' = b /\ keymap' = keymap /\ Mapped(b) \subseteq b /\ Mapped(b) \subseteq Source
        /\ matrix \subseteq Believed \cup ToSet(keyups) /\ keydowns = <<>>
        /\ keydowns \in Slot /\ keyups \in Slot /\ old_mapped \subseteq Source
        /\ keys_down = {} /\ lit = {} /\ sticky_down = Unlatched
    BY <2>1, GameFacts
  <2>3. /\ ~visible' /\ keys_down' = {} /\ lit' = {} /\ sticky_down' = Unlatched
    BY <2>1, <2>2 DEF vkbd
  <2>4. \A s \in (Mapped(b) \cup old_mapped) : keymap[s] # NoKey
    BY DEF Mapped, KeysInv, PadType, FedType
  <2>5. ToSet(keydowns') \subseteq ToSet(keydowns) \cup {keymap[s] : s \in Mapped(b) \ old_mapped}
    BY <2>1, <2>2, <2>4, SourcesQueued
  <2>6. /\ ToSet(keyups) \subseteq ToSet(keyups')
        /\ {keymap[s] : s \in old_mapped \ Mapped(b)} \subseteq ToSet(keyups')
    <3>1. old_mapped \ Mapped(b) \subseteq Source
          /\ \A s \in old_mapped \ Mapped(b) : keymap[s] # NoKey
      BY <2>2, <2>4
    <3> QED BY <1>0, <2>1, <2>2, <3>1, SourcesQueued
  <2>7. ToSet(keydowns') \subseteq Fed'
    <3>1. ToSet(keydowns) = {}
      BY <2>2, NoElements
    <3>2. Fed' = {keymap[s] : s \in Mapped(b)}
      BY <2>1, <2>2 DEF Fed
    <3> QED BY <2>5, <3>1, <3>2
  <2>8. Fed \subseteq Fed' \cup ToSet(keyups')
    BY <2>1, <2>2, <2>6 DEF Fed
  <2>9. KeyboardInv'
    BY <2>2, <2>3 DEF KeyboardInv
  <2>10. SlotInv'
    BY <2>1, <2>2, <2>3, <2>6, <2>7, <2>8 DEF SlotInv, Believed
  <2> QED BY <2>3, <2>9, <2>10 DEF PressedInv, Exact
<1> QED BY <1>1, <1>2, <1>3, <1>4, <1>5 DEF GamePolls

\* The menu opens by itself.
LEMMA AutoMenuKeys ==
  ASSUME ~AutoMenu \/ "gc" \notin Windows, KeysInv, RunFrame, Careful,
         auto_opened' # auto_opened
  PROVE  PressedInv'
<1>1. /\ pc = "frame" /\ pc' = "loop" /\ open' = open \cup {"menu"} /\ AutoMenu
      /\ UNCHANGED <<buttons, old_mapped, slots, matrix, vkbd, mapping>>
  BY DEF RunFrame
<1>2. /\ old_mapped' = old_mapped /\ buttons' = buttons /\ matrix' = matrix
      /\ keydowns' = keydowns /\ keyups' = keyups /\ visible' = visible
      /\ keys_down' = keys_down /\ sticky_down' = sticky_down /\ lit' = lit
      /\ wait_src' = wait_src
  BY <1>1 DEF slots, vkbd, mapping
<1>3. old_mapped = {} /\ ~visible
  BY DEF Careful
<1>4. keys_down = {} /\ lit = {} /\ wait_src = {} /\ sticky_down = Unlatched
  BY <1>3 DEF KeysInv, PressedInv, KeyboardInv
<1>5. KeyboardInv'
  BY <1>2, <1>3, <1>4 DEF KeysInv, PressedInv, KeyboardInv
<1>6. Believed = {} /\ Believed' = {}
  BY <1>2, <1>3, <1>4 DEF Believed, Fed
<1>7. SlotInv'
  BY <1>1, <1>2, <1>3, <1>6 DEF KeysInv, PressedInv, SlotInv
<1>8. Exact'
  BY <1>2, <1>3 DEF Exact
<1> QED BY <1>5, <1>7, <1>8 DEF PressedInv

\* The drain and the frame
LEMMA FrameKeys ==
  ASSUME ~AutoMenu \/ "gc" \notin Windows, KeysInv, Careful,
         Drain \/ RunFrame \/ StopWorker
  PROVE  PressedInv'
<1>0. CASE RunFrame /\ auto_opened' # auto_opened
  BY <1>0, AutoMenuKeys
<1> SUFFICES ASSUME ~(RunFrame /\ auto_opened' # auto_opened) PROVE PressedInv'
  BY <1>0
<1>1. /\ UNCHANGED <<buttons, old_mapped, vkbd, open, mapping>>
      /\ visible' = visible /\ keys_down' = keys_down /\ sticky_down' = sticky_down
      /\ lit' = lit /\ keymap' = keymap /\ wait_src' = wait_src
  BY DEF Drain, RunFrame, StopWorker, vkbd, mapping
<1>2. KeyboardInv'
  BY <1>1 DEF KeysInv, PressedInv, KeyboardInv
<1>3. Believed' = Believed
  BY <1>1 DEF Believed, Fed
<1>4. CASE Drain
  <2>1. pc = "drain" /\ pc' = "frame" /\ matrix' = Drained /\ keydowns' = <<>> /\ keyups' = <<>>
    BY <1>4 DEF Drain
  <2>2. /\ Drained \subseteq (matrix \ ToSet(keyups)) \cup ToSet(keydowns)
        /\ keydowns = <<>> \/ keyups = <<>> =>
             Drained = (matrix \cup ToSet(keydowns)) \ ToSet(keyups)
    BY DrainedHolds DEF KeysInv, PadType, SlotsType, MachineType
  <2>3. SlotInv'
    BY <1>1, <1>3, <2>1, <2>2, NoElements DEF KeysInv, PressedInv, SlotInv
  <2>4. Exact'
    BY <1>1, <2>1, <2>2 DEF KeysInv, PressedInv, Exact
  <2> QED BY <1>2, <2>3, <2>4 DEF PressedInv
<1>5. CASE RunFrame \/ StopWorker
  <2>1. /\ pc \in {"frame", "loop"} /\ pc' \in {"loop", "stopped"}
        /\ matrix' = matrix /\ keydowns' = keydowns /\ keyups' = keyups
    BY <1>5 DEF RunFrame, StopWorker, slots
  <2>2. SlotInv'
    BY <1>1, <1>3, <2>1 DEF KeysInv, PressedInv, SlotInv
  <2>3. Exact'
    BY <1>1, <2>1 DEF KeysInv, PressedInv, Exact
  <2> QED BY <1>2, <2>2, <2>3 DEF PressedInv
<1> QED BY <1>4, <1>5

\* One lemma per action makes the step.
LEMMA KeysStep ==
  ASSUME ~AutoMenu \/ "gc" \notin Windows,
         KeysInv, [Next]_vars, Roomy', [Careful]_vars
  PROVE  KeysInv'
<1>1. PadType' /\ WindowInv'
  BY NextType, NextInv DEF KeysInv
<1>2. Careful
  BY DEF Careful, vars, machine
<1>3. ASSUME NEW b \in SUBSET Buttons, WindowPolls(b) PROVE PressedInv'
  <2>1. Room(keyups')
    BY DEF Roomy, Room
  <2> QED BY <1>3, <2>1, IdleWindowsKeys, MapKeysKeys, PickKeyKeys DEF WindowPolls
<1>4. ASSUME NEW b \in SUBSET Buttons, GamePolls(b) PROVE PressedInv'
  BY <1>4, <1>2, GameKeys
<1>5. ASSUME Drain \/ RunFrame \/ StopWorker PROVE PressedInv'
  BY <1>5, <1>2, FrameKeys
<1>6. ASSUME UNCHANGED vars PROVE PressedInv'
  <2>1. /\ pc' = pc /\ buttons' = buttons /\ old_mapped' = old_mapped /\ keydowns' = keydowns
        /\ keyups' = keyups /\ matrix' = matrix /\ keymap' = keymap /\ wait_src' = wait_src
        /\ visible' = visible /\ keys_down' = keys_down /\ sticky_down' = sticky_down
        /\ lit' = lit /\ open' = open
    BY <1>6 DEF vars, slots, vkbd, mapping, machine
  <2>2. Believed' = Believed
    BY <2>1 DEF Believed, Fed
  <2>3. KeyboardInv'
    BY <2>1 DEF KeysInv, PressedInv, KeyboardInv
  <2>4. SlotInv'
    BY <2>1, <2>2 DEF KeysInv, PressedInv, SlotInv
  <2>5. Exact'
    BY <2>1 DEF KeysInv, PressedInv, Exact
  <2> QED BY <2>3, <2>4, <2>5 DEF PressedInv
<1>7. PressedInv'
  BY <1>3, <1>4, <1>5, <1>6 DEF Next
<1> QED BY <1>1, <1>7 DEF KeysInv

(* As long as the user is careful and no key is dropped for want of a slot, a  *)
(* key that the pad does not hold is not down in the machine.                  *)
THEOREM NothingSticks ==
  ASSUME ~AutoMenu \/ "gc" \notin Windows
  PROVE  Spec /\ []Roomy /\ [][Careful]_vars => []NoStuckKey
<1>1. Init => KeysInv
  BY InitType, InitInv, InitKeys DEF KeysInv, PressedInv
<1>2. KeysInv /\ [Next]_vars /\ Roomy' /\ [Careful]_vars => KeysInv'
  BY KeysStep
<1>3. KeysInv => NoStuckKey
  <2> SUFFICES ASSUME KeysInv, Playing PROVE matrix \subseteq Fed
    BY DEF NoStuckKey, Fed
  <2>1. keys_down = {} /\ lit = {} /\ keyups = <<>>
    BY DEF KeysInv, PressedInv, KeyboardInv, SlotInv, Playing
  <2> QED BY <2>1, NoElements DEF KeysInv, PressedInv, SlotInv, Believed
<1> QED BY <1>1, <1>2, <1>3, PTL DEF Spec

(* Under the same conditions the machine sees the keys the virtual keyboard    *)
(* shows down, and no others, while it is open over the game.                  *)
THEOREM KeyboardIsExact ==
  ASSUME ~AutoMenu \/ "gc" \notin Windows
  PROVE  Spec /\ []Roomy /\ [][Careful]_vars => []VkbdExact
<1>1. Init => KeysInv
  BY InitType, InitInv, InitKeys DEF KeysInv, PressedInv
<1>2. KeysInv /\ [Next]_vars /\ Roomy' /\ [Careful]_vars => KeysInv'
  BY KeysStep
<1>3. KeysInv => VkbdExact
  BY DEF KeysInv, PressedInv, Exact, VkbdExact
<1> QED BY <1>1, <1>2, <1>3, PTL DEF Spec

\* What a poll of a window, which fed nothing before it, forgets
LEMMA WindowFedNothing ==
  ASSUME KeysInv, NEW b \in SUBSET Buttons, WindowPolls(b)
  PROVE  old_mapped = {} /\ old_mapped' = {}
<1>1. PICK w \in ToSet(Order) : WindowPoll(w, b)
  BY Windows7 DEF WindowPolls, StatePoll, PlainPoll, BrowserPoll, MenuPoll, DialogPoll,
     CatalogPoll, MapKeysPoll, PickKeyPoll
<1>2. open # {}
  BY <1>1, PolledWindow DEF KeysInv
<1> QED BY <1>1, <1>2 DEF KeysInv, PressedInv, SlotInv, WindowPoll

\* Every edge of a source is in the slots after the poll that sees it.
LEMMA EdgesStep ==
  ASSUME KeysInv, [Next]_vars, Roomy', [Careful]_vars, pc = "loop", pc' = "drain"
  PROVE  /\ \A s \in old_mapped' \ old_mapped : keymap[s] \in ToSet(keydowns')
         /\ \A s \in old_mapped \ old_mapped' : keymap[s] \in ToSet(keyups')
<1> DEFINE Goal == /\ \A s \in old_mapped' \ old_mapped : keymap[s] \in ToSet(keydowns')
                   /\ \A s \in old_mapped \ old_mapped' : keymap[s] \in ToSet(keyups')
<1>0. Careful
  BY DEF Careful, vars, machine
<1>1. Room(keyups') /\ Room(keydowns')
  BY DEF Roomy, Room
<1>2. ASSUME NEW b \in SUBSET Buttons, WindowPolls(b) PROVE Goal
  BY <1>2, WindowFedNothing
<1>3. ASSUME NEW b \in SUBSET Buttons, GamePolls(b) PROVE Goal
  <2>1. GamePoll(b)
    BY <1>3 DEF GamePolls, OpenMenu, ShowKeyboard, HideKeyboard, TypeOnKeyboard, FeedPad
  <2>2. /\ visible => old_mapped = {}
        /\ keyups \in Slot /\ keydowns \in Slot /\ old_mapped \subseteq Source
        /\ Mapped(b) \subseteq Source
    BY <2>1, GameFacts
  <2>3. \A s \in (Mapped(b) \cup old_mapped) : keymap[s] # NoKey
    BY DEF Mapped, KeysInv, PadType, FedType
  <2>4. ASSUME NEW srcs, srcs \subseteq Mapped(b) \cup old_mapped, NEW slot \in Slot,
               Room(QueueAll(slot, KeysOf(srcs)))
        PROVE  \A s \in srcs : keymap[s] \in ToSet(QueueAll(slot, KeysOf(srcs)))
    <3>1. srcs \subseteq Source /\ \A s \in srcs : keymap[s] # NoKey
      BY <2>2, <2>3, <2>4
    <3>2. {keymap[s] : s \in srcs} \subseteq ToSet(QueueAll(slot, KeysOf(srcs)))
      BY <2>4, <3>1, SourcesQueued
    <3> QED BY <3>2
  <2>5. CASE /\ old_mapped' = {} /\ Pressed(b) \cap {"START", "SELECT"} # {} /\ ~visible
             /\ keyups' = QueueAll(keyups, KeysOf(Mapped(b)))
    <3>1. old_mapped \subseteq Mapped(b)
      BY <1>0, <2>1, <2>5, FedIsHeld
    <3>2. \A s \in Mapped(b) : keymap[s] \in ToSet(keyups')
      BY <1>1, <2>2, <2>4, <2>5
    <3> QED BY <2>5, <3>1, <3>2
  <2>6. CASE visible /\ old_mapped' = {}
    BY <2>2, <2>6
  <2>7. CASE HideKeyboard(b) \/ FeedPad(b)
    <3>1. /\ old_mapped' = Mapped(b)
          /\ keydowns' = QueueAll(keydowns, KeysOf(Mapped(b) \ old_mapped))
          /\ \/ old_mapped = {}
             \/ keyups' = QueueAll(keyups, KeysOf(old_mapped \ Mapped(b)))
      BY <2>2, <2>7 DEF HideKeyboard, FeedPad
    <3>2. \A s \in Mapped(b) \ old_mapped : keymap[s] \in ToSet(keydowns')
      BY <1>1, <2>2, <2>4, <3>1
    <3>3. CASE old_mapped = {}
      BY <3>1, <3>2, <3>3
    <3>4. CASE keyups' = QueueAll(keyups, KeysOf(old_mapped \ Mapped(b)))
      <4>1. \A s \in old_mapped \ Mapped(b) : keymap[s] \in ToSet(keyups')
        BY <1>1, <2>2, <2>4, <3>4
      <4> QED BY <3>1, <3>2, <4>1
    <3> QED BY <3>1, <3>3, <3>4
  <2>8. \/ visible /\ old_mapped' = {}
        \/ HideKeyboard(b) \/ FeedPad(b)
        \/ /\ old_mapped' = {} /\ Pressed(b) \cap {"START", "SELECT"} # {} /\ ~visible
           /\ keyups' = QueueAll(keyups, KeysOf(Mapped(b)))
    BY <1>3 DEF GamePolls, OpenMenu, ShowKeyboard, TypeOnKeyboard
  <2> HIDE DEF Goal
  <2> QED BY <2>5, <2>6, <2>7, <2>8
<1>4. CASE Drain \/ RunFrame \/ StopWorker
  BY <1>4 DEF Drain, RunFrame, StopWorker
<1>5. CASE UNCHANGED vars
  BY <1>5 DEF vars, machine
<1> QED BY <1>2, <1>3, <1>4, <1>5 DEF Next

(* Under the same conditions no edge of a source is lost between the pad and   *)
(* the slots, whatever else the poll does.                                     *)
THEOREM EdgesArrive ==
  ASSUME ~AutoMenu \/ "gc" \notin Windows
  PROVE  Spec /\ []Roomy /\ [][Careful]_vars => EdgesQueued
<1>1. Init => KeysInv
  BY InitType, InitInv, InitKeys DEF KeysInv, PressedInv
<1>2. KeysInv /\ [Next]_vars /\ Roomy' /\ [Careful]_vars => KeysInv'
  BY KeysStep
<1> DEFINE Edges ==
      pc = "loop" /\ pc' = "drain" =>
        /\ \A s \in old_mapped' \ old_mapped : keymap[s] \in ToSet(keydowns')
        /\ \A s \in old_mapped \ old_mapped' : keymap[s] \in ToSet(keyups')
<1>3. KeysInv /\ [Next]_vars /\ Roomy' /\ [Careful]_vars => [Edges]_vars
  BY EdgesStep
<1>4. EdgesQueued <=> [][Edges]_vars
  BY DEF EdgesQueued
<1> HIDE DEF Edges
<1> QED BY <1>1, <1>2, <1>3, <1>4, PTL DEF Spec

=============================================================================
