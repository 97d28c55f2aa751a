------------------------------- MODULE PadInput -------------------------------
(***************************************************************************)
(* Where a PSP button press goes: the 50 Hz poll of psp/src/main.cpp       *)
(* (handle_input and the popup windows it drives), the virtual keyboard,   *)
(* the keydown/keyup slots of the Emulator and the Vector-06C key matrix,  *)
(* all on the worker thread.  One action is one poll in one UI state, the  *)
(* drain of the slots, or the machine frame that follows.                  *)
(*                                                                         *)
(* Buttons are their names; Sources lists those that can be mapped to a    *)
(* Vector key, in MAP_SRC order.  UP stands for every D-pad direction.     *)
(* List positions, file contents and pictures are abstracted: a choice     *)
(* that depends on them is nondeterministic.                               *)
(***************************************************************************)
EXTENDS Integers, FiniteSets, SequencesExt

CONSTANTS Sources,      \* sequence of mappable buttons
          Windows,      \* windows the MAIN MENU offers, "exit" for Exit
          Keys,         \* Vector keys (SDL scancodes)
          Sticky,       \* those the VKBD latches
          DefaultMap,   \* the built-in table: source -> key or NoKey
          RomMaps,      \* effective tables the ROMs' .key files give
          NSlots,       \* N_SCANCODES
          NSticky,      \* size of sticky_down
          AutoMenu,     \* on_auto_open_menu is wired
          MaxChanges    \* environment: buttons that change within one poll period

NoKey == "none"
Source  == ToSet(Sources)
Buttons == Source \cup {"START", "SELECT"}
Leave   == {"START", "CIRCLE"}       \* the buttons that leave a window
KeyMaps == [Source -> Keys \cup {NoKey}]

ASSUME PadAssumption ==
  /\ Sources \in Seq(Source)
  /\ Windows \subseteq {"sb", "cfg", "mapk", "gc", "about", "browser", "exit"}
  /\ Sticky \subseteq Keys /\ NoKey \notin Keys
  /\ DefaultMap \in KeyMaps /\ RomMaps \subseteq KeyMaps
  /\ NSlots \in Nat /\ NSticky \in Nat /\ MaxChanges \in Nat
  /\ AutoMenu \in BOOLEAN

VARIABLES
  pc,            \* worker_loop: "loop", "drain", "frame" or "stopped"
  paused, auto_opened, exit_request,
  buttons,       \* oldButtons
  old_mapped,    \* sources that fed their key in the previous poll
  keydowns, keyups,   \* the slots, as the sequences of keys that fill them
  matrix,        \* keys the machine sees pressed
  keymap,        \* KeyMap::effective_key
  visible, finger, keys_down, sticky_down, lit, vk_prev,   \* VirtualKeyboard; lit: modifiers shown pressed
  open,          \* the windows whose is_open() holds
  wait_src,      \* MapWindow: sources waiting for a key, at most one
  catalog, gc_prev, rom_ready,    \* GameCenter: has entries, prev_pad
  dialog, dlg_prev                \* MessageDialog

machine == <<pc, paused, auto_opened, exit_request>>
slots   == <<keydowns, keyups>>
vkbd    == <<visible, finger, keys_down, sticky_down, lit, vk_prev>>
center  == <<catalog, gc_prev, rom_ready, dialog, dlg_prev>>
mapping == <<keymap, wait_src>>
vars    == <<machine, buttons, old_mapped, slots, matrix, vkbd, open, mapping, center>>

Unlatched == [i \in 1 .. NSticky |-> NoKey]

Init ==
  /\ pc = "loop" /\ paused = FALSE /\ auto_opened = FALSE
  /\ exit_request = FALSE
  /\ buttons = {} /\ old_mapped = {}
  /\ keydowns = <<>> /\ keyups = <<>> /\ matrix = {}
  /\ keymap = DefaultMap /\ wait_src = {}
  /\ visible = FALSE /\ finger \in Keys
  /\ keys_down = {} /\ sticky_down = Unlatched /\ lit = {} /\ vk_prev = {}
  /\ open = {}
  /\ catalog = FALSE /\ gc_prev = {} /\ rom_ready = FALSE
  /\ dialog = FALSE /\ dlg_prev = {}

-----------------------------------------------------------------------------
(* The slots.  They fill from the front and are emptied all at once, so an *)
(* array of slots is the sequence of its keys.                             *)

(* Emulator::keydown / keyup: a key already queued, or a key too many, is  *)
(* dropped.                                                                *)
Queue(slot, k) ==
  IF k \in ToSet(slot) \/ Len(slot) = NSlots THEN slot ELSE Append(slot, k)

QueueAll(slot, ks) ==
  LET filled[i \in 0 .. Len(ks)] == IF i = 0 THEN slot ELSE Queue(filled[i - 1], ks[i])
  IN filled[Len(ks)]

(* The elements of a sequence that are in a set. *)
Picked(seq, set) ==
  LET some[i \in 0 .. Len(seq)] ==
        IF i = 0 THEN <<>>
        ELSE IF seq[i] \in set THEN Append(some[i - 1], seq[i]) ELSE some[i - 1]
  IN some[Len(seq)]

(* The keys of a set of sources, in MAP_SRC order. *)
KeysOf(srcs) ==
  LET fed == Picked(Sources, srcs)
  IN [i \in DOMAIN fed |-> keymap[fed[i]]]

(* Slip: disabled and unassigned sources are fed too. *)
MappedUnfiltered(b) == b \cap Source

Mapped(b) == {s \in b \cap Source : keymap[s] # NoKey}

(* execute_frame: slot by slot, keydown before keyup. *)
At(slot, i) == IF i <= Len(slot) THEN {slot[i]} ELSE {}

Drained ==
  LET after[i \in 0 .. NSlots] ==
        IF i = 0 THEN matrix
        ELSE (after[i - 1] \cup At(keydowns, i)) \ At(keyups, i)
  IN after[NSlots]

Drain ==
  /\ pc = "drain" /\ pc' = "frame"
  /\ matrix' = Drained
  /\ keydowns' = <<>> /\ keyups' = <<>>
  /\ UNCHANGED <<paused, auto_opened, exit_request, buttons,
                 old_mapped, vkbd, open, mapping, center>>

(* The machine frame runs and is published; once, a second after the       *)
(* start, the MAIN MENU opens by itself.                                   *)
RunFrame ==
  /\ pc = "frame" /\ pc' = "loop"
  /\ \/ UNCHANGED <<open, paused, auto_opened>>
     \/ /\ AutoMenu /\ ~auto_opened
        /\ auto_opened' = TRUE
        /\ open' = open \cup {"menu"} /\ paused' = TRUE
  /\ UNCHANGED <<exit_request, buttons, old_mapped, slots, matrix,
                 vkbd, mapping, center>>

(* The main loop saw exitRequest; the worker sees worker_stop_req.         *)
StopWorker ==
  /\ pc = "loop" /\ exit_request
  /\ pc' = "stopped"
  /\ UNCHANGED <<paused, auto_opened, exit_request, buttons,
                 old_mapped, slots, matrix, vkbd, open, mapping, center>>

-----------------------------------------------------------------------------
(* handle_input: read the pad, dispatch on the first open window. *)

Order == <<"sb", "cfg", "mapk", "gc", "about", "browser", "menu">>

Focus == LET i == SelectInSeq(Order, LAMBDA w : w \in open)
         IN IF i = 0 THEN "game" ELSE Order[i]

Poll(where, b) ==
  /\ pc = "loop" /\ Focus = where
  /\ Cardinality((b \ buttons) \cup (buttons \ b)) <= MaxChanges
  /\ buttons' = b
  /\ pc' = IF paused THEN "loop" ELSE "drain"
  /\ UNCHANGED <<auto_opened, matrix>>

Pressed(b) == b \ buttons
Leaving(b) == Pressed(b) \cap Leave # {}

(* A poll that reaches a window never reaches the machine. *)
WindowPoll(w, b) == Poll(w, b) /\ old_mapped' = {}

(* Slips: a window left for the menu thaws the machine; a window opens on  *)
(* top of the menu.                                                        *)
BackToMenuThawed(w) == open' = (open \ {w}) \cup {"menu"} /\ paused' = FALSE
ReplaceStacked(w)   == open' = open \cup {w}

BackToMenu(w) == open' = (open \ {w}) \cup {"menu"} /\ UNCHANGED paused
BackToGame(w) == open' = open \ {w, "menu"} /\ paused' = FALSE
ReplaceMenu(w) == open' = (open \ {"menu"}) \cup {w}
Stay           == UNCHANGED <<open, paused>>

(* load_rom and apply_rom_mapping. *)
InstallRom == keymap' \in RomMaps
KeepRom    == UNCHANGED keymap

(* State Browser: X restores a state and resumes, or saves or is refused.  *)
StatePoll(b) ==
  /\ WindowPoll("sb", b)
  /\ IF Leaving(b) THEN BackToMenu("sb")
     ELSE Stay \/ ("CROSS" \in Pressed(b) /\ BackToGame("sb"))
  /\ UNCHANGED <<exit_request, slots, vkbd, mapping, center>>

(* Config and About only lead back to the menu. *)
PlainPoll(w, b) ==
  /\ WindowPoll(w, b)
  /\ IF Leaving(b) THEN BackToMenu(w) ELSE Stay
  /\ UNCHANGED <<exit_request, slots, vkbd, mapping, center>>

(* ROM Browser: X loads a ROM and resumes, or the load fails. *)
BrowserPoll(b) ==
  /\ WindowPoll("browser", b)
  /\ IF Leaving(b) THEN BackToMenu("browser") /\ KeepRom
     ELSE \/ Stay /\ KeepRom
          \/ "CROSS" \in Pressed(b) /\ BackToGame("browser") /\ InstallRom
  /\ UNCHANGED <<exit_request, slots, vkbd, wait_src, center>>

(* Main menu: START/O resume, X opens the selected window in its place.    *)
(* A Game Center starts with an empty catalog or a downloaded one.         *)
MenuPoll(b) ==
  /\ WindowPoll("menu", b)
  /\ IF Leaving(b) THEN BackToGame("menu") /\ UNCHANGED <<center, wait_src, exit_request>>
     ELSE \/ Stay /\ UNCHANGED <<center, wait_src, exit_request>>
          \/ /\ "CROSS" \in Pressed(b)
             /\ \E w \in Windows :
                  IF w = "exit"
                  THEN exit_request' = TRUE /\ Stay /\ UNCHANGED <<center, wait_src>>
                  ELSE /\ ReplaceMenu(w)
                       /\ wait_src' = IF w = "mapk" THEN {} ELSE wait_src
                       /\ IF w = "gc"
                          THEN /\ catalog' \in BOOLEAN /\ gc_prev' = {}
                               /\ UNCHANGED <<rom_ready, dialog, dlg_prev>>
                          ELSE UNCHANGED center
                       /\ UNCHANGED <<paused, exit_request>>
  /\ UNCHANGED <<slots, vkbd, keymap>>

-----------------------------------------------------------------------------
(* Game Center and its modal dialog, which act on the release of a button. *)

DialogButtons == {"CROSS"} \cup Leave
KeyUpEdge(prev, b, group) == prev \cap group # {} /\ b \cap group = {}

(* X answers (YES downloads the ROM, which may fail), O/START answer NO.   *)
DialogPoll(b) ==
  /\ WindowPoll("gc", b) /\ dialog
  /\ dlg_prev' = b \cap DialogButtons
  /\ LET no  == KeyUpEdge(dlg_prev, b, Leave)
         yes == KeyUpEdge(dlg_prev, b, {"CROSS"})
     IN /\ dialog' = ~(no \/ yes)
        /\ rom_ready' \in IF yes /\ ~no THEN {rom_ready, TRUE} ELSE {rom_ready}
  /\ UNCHANGED <<open, paused, exit_request, slots, vkbd, mapping,
                 catalog, gc_prev>>

LeavesCatalog(b) == Leaving(b) /\ ~dialog'

(* The catalog: X asks for a ROM; a downloaded one is loaded; O/START go   *)
(* back to the menu.                                                       *)
CatalogPoll(b) ==
  /\ WindowPoll("gc", b) /\ ~dialog
  /\ gc_prev' = b \cap DialogButtons
  /\ dialog' = (catalog /\ KeyUpEdge(gc_prev, b, {"CROSS"}))
  /\ dlg_prev' = IF dialog' THEN {} ELSE dlg_prev
  /\ rom_ready' = FALSE
  /\ \E loaded \in IF rom_ready THEN BOOLEAN ELSE {FALSE} :
       /\ IF loaded THEN InstallRom ELSE KeepRom
       /\ paused' = (paused /\ ~loaded)
       /\ LET left == IF loaded THEN open \ {"gc", "menu"} ELSE open
          IN open' = IF LeavesCatalog(b) THEN (left \ {"gc"}) \cup {"menu"} ELSE left
  /\ UNCHANGED <<exit_request, slots, vkbd, wait_src, catalog>>

-----------------------------------------------------------------------------
(* The virtual keyboard. *)

VkbdButtons == {"UP", "CROSS"}

(* release_all: a keyup for every virtual key that is down or latched.     *)
Latched(sticky) == Picked(sticky, Keys)
Held(down, sticky) == SetToSeq(down) \o Latched(sticky)
Releasing == QueueAll(keyups, Held(keys_down, sticky_down))

Hide(b) == /\ visible' = FALSE /\ vk_prev' = b \cap VkbdButtons
           /\ keys_down' = {} /\ sticky_down' = Unlatched /\ lit' = {}

Show(b) == /\ visible' = TRUE /\ vk_prev' = b \cap VkbdButtons
           /\ UNCHANGED <<finger, keys_down, sticky_down, lit>>

(* A held direction may repeat; moving releases the key under the finger.  *)
Moves(b, repeat) == "UP" \in b /\ ("UP" \notin vk_prev \/ repeat)
Typed(b)         == "CROSS" \in b \ vk_prev
LetGo(b, repeat) == Moves(b, repeat) \/ "CROSS" \in vk_prev \ b

Keyed(down, sticky, on, presses, releases) ==
  [down |-> down, sticky |-> sticky, lit |-> on, presses |-> presses, releases |-> releases]

(* key_down: a normal key goes down; a modifier toggles in the first entry *)
(* that is free or holds it, whichever comes first.                        *)
PressKey(k) ==
  LET i == SelectInSeq(sticky_down, LAMBDA x : x \in {k, NoKey})
  IN IF k \notin Sticky \cup keys_down
     THEN Keyed(keys_down \cup {k}, sticky_down, lit, <<k>>, <<>>)
     ELSE IF k \in keys_down \/ i = 0 THEN Keyed(keys_down, sticky_down, lit, <<>>, <<>>)
     ELSE IF sticky_down[i] = k
     THEN Keyed(keys_down, [sticky_down EXCEPT ![i] = NoKey], lit \ {k}, <<>>, <<k>>)
     ELSE Keyed(keys_down, [sticky_down EXCEPT ![i] = k], lit \cup {k}, <<k>>, <<>>)

(* key_up of a normal key releases the latched modifiers with it. *)
ReleaseKey(k) ==
  Keyed(keys_down \ {k}, Unlatched, lit \ ToSet(sticky_down), <<>>, <<k>> \o Latched(sticky_down))

(* One VirtualKeyboard::update that ends with the finger on key k. *)
Update(b, repeat, k) ==
  IF Typed(b) THEN PressKey(k)
  ELSE IF LetGo(b, repeat) /\ finger \in keys_down THEN ReleaseKey(finger)
  ELSE Keyed(keys_down, sticky_down, lit, <<>>, <<>>)

Fingers(b, repeat) == IF Moves(b, repeat) THEN Keys ELSE {finger}

-----------------------------------------------------------------------------
(* Map Keys: X shows the VKBD as a key picker, TRIANGLE disables. *)

(* Not waiting for a key; leaving saves the .key file. *)
MapKeysPoll(b) ==
  /\ WindowPoll("mapk", b) /\ wait_src = {}
  /\ IF Leaving(b)
     THEN /\ BackToMenu("mapk") /\ UNCHANGED mapping
          /\ IF visible THEN Hide(b) /\ keyups' = Releasing /\ UNCHANGED <<finger, keydowns>>
                        ELSE UNCHANGED <<vkbd, slots>>
     ELSE /\ Stay /\ UNCHANGED slots
          /\ \E src \in Source :
               IF "CROSS" \in Pressed(b)
               THEN wait_src' = {src} /\ Show(b) /\ UNCHANGED keymap
               ELSE /\ keymap' = IF "TRIANGLE" \in Pressed(b)
                                 THEN [keymap EXCEPT ![src] = NoKey] ELSE keymap
                    /\ UNCHANGED <<wait_src, vkbd>>
  /\ UNCHANGED <<exit_request, center>>

(* The picker waits: the first key that goes down on it becomes the        *)
(* assignment instead of reaching the machine, and the VKBD releases all   *)
(* it believes is down; O cancels.                                         *)
PickKeyPoll(b) ==
  /\ WindowPoll("mapk", b) /\ wait_src # {}
  /\ Stay /\ UNCHANGED keydowns
  /\ \E repeat \in BOOLEAN : \E k \in Fingers(b, repeat) :
       LET step   == Update(b, repeat, k)
           picked == step.presses # <<>>
           ends   == picked \/ "CIRCLE" \in Pressed(b)
       IN /\ finger' = k
          /\ keymap' = IF picked THEN [s \in Source |-> IF s \in wait_src THEN k ELSE keymap[s]]
                                 ELSE keymap
          /\ wait_src' = IF ends THEN {} ELSE wait_src
          /\ keyups' = QueueAll(keyups, step.releases
                                \o IF ends THEN Held(step.down, step.sticky) ELSE <<>>)
          /\ IF ends THEN Hide(b)
             ELSE /\ keys_down' = step.down /\ sticky_down' = step.sticky /\ lit' = step.lit
                  /\ vk_prev' = b \cap VkbdButtons /\ UNCHANGED visible
  /\ UNCHANGED <<exit_request, center>>

-----------------------------------------------------------------------------
(* GAME: no window is open. *)

GamePoll(b) == Poll("game", b) /\ UNCHANGED <<exit_request, mapping, center>>

(* Slips: START, or SELECT, releases nothing; SELECT hides the VKBD        *)
(* without feeding the pad.                                                *)
OpenMenuUnreleased(b) ==
  /\ GamePoll(b) /\ "START" \in Pressed(b)
  /\ IF visible
     THEN Hide(b) /\ keyups' = Releasing /\ UNCHANGED finger
     ELSE UNCHANGED <<keyups, vkbd>>
  /\ open' = open \cup {"menu"} /\ paused' = TRUE /\ old_mapped' = {}
  /\ UNCHANGED keydowns

ShowKeyboardUnreleased(b) ==
  /\ GamePoll(b) /\ "START" \notin Pressed(b) /\ "SELECT" \in Pressed(b) /\ ~visible
  /\ Show(b) /\ old_mapped' = {}
  /\ UNCHANGED <<slots, open, paused>>

HideKeyboardUnfed(b) ==
  /\ GamePoll(b) /\ "START" \notin Pressed(b) /\ "SELECT" \in Pressed(b) /\ visible
  /\ Hide(b) /\ keyups' = Releasing
  /\ old_mapped' = Mapped(b)
  /\ UNCHANGED <<keydowns, finger, open, paused>>

(* START: release what the pad (or the VKBD) holds, pause, open the menu.  *)
OpenMenu(b) ==
  /\ GamePoll(b) /\ "START" \in Pressed(b)
  /\ IF visible
     THEN Hide(b) /\ keyups' = Releasing /\ UNCHANGED finger
     ELSE keyups' = QueueAll(keyups, KeysOf(Mapped(b))) /\ UNCHANGED vkbd
  /\ open' = open \cup {"menu"} /\ paused' = TRUE /\ old_mapped' = {}
  /\ UNCHANGED keydowns

(* SELECT: the VKBD appears and the pad stops feeding the machine. *)
ShowKeyboard(b) ==
  /\ GamePoll(b) /\ "START" \notin Pressed(b) /\ "SELECT" \in Pressed(b) /\ ~visible
  /\ keyups' = QueueAll(keyups, KeysOf(Mapped(b)))
  /\ Show(b) /\ old_mapped' = {}
  /\ UNCHANGED <<keydowns, open, paused>>

(* SELECT again: it disappears and the pad feeds the machine at once. *)
HideKeyboard(b) ==
  /\ GamePoll(b) /\ "START" \notin Pressed(b) /\ "SELECT" \in Pressed(b) /\ visible
  /\ Hide(b)
  /\ keydowns' = QueueAll(keydowns, KeysOf(Mapped(b) \ old_mapped))
  /\ keyups' = QueueAll(Releasing, KeysOf(old_mapped \ Mapped(b)))
  /\ old_mapped' = Mapped(b)
  /\ UNCHANGED <<finger, open, paused>>

(* Typing on the VKBD. *)
TypeOnKeyboard(b) ==
  /\ GamePoll(b) /\ {"START", "SELECT"} \cap Pressed(b) = {} /\ visible
  /\ \E repeat \in BOOLEAN : \E k \in Fingers(b, repeat) :
       LET step == Update(b, repeat, k)
       IN /\ finger' = k
          /\ keys_down' = step.down /\ sticky_down' = step.sticky /\ lit' = step.lit
          /\ keydowns' = QueueAll(keydowns, step.presses)
          /\ keyups' = QueueAll(keyups, step.releases)
  /\ vk_prev' = b \cap VkbdButtons
  /\ old_mapped' = {}
  /\ UNCHANGED <<visible, open, paused>>

(* The mapping-driven feed. *)
FeedPad(b) ==
  /\ GamePoll(b) /\ {"START", "SELECT"} \cap Pressed(b) = {} /\ ~visible
  /\ keydowns' = QueueAll(keydowns, KeysOf(Mapped(b) \ old_mapped))
  /\ keyups' = QueueAll(keyups, KeysOf(old_mapped \ Mapped(b)))
  /\ old_mapped' = Mapped(b)
  /\ UNCHANGED <<vkbd, open, paused>>

-----------------------------------------------------------------------------
WindowPolls(b) == \/ StatePoll(b) \/ PlainPoll("cfg", b) \/ PlainPoll("about", b)
                  \/ BrowserPoll(b) \/ MenuPoll(b) \/ DialogPoll(b)
                  \/ CatalogPoll(b) \/ MapKeysPoll(b) \/ PickKeyPoll(b)
GamePolls(b)   == \/ OpenMenu(b) \/ ShowKeyboard(b) \/ HideKeyboard(b)
                  \/ TypeOnKeyboard(b) \/ FeedPad(b)

Next == \/ \E b \in SUBSET Buttons : WindowPolls(b) \/ GamePolls(b)
        \/ Drain \/ RunFrame \/ StopWorker

Spec == Init /\ [][Next]_vars

-----------------------------------------------------------------------------
(* Properties. *)

(* Type invariant.                                                         *)
TypeOK ==
  /\ pc \in {"loop", "drain", "frame", "stopped"}
  /\ {paused, auto_opened, exit_request, visible, catalog, rom_ready,
      dialog} \subseteq BOOLEAN
  /\ buttons \subseteq Buttons /\ old_mapped \subseteq Source
  /\ keydowns \in Seq(Keys) /\ Len(keydowns) <= NSlots
  /\ keyups \in Seq(Keys) /\ Len(keyups) <= NSlots
  /\ matrix \subseteq Keys /\ keymap \in KeyMaps
  /\ wait_src \subseteq Source /\ Cardinality(wait_src) <= 1
  /\ finger \in Keys /\ keys_down \subseteq Keys
  /\ sticky_down \in [1 .. NSticky -> Sticky \cup {NoKey}] /\ lit \subseteq Sticky
  /\ vk_prev \subseteq VkbdButtons
  /\ gc_prev \subseteq DialogButtons /\ dlg_prev \subseteq DialogButtons
  /\ open \subseteq ToSet(Order)

(* What the pad holds in a machine frame of GAME without the VKBD. *)
Playing == pc = "frame" /\ open = {} /\ ~visible

(* No edge of a source is lost between the pad and the slots: what starts  *)
(* to be held is queued as a keydown, what stops being held as a keyup,    *)
(* whatever the poll did besides (menu, VKBD, other sources).              *)
EdgesQueued ==
  [][pc = "loop" /\ pc' = "drain" =>
       /\ \A s \in old_mapped' \ old_mapped : keymap[s] \in ToSet(keydowns')
       /\ \A s \in old_mapped \ old_mapped' : keymap[s] \in ToSet(keyups')]_vars

(* main.cpp 790-791: nothing stays pressed in the machine that the pad     *)
(* does not hold.                                                          *)
NoStuckKey == Playing => matrix \subseteq {keymap[s] : s \in old_mapped}

(* main.cpp 820: nothing but the virtual keys reaches the machine while    *)
(* the VKBD is open, and every virtual key shown pressed does.             *)
VkbdExact ==
  pc = "frame" /\ open = {} /\ visible => matrix = keys_down \cup lit

(* The popups replace each other, the modal dialog is only over the Game   *)
(* Center (main.cpp 1253, 579), and a frozen machine always shows a window *)
(* that leads back to the game.                                            *)
OneWindow ==
  /\ Cardinality(open) <= 1
  /\ dialog => open = {"gc"}
  /\ paused => open # {}

(* The machine is frozen as long as a window is open (main.cpp 427-449), which *)
(* replace each other one for one, and thawed by what closes the last of them. *)
WindowFreezes == Cardinality(open) = IF paused THEN 1 ELSE 0

(* Only the poll that loads a downloaded ROM, whatever else it sees (main.cpp  *)
(* 601-630), can leave the machine running under a window; no step leaves it   *)
(* frozen without one, and every other opens and freezes, or closes and thaws. *)
FreezeKept == [][WindowFreezes => WindowFreezes' \/ (rom_ready /\ ~paused')]_vars

=============================================================================
