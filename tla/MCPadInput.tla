----------------------------- MODULE MCPadInput -----------------------------
(***************************************************************************)
(* Finite instances of PadInput: two mappable buttons, up to four keys of  *)
(* which up to two are modifiers, and the four slots of the code.          *)
(***************************************************************************)
EXTENDS PadInput

Pair  == <<"UP", "CROSS">>
Two   == <<"CROSS", "CIRCLE">>

(* The default assignments of keymap.cpp 97-108 for these buttons. *)
Defaults(srcs) ==
  [s \in ToSet(srcs) |-> CASE s = "UP" -> "Up" [] s = "CROSS" -> "Enter"
                           [] s = "CIRCLE" -> "Backspace"]
PairMap  == Defaults(Pair)
TwoMap   == Defaults(Two)

(* The tables a ROM may bring: none, or one that disables UP. *)
NoPad     == {[PairMap EXCEPT !["UP"] = NoKey]}
TwoMaps   == {TwoMap}

(* Bound: Exit and the windows other than the menu and the Game Center are      *)
(* explored from a machine at rest, an edited map until Map Keys is left, and   *)
(* Exit until the window it was chosen in is.                                   *)
(* The menu opens by itself at rest, and before a visit to the Game Center.     *)
AtRest == matrix = {} /\ vk_prev = {} /\ finger = "Enter"
BriefVisits ==
  /\ exit_request \/ (~visible /\ open \ {"menu", "gc"} # {}) => AtRest
  /\ exit_request => "menu" \in open
  /\ keymap \notin {DefaultMap} \cup RomMaps => "mapk" \in open
  /\ AutoMenu /\ ~auto_opened => AtRest /\ ~visible /\ "gc" \notin open

=============================================================================
