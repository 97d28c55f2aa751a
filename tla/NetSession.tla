----------------------------- MODULE NetSession -----------------------------
(***************************************************************************)
(* The Game Center's session with the network: NetMan brings up six layers *)
(* of the system's library one after the other, connects, and downloads    *)
(* catalog, previews and ROMs, each with an HTTP library of its own that   *)
(* is brought up and down again.  Everything runs on the worker, one call  *)
(* after the other; what fails, and where, is up to the system.            *)
(*                                                                         *)
(* The library counts what was initialised and not terminated.  A second   *)
(* initialisation may be accepted or refused.                              *)
(***************************************************************************)
EXTENDS Naturals

CONSTANTS MaxCalls  \* bound: windows opened, and downloads

VARIABLES
  up,            \* initialisations of each layer not terminated
  http,          \* and of the HTTP library
  infra_ready, connected,
  open_flag, catalog_ok,
  body,          \* what the last download brought: a part of its body, or an error
  rom,           \* the file of the last ROM taken
  rom_ready,
  failed,        \* an initialisation has failed
  calls

vars == <<up, http, infra_ready, connected, open_flag, catalog_ok, body, rom, rom_ready,
          failed, calls>>

\* sceNet, sceNetInet, sceNetApctl, and the modules COMMON, INET and HTTP
Layers == 1..6

Error == "error"
\* A body may be whole, cut by an error or by a buffer too small, or empty.
Bodies == {"whole", "cut", "full", "empty"}

-----------------------------------------------------------------------------
(* NetMan *)

\* init(): the layers it has brought up when it stops at n.
InitUpTo(n) == [l \in Layers |-> IF l < n THEN up[l] + 1 ELSE up[l]]

\* Slip: a layer is forgotten.
ShutdownPart == [l \in Layers |-> IF up[l] > 0 /\ l # 2 THEN up[l] - 1 ELSE up[l]]

\* The layers after shutdown()
Shutdown == [l \in Layers |-> up[l] - 1]

\* http_download(): its result, and the library after it.  Every error returns
\* without sceHttpEnd; an error of a later sceHttpReadData is not one.
Downloads ==
  IF ~connected THEN {[body |-> Error, http |-> http]}
  ELSE {[body |-> Error, http |-> http], [body |-> Error, http |-> http + 1]}
       \union {[body |-> b, http |-> http] : b \in Bodies}

\* The length it returns is positive.
Some(b) == b \in {"whole", "cut", "full"}

-----------------------------------------------------------------------------
(* GameCenter *)

Init ==
  /\ up = [l \in Layers |-> 0] /\ http = 0
  /\ infra_ready = FALSE /\ connected = FALSE
  /\ open_flag = FALSE /\ catalog_ok = FALSE
  /\ body = Error /\ rom = "none" /\ rom_ready = FALSE
  /\ failed = FALSE /\ calls = 0

Call == calls < MaxCalls /\ calls' = calls + 1

\* open() when the WLAN switch is off
OpenOffline ==
  /\ Call /\ ~open_flag
  /\ open_flag' = TRUE /\ catalog_ok' = FALSE
  /\ UNCHANGED <<up, http, infra_ready, connected, body, rom, rom_ready, failed>>

\* open() when layer n does not come up
OpenInitFails(n) ==
  /\ Call /\ ~open_flag /\ ~infra_ready
  /\ up' = InitUpTo(n) /\ failed' = TRUE
  /\ open_flag' = TRUE /\ catalog_ok' = FALSE
  /\ UNCHANGED <<http, infra_ready, connected, body, rom, rom_ready>>

Infrastructure ==
  /\ up' = IF infra_ready THEN up ELSE InitUpTo(7)
  /\ infra_ready' = TRUE

\* open() when the user cancels the dialog, or no address comes
OpenConnectFails ==
  /\ Call /\ ~open_flag /\ ~connected
  /\ Infrastructure
  /\ open_flag' = TRUE /\ catalog_ok' = FALSE
  /\ UNCHANGED <<http, connected, body, rom, rom_ready, failed>>

\* open() to its end: the catalog may fail to come or have no games.
OpenConnected ==
  /\ Call /\ ~open_flag
  /\ Infrastructure
  /\ connected' = TRUE
  /\ \E b \in Bodies \union {Error}, lost \in 0..1, games \in BOOLEAN :
       /\ lost = 1 => b = Error
       /\ body' = b /\ http' = http + lost
       /\ catalog_ok' = (Some(b) /\ games)
  /\ open_flag' = TRUE
  /\ UNCHANGED <<rom, rom_ready, failed>>

\* update_preview()
UpdatePreview ==
  /\ Call /\ open_flag /\ catalog_ok
  /\ \E d \in Downloads : body' = d.body /\ http' = d.http
  /\ UNCHANGED <<up, infra_ready, connected, open_flag, catalog_ok, rom, rom_ready, failed>>

\* load_selected_rom(): an error of the download ends it, as does a file that cannot
\* be opened; a short write does not, nor does the preview that comes after.
LoadRom ==
  /\ Call /\ open_flag /\ catalog_ok /\ ~rom_ready
  /\ \E d \in Downloads :
       /\ body' = d.body
       /\ \/ http' = d.http /\ UNCHANGED <<rom, rom_ready>>
          \/ /\ Some(d.body) /\ rom_ready' = TRUE
             /\ rom' \in {d.body, "short"}
             /\ http' \in {d.http, d.http + 1}
  /\ UNCHANGED <<up, infra_ready, connected, open_flag, catalog_ok, failed>>

\* close(): disconnect() and shutdown()
CloseNet ==
  /\ connected' = FALSE
  /\ up' = IF infra_ready THEN Shutdown ELSE up
  /\ infra_ready' = FALSE
  /\ open_flag' = FALSE

\* The next poll of handle_input: the ROM is loaded and the window closed, or
\* the file is refused and the window stays.
TakeRom ==
  /\ open_flag /\ rom_ready
  /\ rom_ready' = FALSE
  /\ CloseNet \/ UNCHANGED <<up, infra_ready, connected, open_flag>>
  /\ UNCHANGED <<http, catalog_ok, body, rom, failed, calls>>

\* O or START
Close ==
  /\ open_flag /\ ~rom_ready
  /\ CloseNet
  /\ UNCHANGED <<http, catalog_ok, body, rom, rom_ready, failed, calls>>

Next ==
  \/ OpenOffline \/ OpenConnectFails \/ OpenConnected
  \/ \E n \in Layers : OpenInitFails(n)
  \/ UpdatePreview \/ LoadRom \/ TakeRom \/ Close

Spec == Init /\ [][Next]_vars

-----------------------------------------------------------------------------
(* The session follows the window: a list of games is only offered while the   *)
(* connection it needs is there, no layer is used that is down, and a closed   *)
(* window leaves no connection behind, nor, unless a layer once failed to come *)
(* up, anything of the library.                                                *)
SessionNests ==
  /\ open_flag /\ catalog_ok => connected
  /\ connected => infra_ready
  /\ infra_ready => \A l \in Layers : up[l] > 0
  /\ ~open_flag => ~infra_ready /\ ~rom_ready
  /\ ~open_flag /\ ~failed => \A l \in Layers : up[l] = 0

(* Errors of a download are reported ("or -1 on any error", netman.h): no ROM  *)
(* that broke off on its way is offered for loading.                           *)
BrokenRomRefused == rom_ready => rom # "cut"

(* shutdown() frees the resources (netman.h), whatever init() came to.         *)
ShutdownFrees == ~open_flag => \A l \in Layers : up[l] = 0

TypeOK ==
  /\ up \in [Layers -> 0..(MaxCalls + 1)]
  /\ body \in Bodies \union {Error} /\ rom \in Bodies \union {"none", "short"}
  /\ http <= 2 * MaxCalls

=============================================================================
