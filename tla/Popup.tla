------------------------------- MODULE Popup --------------------------------
(***************************************************************************)
(* A popup window between its two threads and the GE: the ROM Browser, the *)
(* one with everything the others have.  The worker opens, scrolls and     *)
(* closes it and decodes the preview of the selected ROM; the display      *)
(* thread rasterizes the panel whenever paint_seq has moved on, and lays   *)
(* panel and preview before the GE, which reads them until the next sync.  *)
(*                                                                         *)
(* One action is what a thread does between two places where the other may *)
(* see a difference.  Either thread may be preempted anywhere: which has   *)
(* the higher priority is for the user to configure.  A picture is named   *)
(* by the ROM it belongs to.  Names, messages and the vertices are left    *)
(* out; render() always has a machine frame to show and no dialog waits.   *)
(***************************************************************************)
EXTENDS Integers

CONSTANTS
  Counts,       \* numbers of ROMs that a scan may find
  Pictures,     \* ROMs that have a picture
  VISIBLE_ROWS, \* rows of the list
  MaxChanges    \* bound: openings and steps of the selection

VARIABLES
  open_flag, count, selected, top,   \* the window, written by the worker
  preview_for, preview_w, preview_upload,
  preview_tex,    \* the texture on the heap: Freed, Blank or whose pixels it has
  in_memory,      \* the pixels of preview_tex have been written back
  paint_seq, painted_seq, tex_upload,
  tex, shown,     \* rows of the panel: as rasterized, and as in main memory
  wpc, changes,   \* the worker: its place, openings and steps so far
  dpc, seq, row, upload,  \* the display thread: its place and locals
  sampling        \* the GE may be reading preview_tex

window == <<open_flag, count, selected, top>>
preview == <<preview_for, preview_w, preview_upload, preview_tex, in_memory>>
panel == <<painted_seq, tex_upload, tex, shown>>
display == <<dpc, seq, row, upload, sampling>>
worker == <<wpc, changes>>
vars == <<window, preview, paint_seq, panel, worker, display>>

None  == -1     \* no ROM
Blank == -1     \* pixels of no picture
Freed == -2     \* no texture

\* The panel as rows of the list: their ROMs, and whether they are highlighted.
Rows == 0..(VISIBLE_ROWS - 1)
Empty == [rom |-> None, lit |-> FALSE]
Background == [r \in Rows |-> Empty]
RowOf(r) == IF top + r >= count THEN Empty
            ELSE [rom |-> top + r, lit |-> top + r = selected]

-----------------------------------------------------------------------------
(* Worker *)

\* open(): a fresh scan and the first ROM selected
Open(n) ==
  /\ wpc = "poll" /\ ~open_flag /\ changes < MaxChanges
  /\ changes' = changes + 1
  /\ count' = n /\ selected' = 0 /\ top' = 0
  /\ preview_tex' = IF preview_tex = Freed THEN Blank ELSE preview_tex
  /\ in_memory' = (in_memory /\ preview_tex # Freed)
  /\ preview_for' = None /\ preview_w' = FALSE
  /\ wpc' = "preview"
  /\ UNCHANGED <<open_flag, preview_upload, paint_seq, panel, display>>

StepTo(step) == (selected + step) % count

\* update() on the keyup of DOWN (step 1) or UP (step count - 1)
Move(step) ==
  /\ wpc = "poll" /\ open_flag /\ count > 0 /\ changes < MaxChanges
  /\ changes' = changes + 1
  /\ selected' = StepTo(step)
  /\ wpc' = "scroll"
  /\ UNCHANGED <<open_flag, count, top, preview, paint_seq, panel, display>>

Scroll ==
  /\ wpc = "scroll"
  /\ top' = IF selected < top THEN selected
            ELSE IF selected >= top + VISIBLE_ROWS THEN selected - VISIBLE_ROWS + 1
            ELSE top
  /\ wpc' = "preview"
  /\ UNCHANGED <<open_flag, count, selected, changes, preview, paint_seq, panel, display>>

\* update_preview() up to the decoding: nothing to do when it is cached.
FindPreview ==
  LET name == IF count = 0 THEN None ELSE selected
      new == name = None \/ name # preview_for IN
  /\ wpc = "preview"
  /\ preview_for' = name
  /\ preview_w' = (preview_w /\ ~new)
  /\ wpc' = IF new /\ name # None /\ selected \in Pictures THEN "decode" ELSE "dirty"
  /\ UNCHANGED <<preview_upload, preview_tex, in_memory, changes>>
  /\ UNCHANGED <<window, paint_seq, panel, display>>

\* img_load(): which may fail
Decode ==
  /\ wpc = "decode"
  /\ \/ preview_tex' = selected /\ in_memory' = FALSE /\ wpc' = "size"
     \/ wpc' = "dirty" /\ UNCHANGED <<preview_tex, in_memory>>
  /\ UNCHANGED <<preview_for, preview_w, preview_upload, changes>>
  /\ UNCHANGED <<window, paint_seq, panel, display>>

SetSize ==
  /\ wpc = "size"
  /\ preview_w' = TRUE
  /\ wpc' = "upload"
  /\ UNCHANGED <<preview_for, preview_upload, preview_tex, in_memory, changes>>
  /\ UNCHANGED <<window, paint_seq, panel, display>>

SetUpload ==
  /\ wpc = "upload"
  /\ preview_upload' = TRUE
  /\ wpc' = "dirty"
  /\ UNCHANGED <<preview_for, preview_w, preview_tex, in_memory, changes>>
  /\ UNCHANGED <<window, paint_seq, panel, display>>

\* mark_dirty(): the end of an update(), and nearly that of an open().
MarkDirty ==
  /\ wpc = "dirty"
  /\ paint_seq' = paint_seq + 1
  /\ wpc' = IF open_flag THEN "poll" ELSE "show"
  /\ UNCHANGED <<window, preview, changes, panel, display>>

Show ==
  /\ wpc = "show"
  /\ open_flag' = TRUE
  /\ wpc' = "poll"
  /\ UNCHANGED <<count, selected, top, preview, paint_seq, changes, panel, display>>

\* close(): the preview first, then its texture, then the window
Close ==
  /\ wpc = "poll" /\ open_flag
  /\ preview_for' = None /\ preview_w' = FALSE /\ preview_upload' = FALSE
  /\ wpc' = "free"
  /\ UNCHANGED <<preview_tex, in_memory, window, paint_seq, changes, panel, display>>

FreePreview ==
  /\ wpc = "free"
  /\ preview_tex' = Freed
  /\ wpc' = "hide"
  /\ UNCHANGED <<preview_for, preview_w, preview_upload, in_memory, changes>>
  /\ UNCHANGED <<window, paint_seq, panel, display>>

Hide ==
  /\ wpc = "hide"
  /\ open_flag' = FALSE
  /\ wpc' = "poll"
  /\ UNCHANGED <<count, selected, top, preview, paint_seq, changes, panel, display>>

-----------------------------------------------------------------------------
(* Display thread *)

\* Slip: off by one, as painted_seq starts one behind.
NeedsTwo == paint_seq > painted_seq + 1

\* needs_repaint()
NeedsRepaint == paint_seq # painted_seq

\* The main loop's test of every layer
TestPaint ==
  /\ dpc = "loop"
  /\ dpc' = IF open_flag /\ NeedsRepaint THEN "snapshot" ELSE "sync"
  /\ UNCHANGED <<seq, row, upload, sampling, window, preview, paint_seq, panel, worker>>

\* paint(): the sequence number first, then the background
Snapshot ==
  /\ dpc = "snapshot"
  /\ seq' = paint_seq /\ row' = 0
  /\ tex' = Background
  /\ dpc' = "row"
  /\ UNCHANGED <<upload, sampling, painted_seq, tex_upload, shown>>
  /\ UNCHANGED <<window, preview, paint_seq, worker>>

PaintRow ==
  /\ dpc = "row"
  /\ tex' = [tex EXCEPT ![row] = RowOf(row)]
  /\ row' = row + 1
  /\ dpc' = IF top + row >= count \/ row + 1 = VISIBLE_ROWS THEN "painted" ELSE "row"
  /\ UNCHANGED <<seq, upload, sampling, painted_seq, tex_upload, shown>>
  /\ UNCHANGED <<window, preview, paint_seq, worker>>

\* Slip: the number is taken after the painting.
PaintedUntil(snapshot) == paint_seq

PaintedTo(snapshot) == snapshot

\* finish_paint()
FinishPaint ==
  /\ dpc = "painted"
  /\ painted_seq' = PaintedTo(seq) /\ tex_upload' = TRUE
  /\ dpc' = "sync" /\ row' = 0 /\ seq' = 0
  /\ UNCHANGED <<upload, sampling, tex, shown, window, preview, paint_seq, worker>>

\* render(): the GE is through with the last list, a new one begins.
StartList ==
  /\ dpc = "sync"
  /\ sampling' = FALSE
  /\ dpc' = IF open_flag THEN "panel" ELSE "loop"
  /\ UNCHANGED <<seq, row, upload, window, preview, paint_seq, panel, worker>>

\* draw(): the panel, and the test whether there is a preview
DrawPanel ==
  /\ dpc = "panel"
  /\ shown' = (IF tex_upload THEN tex ELSE shown) /\ tex_upload' = FALSE
  /\ dpc' = IF preview_w THEN "consume" ELSE "loop"
  /\ UNCHANGED <<seq, row, upload, sampling, painted_seq, tex>>
  /\ UNCHANGED <<window, preview, paint_seq, worker>>

\* consume_preview_upload(): v is read, and then the flag cleared.
ReadUpload ==
  /\ dpc = "consume"
  /\ upload' = preview_upload
  /\ dpc' = "clear"
  /\ UNCHANGED <<seq, row, sampling, window, preview, paint_seq, panel, worker>>

ClearUpload ==
  /\ dpc = "clear"
  /\ preview_upload' = FALSE
  /\ dpc' = IF upload THEN "writeback" ELSE "quad"
  /\ UNCHANGED <<preview_for, preview_w, preview_tex, in_memory, seq, row, upload, sampling>>
  /\ UNCHANGED <<window, paint_seq, panel, worker>>

WriteBack ==
  /\ dpc = "writeback"
  /\ in_memory' = TRUE
  /\ dpc' = "quad"
  /\ UNCHANGED <<preview_for, preview_w, preview_upload, preview_tex>>
  /\ UNCHANGED <<seq, row, upload, sampling, window, paint_seq, panel, worker>>

\* The preview's quad: the GE reads its texture from here to the next sync.
DrawPreview ==
  /\ dpc = "quad"
  /\ sampling' = TRUE /\ upload' = FALSE
  /\ dpc' = "loop"
  /\ UNCHANGED <<seq, row, window, preview, paint_seq, panel, worker>>

-----------------------------------------------------------------------------
Init ==
  /\ open_flag = FALSE /\ count = 0 /\ selected = 0 /\ top = 0
  /\ preview_for = None /\ preview_w = FALSE /\ preview_upload = FALSE
  /\ preview_tex = Freed /\ in_memory = FALSE
  /\ paint_seq = 1 /\ painted_seq = 0 /\ tex_upload = FALSE
  /\ tex = Background /\ shown = Background
  /\ wpc = "poll" /\ changes = 0
  /\ dpc = "loop" /\ seq = 0 /\ row = 0 /\ upload = FALSE /\ sampling = FALSE

\* What the user does, and what the worker then owes him
User == Close \/ (\E n \in Counts : Open(n)) \/ (\E step \in {1, count - 1} : Move(step))
Worker == Scroll \/ FindPreview \/ Decode \/ SetSize \/ SetUpload \/ MarkDirty \/ Show
          \/ FreePreview \/ Hide
Display == TestPaint \/ Snapshot \/ PaintRow \/ FinishPaint \/ StartList \/ DrawPanel
           \/ ReadUpload \/ ClearUpload \/ WriteBack \/ DrawPreview

Next == User \/ Worker \/ Display

Spec == Init /\ [][Next]_vars
FairSpec == Spec /\ WF_vars(Worker) /\ WF_vars(Display)

-----------------------------------------------------------------------------
Current == [r \in Rows |-> RowOf(r)]

(* A change that comes in the middle of a painting forces another one          *)
(* (popup.h): whenever the two numbers agree and no change is half way, the    *)
(* panel is that of the window's state, whatever was painted before, and the   *)
(* list has scrolled to where the selected ROM can be seen.                    *)
PaintedIsCurrent ==
  open_flag /\ wpc \in {"poll", "free", "hide"} /\ painted_seq = paint_seq
  => tex = Current /\ (count > 0 => \E r \in Rows : tex[r].lit)

(* What the user did is on the screen in the end, however his steps fell       *)
(* between those of the display thread.                                        *)
Settled == open_flag => shown = Current
SettledIsShown == <>[]Settled

(* Only a written back picture is shown for long: "the GE must see the texture *)
(* in main memory before sampling" (rombrowser.h).                             *)
PictureArrives == <>[](sampling => in_memory)

(* The display thread reads what the worker writes, and lets the GE read it,   *)
(* "only while is_open()" (rombrowser.h): never a texture that is given back.  *)
SamplesTexture == sampling => preview_tex # Freed

TypeOK ==
  /\ (selected = 0 \/ selected < count) /\ top \in 0..count
  /\ painted_seq <= paint_seq /\ seq <= paint_seq
  /\ preview_tex = Freed => wpc # "decode"

=============================================================================
