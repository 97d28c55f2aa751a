----------------------------- MODULE FrameHandoff -----------------------------
(***************************************************************************)
(* The framebuffer handoff between the emulation worker thread and the     *)
(* display thread of the PSP port (psp/src/tv.cpp, tv.h, driven by         *)
(* Emulator::worker_loop and the main loop), at the grain of one action    *)
(* per atomic operation, including the suspend_render/resume_render        *)
(* handshake the worker uses around a PSP system dialog.                   *)
(*                                                                         *)
(* The picture itself is abstracted to the number of the machine frame a   *)
(* buffer holds; Torn is a picture the worker is still drawing.  A thread  *)
(* local variable that is out of scope holds None.                         *)
(***************************************************************************)
EXTENDS Integers, FiniteSets

CONSTANTS NBUF,         \* number of framebuffers
          MaxFrames,    \* bound: machine frames the worker draws
          MaxSuspends   \* bound: system dialogs the worker opens

ASSUME HandoffAssumption == /\ NBUF \in Nat \ {0}
                            /\ MaxFrames \in Nat
                            /\ MaxSuspends \in Nat

VARIABLES
  buf_state, ready_idx, old_ready_idx, displaying_idx, pending,
  render_suspended, render_paused,
  frame_of,          \* what each buffer's memory holds
  ge_reads,          \* buffer the GE may be sampling by DMA
  paused,            \* Emulator::paused
  wpc, wi, wbuf, wold,     \* worker: control, scan index, buffer held, buffer in transit
  dpc, didx, dolder,       \* display: control, buffer taken, older one taken
  drawn, published,        \* frames drawn and published so far
  suspends                 \* dialogs opened so far

shared  == <<buf_state, ready_idx, old_ready_idx, frame_of>>
worker  == <<wpc, wi, wbuf, wold, drawn, published, suspends, paused>>
display == <<dpc, didx, dolder, displaying_idx, pending, ge_reads>>
flags   == <<render_suspended, render_paused>>
vars    == <<shared, worker, display, flags>>

Bufs == 0 .. NBUF - 1
None == -1
Torn == -1
BufOrNone == Bufs \cup {None}

WorkerLocs == {"loop", "scan", "takeOld", "takeReady", "markWriting", "begin",
               "draw", "pubState", "pubReady", "pubOld", "pubFree",
               "suspend", "waitAck", "dialog", "resume1", "resume2"}
DisplayLocs == {"top", "susSync", "susAck", "clearAck", "sync", "takeReady",
                "takeOlder", "freeOlder", "markDisplaying", "release",
                "reuse", "submit", "finish"}

Init ==
  /\ buf_state = [b \in Bufs |-> "FREE"]
  /\ ready_idx = None /\ old_ready_idx = None
  /\ displaying_idx = None /\ pending = FALSE
  /\ render_suspended = FALSE /\ render_paused = FALSE
  /\ frame_of = [b \in Bufs |-> 0]
  /\ ge_reads = None
  /\ paused = FALSE
  /\ wpc = "loop" /\ wi = 0 /\ wbuf = None /\ wold = None
  /\ dpc = "top" /\ didx = None /\ dolder = None
  /\ drawn = 0 /\ published = 0 /\ suspends = 0

-----------------------------------------------------------------------------
(* Slips: plausible wrong forms of the actions below, each of which breaks *)
(* one of the properties at the end of the module.                         *)

(* publish_frame never gives the frame it dropped back to the pool. *)
PublishOldNoDrop ==
  /\ wpc = "pubOld"
  /\ wold' = None /\ old_ready_idx' = wold /\ wpc' = "loop"
  /\ UNCHANGED <<buf_state, ready_idx, frame_of, display, flags,
                 wi, wbuf, drawn, published, suspends, paused>>

(* publish_frame queues the new frame behind the one still unshown. *)
PublishReadyBehind ==
  /\ wpc = "pubReady"
  /\ wold' = wbuf /\ wbuf' = None
  /\ ready_idx' = IF ready_idx = None THEN wbuf ELSE ready_idx
  /\ published' = published + 1
  /\ wpc' = "pubOld"
  /\ UNCHANGED <<buf_state, old_ready_idx, frame_of, display, flags,
                 wi, drawn, suspends, paused>>

(* acquire_ready_frame loads the older slot instead of exchanging it. *)
AcquireOlderLoads ==
  /\ dpc = "takeOlder"
  /\ dolder' = old_ready_idx
  /\ dpc' = IF old_ready_idx = None THEN "markDisplaying" ELSE "freeOlder"
  /\ UNCHANGED <<shared, worker, flags, didx, displaying_idx, pending, ge_reads>>

(* acquire_ready_frame drains the slots oldest first. *)
AcquireOldestFirst ==
  /\ dpc = "takeReady"
  /\ LET older == old_ready_idx # None
     IN /\ didx' = IF older THEN old_ready_idx ELSE ready_idx
        /\ old_ready_idx' = None
        /\ ready_idx' = IF older THEN ready_idx ELSE None
  /\ dpc' = IF didx' = None THEN "reuse" ELSE "takeOlder"
  /\ UNCHANGED <<buf_state, frame_of, worker, flags, dolder, displaying_idx, pending, ge_reads>>

(* render() does not wait for the list in flight. *)
SyncPreviousSkipped ==
  /\ dpc = "sync" /\ dpc' = "takeReady"
  /\ UNCHANGED <<shared, worker, flags, didx, dolder, displaying_idx, pending, ge_reads>>

(* render() forgets the buffer it replaces. *)
ReleasePreviousForgets ==
  /\ dpc = "release"
  /\ displaying_idx' = didx /\ didx' = None /\ dpc' = "submit"
  /\ UNCHANGED <<shared, worker, flags, dolder, pending, ge_reads>>

(* The suspended branch acknowledges with a list still in flight. *)
CheckSuspendedUnsynced ==
  /\ dpc = "top"
  /\ dpc' = IF render_suspended THEN "susAck" ELSE "clearAck"
  /\ UNCHANGED <<shared, worker, flags, didx, dolder, displaying_idx, pending, ge_reads>>

(* The suspended branch returns without acknowledging. *)
SuspendedNoAck ==
  /\ dpc = "susAck" /\ dpc' = "top"
  /\ UNCHANGED <<shared, worker, flags, didx, dolder, displaying_idx, pending, ge_reads>>

-----------------------------------------------------------------------------
(* Worker thread: one iteration of Emulator::worker_loop. *)

(* Not paused: call TV::acquire_write_buffer. *)
StartAcquire ==
  /\ wpc = "loop" /\ ~paused /\ drawn < MaxFrames
  /\ wpc' = "scan" /\ wi' = 0
  /\ UNCHANGED <<shared, display, flags, wbuf, wold, drawn, published, suspends, paused>>

(* One compare_exchange_strong(BUF_FREE, BUF_WRITING) of the scan. *)
ScanHit ==
  /\ wpc = "scan" /\ buf_state[wi] = "FREE"
  /\ buf_state' = [buf_state EXCEPT ![wi] = "WRITING"]
  /\ wbuf' = wi /\ wi' = 0 /\ wpc' = "begin"
  /\ UNCHANGED <<ready_idx, old_ready_idx, frame_of, display, flags,
                 wold, drawn, published, suspends, paused>>

ScanMiss ==
  /\ wpc = "scan" /\ buf_state[wi] # "FREE"
  /\ IF wi + 1 < NBUF THEN wi' = wi + 1 /\ wpc' = "scan"
                      ELSE wi' = 0 /\ wpc' = "takeOld"
  /\ UNCHANGED <<shared, display, flags, wbuf, wold, drawn, published, suspends, paused>>

(* No free buffer: take the older unshown frame ... *)
TakeOld ==
  /\ wpc = "takeOld"
  /\ wbuf' = old_ready_idx /\ old_ready_idx' = None
  /\ wpc' = IF old_ready_idx = None THEN "takeReady" ELSE "markWriting"
  /\ UNCHANGED <<buf_state, ready_idx, frame_of, display, flags,
                 wi, wold, drawn, published, suspends, paused>>

(* ... else the newest one; else give up: sleep 1 ms and loop. *)
TakeReady ==
  /\ wpc = "takeReady"
  /\ wbuf' = ready_idx /\ ready_idx' = None
  /\ wpc' = IF ready_idx = None THEN "loop" ELSE "markWriting"
  /\ UNCHANGED <<buf_state, old_ready_idx, frame_of, display, flags,
                 wi, wold, drawn, published, suspends, paused>>

MarkWriting ==
  /\ wpc = "markWriting"
  /\ buf_state' = [buf_state EXCEPT ![wbuf] = "WRITING"]
  /\ wpc' = "begin"
  /\ UNCHANGED <<ready_idx, old_ready_idx, frame_of, display, flags,
                 wi, wbuf, wold, drawn, published, suspends, paused>>

(* The first pixel of the machine frame lands in the buffer ... *)
BeginDraw ==
  /\ wpc = "begin"
  /\ frame_of' = [frame_of EXCEPT ![wbuf] = Torn]
  /\ wpc' = "draw"
  /\ UNCHANGED <<buf_state, ready_idx, old_ready_idx, display, flags,
                 wi, wbuf, wold, drawn, published, suspends, paused>>

(* ... and the last.  START, polled inside execute_frame, may have paused  *)
(* the machine meanwhile (the auto-opened menu pauses at the same point).  *)
EndDraw ==
  /\ wpc = "draw"
  /\ frame_of' = [frame_of EXCEPT ![wbuf] = drawn + 1]
  /\ drawn' = drawn + 1
  /\ paused' \in BOOLEAN
  /\ wpc' = "pubState"
  /\ UNCHANGED <<buf_state, ready_idx, old_ready_idx, display, flags,
                 wi, wbuf, wold, published, suspends>>

(* TV::publish_frame: READY, then the two slots, then the drop. *)
PublishState ==
  /\ wpc = "pubState"
  /\ buf_state' = [buf_state EXCEPT ![wbuf] = "READY"]
  /\ wpc' = "pubReady"
  /\ UNCHANGED <<ready_idx, old_ready_idx, frame_of, display, flags,
                 wi, wbuf, wold, drawn, published, suspends, paused>>

PublishReady ==
  /\ wpc = "pubReady"
  /\ wold' = ready_idx /\ ready_idx' = wbuf /\ wbuf' = None
  /\ published' = published + 1
  /\ wpc' = "pubOld"
  /\ UNCHANGED <<buf_state, old_ready_idx, frame_of, display, flags,
                 wi, drawn, suspends, paused>>

(* The dropped buffer is never the published one (Ownership), so the       *)
(* second guard of the code, dropped != idx, cannot fail.                  *)
PublishOld ==
  /\ wpc = "pubOld"
  /\ wold' = old_ready_idx /\ old_ready_idx' = wold
  /\ wpc' = IF old_ready_idx = None THEN "loop" ELSE "pubFree"
  /\ UNCHANGED <<buf_state, ready_idx, frame_of, display, flags,
                 wi, wbuf, drawn, published, suspends, paused>>

PublishFree ==
  /\ wpc = "pubFree"
  /\ buf_state' = [buf_state EXCEPT ![wold] = "FREE"]
  /\ wold' = None /\ wpc' = "loop"
  /\ UNCHANGED <<ready_idx, old_ready_idx, frame_of, display, flags,
                 wi, wbuf, drawn, published, suspends, paused>>

-----------------------------------------------------------------------------
(* Worker thread while paused: the UI poll closes the menu, or opens the   *)
(* Game Center, which brackets the network dialog.                         *)

ResumeMachine ==
  /\ wpc = "loop" /\ paused
  /\ paused' = FALSE
  /\ UNCHANGED <<shared, display, flags, wpc, wi, wbuf, wold, drawn, published, suspends>>

OpenDialog ==
  /\ wpc = "loop" /\ paused /\ suspends < MaxSuspends
  /\ suspends' = suspends + 1 /\ wpc' = "suspend"
  /\ UNCHANGED <<shared, display, flags, wi, wbuf, wold, drawn, published, paused>>

SuspendRender ==
  /\ wpc = "suspend"
  /\ render_suspended' = TRUE /\ wpc' = "waitAck"
  /\ UNCHANGED <<shared, display, render_paused, wi, wbuf, wold, drawn, published,
                 suspends, paused>>

WaitAck ==
  /\ wpc = "waitAck" /\ render_paused
  /\ wpc' = "dialog"
  /\ UNCHANGED <<shared, display, flags, wi, wbuf, wold, drawn, published, suspends, paused>>

DialogDone ==
  /\ wpc = "dialog" /\ wpc' = "resume1"
  /\ UNCHANGED <<shared, display, flags, wi, wbuf, wold, drawn, published, suspends, paused>>

ResumeClearPaused ==
  /\ wpc = "resume1"
  /\ render_paused' = FALSE /\ wpc' = "resume2"
  /\ UNCHANGED <<shared, display, render_suspended, wi, wbuf, wold, drawn, published,
                 suspends, paused>>

ResumeClearSuspended ==
  /\ wpc = "resume2"
  /\ render_suspended' = FALSE /\ wpc' = "loop"
  /\ UNCHANGED <<shared, display, render_paused, wi, wbuf, wold, drawn, published,
                 suspends, paused>>

-----------------------------------------------------------------------------
(* Display thread: one call of TV::render. *)

CheckSuspended ==
  /\ dpc = "top"
  /\ dpc' = IF ~render_suspended THEN "clearAck"
            ELSE IF pending THEN "susSync" ELSE "susAck"
  /\ UNCHANGED <<shared, worker, flags, didx, dolder, displaying_idx, pending, ge_reads>>

(* Suspended: sync and swap the list in flight, then acknowledge. *)
SuspendedSync ==
  /\ dpc = "susSync"
  /\ ge_reads' = None /\ pending' = FALSE /\ dpc' = "susAck"
  /\ UNCHANGED <<shared, worker, flags, didx, dolder, displaying_idx>>

SuspendedAck ==
  /\ dpc = "susAck"
  /\ render_paused' = TRUE /\ dpc' = "top"
  /\ UNCHANGED <<shared, worker, render_suspended, didx, dolder, displaying_idx,
                 pending, ge_reads>>

ClearAck ==
  /\ dpc = "clearAck"
  /\ render_paused' = FALSE
  /\ dpc' = IF pending THEN "sync" ELSE "takeReady"
  /\ UNCHANGED <<shared, worker, render_suspended, didx, dolder, displaying_idx,
                 pending, ge_reads>>

(* sceGuSync, vblank, swap: the GE is done with the previous list. *)
SyncPrevious ==
  /\ dpc = "sync"
  /\ ge_reads' = None /\ dpc' = "takeReady"
  /\ UNCHANGED <<shared, worker, flags, didx, dolder, displaying_idx, pending>>

(* TV::acquire_ready_frame. *)
AcquireReady ==
  /\ dpc = "takeReady"
  /\ didx' = ready_idx /\ ready_idx' = None
  /\ dpc' = IF ready_idx = None THEN "reuse" ELSE "takeOlder"
  /\ UNCHANGED <<buf_state, old_ready_idx, frame_of, worker, flags,
                 dolder, displaying_idx, pending, ge_reads>>

AcquireOlder ==
  /\ dpc = "takeOlder"
  /\ dolder' = old_ready_idx /\ old_ready_idx' = None
  /\ dpc' = IF old_ready_idx = None THEN "markDisplaying" ELSE "freeOlder"
  /\ UNCHANGED <<buf_state, ready_idx, frame_of, worker, flags,
                 didx, displaying_idx, pending, ge_reads>>

FreeOlder ==
  /\ dpc = "freeOlder"
  /\ buf_state' = [buf_state EXCEPT ![dolder] = "FREE"]
  /\ dolder' = None /\ dpc' = "markDisplaying"
  /\ UNCHANGED <<ready_idx, old_ready_idx, frame_of, worker, flags,
                 didx, displaying_idx, pending, ge_reads>>

MarkDisplaying ==
  /\ dpc = "markDisplaying"
  /\ buf_state' = [buf_state EXCEPT ![didx] = "DISPLAYING"]
  /\ dpc' = "release"
  /\ UNCHANGED <<ready_idx, old_ready_idx, frame_of, worker, flags,
                 didx, dolder, displaying_idx, pending, ge_reads>>

(* Fresh frame: hand the previous one back, but only when its list was     *)
(* synced by this very call (pending).                                     *)
ReleasePrevious ==
  /\ dpc = "release"
  /\ buf_state' = IF pending /\ displaying_idx # None
                  THEN [buf_state EXCEPT ![displaying_idx] = "FREE"]
                  ELSE buf_state
  /\ displaying_idx' = didx /\ didx' = None /\ dpc' = "submit"
  /\ UNCHANGED <<ready_idx, old_ready_idx, frame_of, worker, flags,
                 dolder, pending, ge_reads>>

(* Nothing new: show the current picture again, or only wait for vblank. *)
ReuseCurrent ==
  /\ dpc = "reuse"
  /\ dpc' = IF displaying_idx = None THEN "top" ELSE "submit"
  /\ UNCHANGED <<shared, worker, flags, didx, dolder, displaying_idx, pending, ge_reads>>

(* sceGuStart(GU_DIRECT): the GE executes the list while it is built. *)
SubmitList ==
  /\ dpc = "submit"
  /\ ge_reads' = displaying_idx /\ dpc' = "finish"
  /\ UNCHANGED <<shared, worker, flags, didx, dolder, displaying_idx, pending>>

FinishList ==
  /\ dpc = "finish"
  /\ pending' = TRUE /\ dpc' = "top"
  /\ UNCHANGED <<shared, worker, flags, didx, dolder, displaying_idx, ge_reads>>

-----------------------------------------------------------------------------
Acquire == StartAcquire \/ ScanHit \/ ScanMiss \/ TakeOld \/ TakeReady \/ MarkWriting
Draw    == BeginDraw \/ EndDraw
PublishFrame == PublishState \/ PublishReady \/ PublishOld \/ PublishFree
Dialog  == SuspendRender \/ WaitAck \/ DialogDone \/ ResumeClearPaused \/ ResumeClearSuspended

(* What the worker does without the user: everything but the menu choices. *)
WorkerStep == Acquire \/ Draw \/ PublishFrame \/ Dialog
MenuStep   == ResumeMachine \/ OpenDialog

DisplayStep == \/ CheckSuspended \/ SuspendedSync \/ SuspendedAck
               \/ ClearAck \/ SyncPrevious
               \/ AcquireReady \/ AcquireOlder \/ FreeOlder \/ MarkDisplaying
               \/ ReleasePrevious \/ ReuseCurrent \/ SubmitList \/ FinishList

Next == WorkerStep \/ MenuStep \/ DisplayStep

Spec == Init /\ [][Next]_vars

(* Both threads keep running: the worker sleeps at least once per frame    *)
(* (pacing, retry delay), the main loop calls render() until it exits.     *)
FairSpec == Spec /\ WF_vars(WorkerStep) /\ WF_vars(DisplayStep)

-----------------------------------------------------------------------------
(* Properties. *)

(* Type invariant: every variable stays in its range, and a thread that is *)
(* about to use a buffer index really holds one.                           *)
TypeOK ==
  /\ buf_state \in [Bufs -> {"FREE", "WRITING", "READY", "DISPLAYING"}]
  /\ ready_idx \in BufOrNone /\ old_ready_idx \in BufOrNone
  /\ displaying_idx \in BufOrNone /\ ge_reads \in BufOrNone
  /\ wbuf \in BufOrNone /\ wold \in BufOrNone
  /\ didx \in BufOrNone /\ dolder \in BufOrNone
  /\ frame_of \in [Bufs -> Int] /\ wi \in Bufs
  /\ pending \in BOOLEAN /\ paused \in BOOLEAN
  /\ render_suspended \in BOOLEAN /\ render_paused \in BOOLEAN
  /\ wpc \in WorkerLocs /\ dpc \in DisplayLocs
  /\ drawn \in Nat /\ published \in Nat /\ suspends \in Nat
  /\ wpc \in {"markWriting", "begin", "draw", "pubState", "pubReady"} => wbuf # None
  /\ wpc = "pubFree" => wold # None
  /\ dpc \in {"takeOlder", "freeOlder", "markDisplaying", "release"} <=> didx # None
  /\ dpc = "freeOlder" => dolder # None

(* A buffer index sits in one hand or slot only, and is not FREE there, so *)
(* the worker's CAS cannot take it away from its holder.                   *)
Owned(i, others) == i # None => i \notin others /\ buf_state[i] # "FREE"

(* The ownership discipline of tv.h 33-39: no buffer index is ever in two  *)
(* of the hands and slots the threads pass it through.                     *)
Ownership ==
  /\ Owned(wbuf, {wold, ready_idx, old_ready_idx, didx, dolder, displaying_idx})
  /\ Owned(wold, {ready_idx, old_ready_idx, didx, dolder, displaying_idx})
  /\ Owned(ready_idx, {old_ready_idx, didx, dolder, displaying_idx})
  /\ Owned(old_ready_idx, {didx, dolder, displaying_idx})
  /\ Owned(didx, {dolder, displaying_idx})
  /\ Owned(dolder, {displaying_idx})
  /\ Owned(displaying_idx, {})

(* The GE never samples a picture the worker is drawing, nor any buffer    *)
(* the worker holds (tv.h 128-130): no torn frame reaches the screen.      *)
NoTearing == ge_reads # None => frame_of[ge_reads] # Torn /\ ge_reads # wbuf

(* A buffer that is not FREE and that nobody will give back. *)
Lost == {b \in Bufs : /\ buf_state[b] # "FREE"
                      /\ b \notin {wbuf, wold, ready_idx, old_ready_idx,
                                   didx, dolder, displaying_idx}}

(* No buffer leaks out of the pool while the two threads pass it on; each  *)
(* system dialog costs at most one (see DisplayingHandedBack).             *)
NoBufferLost == Cardinality(Lost) <= suspends

(* While a system dialog owns the screen the display thread neither builds *)
(* a GE list nor leaves one in flight (tv.h 177-180).                      *)
DialogExclusion ==
  wpc \in {"dialog", "resume1"} =>
    dpc \in {"top", "susAck"} /\ ge_reads = None /\ ~pending

(* tv.h 35-37: the display thread hands a DISPLAYING buffer back once the  *)
(* list that sampled it is synced; so a DISPLAYING buffer is the current   *)
(* one or the one being taken.                                             *)
DisplayingHandedBack ==
  \A b \in Bufs : buf_state[b] = "DISPLAYING" => b \in {displaying_idx, didx}

(* The GE samples at most the current buffer, and nothing once its list is *)
(* synced.                                                                 *)
GESynced ==
  /\ ge_reads # None => ge_reads = displaying_idx /\ (pending \/ dpc = "finish")
  /\ dpc \in {"susAck", "takeReady", "takeOlder", "freeOlder", "markDisplaying",
              "release", "reuse", "submit"} => ge_reads = None

(* Only the buffer being drawn is torn, and the newest ready buffer holds  *)
(* the last frame published.                                               *)
ContentOK ==
  /\ \A b \in Bufs : frame_of[b] = Torn => b = wbuf /\ wpc = "draw"
  /\ IF wpc \in {"pubState", "pubReady"}
     THEN drawn = published + 1 /\ frame_of[wbuf] = drawn
     ELSE drawn = published
  /\ ready_idx # None => published > 0 /\ frame_of[ready_idx] = published

(* The inductive invariant of the safety proofs. *)
HandoffInv == TypeOK /\ Ownership /\ GESynced /\ ContentOK

(* The frame the display took last, and the newest unshown one. *)
Shown  == IF didx # None THEN frame_of[didx]
          ELSE IF displaying_idx # None THEN frame_of[displaying_idx] ELSE 0
Latest == IF ready_idx # None THEN frame_of[ready_idx] ELSE 0

Mailbox == INSTANCE FrameMailbox WITH latest <- Latest, shown <- Shown

(* The handoff implements the mailbox: the display takes whole frames, the *)
(* newest one published, in order and each at most once as a fresh frame.  *)
MailboxSpec == Mailbox!Spec

(* Once the worker wants a buffer it gets one (emulator.cpp 143-146).      *)
WorkerGetsBuffer == wpc = "scan" ~> wpc = "begin"

(* A published frame is shown, or superseded by a newer one that is.       *)
FrameReachesScreen ==
  \A f \in 1 .. MaxFrames : published >= f ~> Shown >= f

(* suspend_render() returns: the display acknowledges.                     *)
SuspendReturns == wpc = "waitAck" ~> wpc = "dialog"

=============================================================================
