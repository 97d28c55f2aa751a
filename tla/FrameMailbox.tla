----------------------------- MODULE FrameMailbox -----------------------------
(***************************************************************************)
(* What the framebuffer handoff of the PSP port promises, with no buffers, *)
(* no threads and no atomics: a mailbox that holds at most the newest      *)
(* machine frame nobody has shown yet.  Publishing overwrites it, the      *)
(* emulation worker may take it back to redraw it, and the display takes   *)
(* it to the screen.  Frames are numbered from 1 in publication order.     *)
(***************************************************************************)
EXTENDS Integers

VARIABLES published,   \* number of the last frame published
          latest,      \* newest frame not shown yet, 0 when there is none
          shown        \* last frame taken to the screen, 0 before the first

mailboxVars == <<published, latest, shown>>

Init == published = 0 /\ latest = 0 /\ shown = 0

(* A completed frame replaces whatever waited in the mailbox. *)
Publish == /\ published' = published + 1
           /\ latest' = published + 1
           /\ UNCHANGED shown

(* The worker recycles the waiting frame: it will never be shown. *)
Recycle == /\ latest # 0
           /\ latest' = 0
           /\ UNCHANGED <<published, shown>>

(* The display takes the waiting frame. *)
Show == /\ latest # 0
        /\ shown' = latest
        /\ latest' = 0
        /\ UNCHANGED published

Next == Publish \/ Recycle \/ Show

Spec == Init /\ [][Next]_mailboxVars

-----------------------------------------------------------------------------
(* Only the newest frame ever waits, and it is newer than the one shown:   *)
(* the screen never goes back to an older frame and shows none twice.      *)
MailboxInv == /\ shown \in Nat /\ published \in Nat
              /\ shown <= published
              /\ latest \in {0, published}
              /\ latest # 0 => shown < latest

=============================================================================
