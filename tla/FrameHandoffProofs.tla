-------------------------- MODULE FrameHandoffProofs --------------------------
(***************************************************************************)
(* Proofs about the framebuffer handoff, for any number of buffers, frames *)
(* and dialogs.                                                            *)
(***************************************************************************)
EXTENDS FrameHandoff, FiniteSetTheorems, TLAPS

(* The initial state satisfies the inductive invariant. *)
LEMMA InitInv == Init => HandoffInv
<1> SUFFICES ASSUME Init PROVE HandoffInv
  OBVIOUS
<1>0. /\ pending \in BOOLEAN /\ paused \in BOOLEAN
      /\ render_suspended \in BOOLEAN /\ render_paused \in BOOLEAN
  BY DEF Init
<1>1. TypeOK
  BY <1>0, HandoffAssumption DEF Init, TypeOK, Bufs, None, BufOrNone, WorkerLocs, DisplayLocs
<1>2. Ownership
  BY DEF Init, Ownership, Owned
<1>3. GESynced
  BY DEF Init, GESynced
<1>4. ContentOK
  BY DEF Init, ContentOK, Torn
<1>5. QED
  BY <1>1, <1>2, <1>3, <1>4 DEF HandoffInv

LEMMA StepInv == HandoffInv /\ [Next]_vars => HandoffInv'
<1> SUFFICES ASSUME HandoffInv, [Next]_vars PROVE HandoffInv'
  OBVIOUS
<1> USE HandoffAssumption
    DEF HandoffInv, TypeOK, Ownership, Owned, GESynced, ContentOK, Bufs, None,
        Torn, BufOrNone, WorkerLocs, DisplayLocs, shared, worker, display, flags
<1>1. CASE StartAcquire BY <1>1 DEF StartAcquire
<1>2. CASE ScanHit BY <1>2 DEF ScanHit
<1>3. CASE ScanMiss BY <1>3 DEF ScanMiss
<1>4. CASE TakeOld BY <1>4 DEF TakeOld
<1>5. CASE TakeReady BY <1>5 DEF TakeReady
<1>6. CASE MarkWriting BY <1>6 DEF MarkWriting
<1>7. CASE BeginDraw BY <1>7 DEF BeginDraw
<1>8. CASE EndDraw BY <1>8 DEF EndDraw
<1>9. CASE PublishState BY <1>9 DEF PublishState
<1>10. CASE PublishReady BY <1>10 DEF PublishReady
<1>11. CASE PublishOld BY <1>11 DEF PublishOld
<1>12. CASE PublishFree BY <1>12 DEF PublishFree
<1>13. CASE ResumeMachine
  <2>0. paused' \in BOOLEAN BY ONLY <1>13 DEF ResumeMachine
  <2>1. TypeOK' BY <1>13, <2>0 DEF ResumeMachine
  <2>2. Ownership' BY <1>13 DEF ResumeMachine
  <2>3. GESynced' BY <1>13 DEF ResumeMachine
  <2>4. ContentOK' BY <1>13 DEF ResumeMachine
  <2>5. QED BY <2>1, <2>2, <2>3, <2>4
<1>14. CASE OpenDialog BY <1>14 DEF OpenDialog
<1>15. CASE SuspendRender BY <1>15 DEF SuspendRender
<1>16. CASE WaitAck BY <1>16 DEF WaitAck
<1>17. CASE DialogDone BY <1>17 DEF DialogDone
<1>18. CASE ResumeClearPaused
  <2>0. render_paused' \in BOOLEAN BY ONLY <1>18 DEF ResumeClearPaused
  <2>1. TypeOK' BY <1>18, <2>0 DEF ResumeClearPaused
  <2>2. Ownership' BY <1>18 DEF ResumeClearPaused
  <2>3. GESynced' BY <1>18 DEF ResumeClearPaused
  <2>4. ContentOK' BY <1>18 DEF ResumeClearPaused
  <2>5. QED BY <2>1, <2>2, <2>3, <2>4
<1>19. CASE ResumeClearSuspended
  <2>0. render_suspended' \in BOOLEAN BY ONLY <1>19 DEF ResumeClearSuspended
  <2>1. TypeOK' BY <1>19, <2>0 DEF ResumeClearSuspended
  <2>2. Ownership' BY <1>19 DEF ResumeClearSuspended
  <2>3. GESynced' BY <1>19 DEF ResumeClearSuspended
  <2>4. ContentOK' BY <1>19 DEF ResumeClearSuspended
  <2>5. QED BY <2>1, <2>2, <2>3, <2>4
<1>20. CASE CheckSuspended BY <1>20 DEF CheckSuspended
<1>21. CASE SuspendedSync
  <2>0. pending' \in BOOLEAN BY ONLY <1>21 DEF SuspendedSync
  <2>1. TypeOK' BY <1>21, <2>0 DEF SuspendedSync
  <2>2. Ownership' BY <1>21 DEF SuspendedSync
  <2>3. GESynced' BY <1>21 DEF SuspendedSync
  <2>4. ContentOK' BY <1>21 DEF SuspendedSync
  <2>5. QED BY <2>1, <2>2, <2>3, <2>4
<1>22. CASE SuspendedAck BY <1>22 DEF SuspendedAck
<1>23. CASE ClearAck
  <2>0. render_paused' \in BOOLEAN BY ONLY <1>23 DEF ClearAck
  <2>1. TypeOK' BY <1>23, <2>0 DEF ClearAck
  <2>2. Ownership' BY <1>23 DEF ClearAck
  <2>3. GESynced' BY <1>23 DEF ClearAck
  <2>4. ContentOK' BY <1>23 DEF ClearAck
  <2>5. QED BY <2>1, <2>2, <2>3, <2>4
<1>24. CASE SyncPrevious BY <1>24 DEF SyncPrevious
<1>25. CASE AcquireReady BY <1>25 DEF AcquireReady
<1>26. CASE AcquireOlder BY <1>26 DEF AcquireOlder
<1>27. CASE FreeOlder BY <1>27 DEF FreeOlder
<1>28. CASE MarkDisplaying BY <1>28 DEF MarkDisplaying
<1>29. CASE ReleasePrevious
  <2>1. TypeOK' BY <1>29 DEF ReleasePrevious
  <2>2. Ownership' BY <1>29 DEF ReleasePrevious
  <2>3. GESynced' BY <1>29 DEF ReleasePrevious
  <2>4. ContentOK' BY <1>29 DEF ReleasePrevious
  <2>5. QED BY <2>1, <2>2, <2>3, <2>4
<1>30. CASE ReuseCurrent BY <1>30 DEF ReuseCurrent
<1>31. CASE SubmitList BY <1>31 DEF SubmitList
<1>32. CASE FinishList BY <1>32 DEF FinishList
<1>33. CASE UNCHANGED vars BY <1>33 DEF vars
<1>34. QED
  BY <1>1, <1>2, <1>3, <1>4, <1>5, <1>6, <1>7, <1>8, <1>9, <1>10, <1>11, <1>12,
     <1>13, <1>14, <1>15, <1>16, <1>17, <1>18, <1>19, <1>20, <1>21, <1>22, <1>23,
     <1>24, <1>25, <1>26, <1>27, <1>28, <1>29, <1>30, <1>31, <1>32, <1>33
  DEF Next, WorkerStep, MenuStep, DisplayStep, Acquire, Draw, PublishFrame, Dialog

(* Every reachable state satisfies the inductive invariant. *)
THEOREM HandoffInvariant == Spec => []HandoffInv
  BY InitInv, StepInv, PTL DEF Spec

(* Type correctness of the handoff. *)
THEOREM TypeCorrect == Spec => []TypeOK
<1>1. HandoffInv => TypeOK
  BY DEF HandoffInv
<1>2. QED
  BY <1>1, HandoffInvariant, PTL

(* No two of the worker's hands, the ready slots and the display's hands   *)
(* ever hold one buffer, and none of them holds a FREE one.                *)
THEOREM OwnershipDiscipline == Spec => []Ownership
<1>1. HandoffInv => Ownership
  BY DEF HandoffInv
<1>2. QED
  BY <1>1, HandoffInvariant, PTL

(* The GE never samples a buffer the worker holds, so no torn picture is   *)
(* shown; system dialogs included.                                         *)
THEOREM NoTornFrame == Spec => []NoTearing
<1>1. HandoffInv => NoTearing
  <2> SUFFICES ASSUME HandoffInv, ge_reads # None
               PROVE frame_of[ge_reads] # Torn /\ ge_reads # wbuf
    BY DEF NoTearing
  <2>1. ge_reads \in Bufs /\ ge_reads = displaying_idx
    BY DEF HandoffInv, TypeOK, GESynced, BufOrNone
  <2>2. ge_reads # wbuf
    BY <2>1 DEF HandoffInv, Ownership, Owned
  <2>3. frame_of[ge_reads] # Torn
    BY <2>1, <2>2 DEF HandoffInv, ContentOK
  <2>4. QED
    BY <2>2, <2>3
<1>2. QED
  BY <1>1, HandoffInvariant, PTL

-----------------------------------------------------------------------------
(* Refinement: the handoff implements the one-place mailbox. *)

LEMMA InitMailbox == Init => Mailbox!Init
  BY DEF Init, Mailbox!Init, Latest, Shown, None

(* Drawing touches no buffer the display or the ready slot can see. *)
LEMMA DrawUnseen ==
  ASSUME HandoffInv, Draw
  PROVE UNCHANGED <<published, Latest, Shown>>
<1>1. /\ wbuf \in Bufs
      /\ wbuf \notin {ready_idx, didx, displaying_idx}
  BY DEF HandoffInv, TypeOK, Ownership, Owned, Draw, BeginDraw, EndDraw, BufOrNone
<1>2. \A b \in Bufs : b # wbuf => frame_of'[b] = frame_of[b]
  BY DEF HandoffInv, TypeOK, Draw, BeginDraw, EndDraw
<1>3. UNCHANGED <<published, ready_idx, didx, displaying_idx>>
  BY DEF Draw, BeginDraw, EndDraw, display
<1>4. ready_idx \in BufOrNone /\ didx \in BufOrNone /\ displaying_idx \in BufOrNone
  BY DEF HandoffInv, TypeOK
<1>5. QED
  BY <1>1, <1>2, <1>3, <1>4 DEF Latest, Shown, BufOrNone

(* Publishing the new frame is Publish; the rest of publish_frame stutters. *)
LEMMA PublishRefines ==
  ASSUME HandoffInv, PublishReady
  PROVE Mailbox!Publish
  BY DEF HandoffInv, TypeOK, ContentOK, PublishReady, Mailbox!Publish, Latest, Shown,
         display, flags, None, Bufs, BufOrNone

(* The worker's fallback on the newest ready frame is Recycle or a stutter. *)
LEMMA TakeReadyRefines ==
  ASSUME HandoffInv, TakeReady
  PROVE Mailbox!Recycle \/ UNCHANGED <<published, Latest, Shown>>
  BY DEF HandoffInv, TypeOK, ContentOK, TakeReady, Mailbox!Recycle, Latest, Shown,
         display, flags, None

(* acquire_ready_frame's first exchange is Show or a stutter. *)
LEMMA AcquireReadyRefines ==
  ASSUME HandoffInv, AcquireReady
  PROVE Mailbox!Show \/ UNCHANGED <<published, Latest, Shown>>
  BY DEF HandoffInv, TypeOK, ContentOK, AcquireReady, Mailbox!Show, Latest, Shown,
         worker, flags, None

(* Handing back the previous buffer keeps the frame taken last. *)
LEMMA ReleaseUnseen ==
  ASSUME HandoffInv, ReleasePrevious
  PROVE UNCHANGED <<published, Latest, Shown>>
  BY DEF HandoffInv, TypeOK, ReleasePrevious, Latest, Shown, worker, flags, None

(* All other steps leave the three mailbox values alone. *)
LEMMA OtherUnseen ==
  ASSUME \/ StartAcquire \/ ScanHit \/ ScanMiss \/ TakeOld \/ MarkWriting
         \/ PublishState \/ PublishOld \/ PublishFree \/ Dialog \/ MenuStep
         \/ CheckSuspended \/ SuspendedSync \/ SuspendedAck \/ ClearAck
         \/ SyncPrevious \/ AcquireOlder \/ FreeOlder \/ MarkDisplaying
         \/ ReuseCurrent \/ SubmitList \/ FinishList \/ UNCHANGED vars
  PROVE UNCHANGED <<published, Latest, Shown>>
<1>1. UNCHANGED <<published, ready_idx, didx, displaying_idx, frame_of>>
  BY DEF StartAcquire, ScanHit, ScanMiss, TakeOld, MarkWriting, PublishState,
         PublishOld, PublishFree, Dialog, SuspendRender, WaitAck, DialogDone,
         ResumeClearPaused, ResumeClearSuspended, MenuStep, ResumeMachine, OpenDialog,
         CheckSuspended, SuspendedSync, SuspendedAck, ClearAck, SyncPrevious,
         AcquireOlder, FreeOlder, MarkDisplaying, ReuseCurrent, SubmitList, FinishList,
         vars, shared, worker, display, flags
<1>2. QED
  BY <1>1 DEF Latest, Shown

(* Every step of the handoff is a mailbox step or a stutter. *)
LEMMA StepMailbox ==
  HandoffInv /\ [Next]_vars => [Mailbox!Next]_(Mailbox!mailboxVars)
<1> SUFFICES ASSUME HandoffInv, [Next]_vars
             PROVE Mailbox!Next \/ UNCHANGED <<published, Latest, Shown>>
  BY DEF Mailbox!mailboxVars
<1>1. CASE Draw
  BY <1>1, DrawUnseen
<1>2. CASE PublishReady
  BY <1>2, PublishRefines DEF Mailbox!Next
<1>3. CASE TakeReady
  BY <1>3, TakeReadyRefines DEF Mailbox!Next
<1>4. CASE AcquireReady
  BY <1>4, AcquireReadyRefines DEF Mailbox!Next
<1>5. CASE ReleasePrevious
  BY <1>5, ReleaseUnseen
<1>6. CASE ~(Draw \/ PublishReady \/ TakeReady \/ AcquireReady \/ ReleasePrevious)
  BY <1>6, OtherUnseen
  DEF Next, WorkerStep, MenuStep, DisplayStep, Acquire, PublishFrame
<1>7. QED
  BY <1>1, <1>2, <1>3, <1>4, <1>5, <1>6

(* The display only ever takes whole frames, newest first, in publication  *)
(* order and each at most once, for any number of buffers.                 *)
THEOREM HandoffImplementsMailbox == Spec => MailboxSpec
<1>1. Mailbox!Spec <=> Mailbox!Init /\ [][Mailbox!Next]_(Mailbox!mailboxVars)
  BY DEF Mailbox!Spec
<1>2. QED
  BY <1>1, InitMailbox, StepMailbox, HandoffInvariant, PTL DEF Spec, MailboxSpec

-----------------------------------------------------------------------------
(* What the mailbox gives the screen. *)

LEMMA MailboxStep ==
  Mailbox!MailboxInv /\ [Mailbox!Next]_(Mailbox!mailboxVars) => Mailbox!MailboxInv'
<1>. SUFFICES ASSUME Mailbox!MailboxInv, [Mailbox!Next]_(Mailbox!mailboxVars)
              PROVE  Mailbox!MailboxInv'
  OBVIOUS
<1>1. CASE Mailbox!Publish
  BY <1>1 DEF Mailbox!Publish, Mailbox!MailboxInv
<1>2. CASE Mailbox!Recycle
  BY <1>2 DEF Mailbox!Recycle, Mailbox!MailboxInv
<1>3. CASE Mailbox!Show
  BY <1>3 DEF Mailbox!Show, Mailbox!MailboxInv
<1>4. CASE UNCHANGED Mailbox!mailboxVars
  BY <1>4 DEF Mailbox!mailboxVars, Mailbox!MailboxInv
<1>5. QED
  BY <1>1, <1>2, <1>3, <1>4 DEF Mailbox!Next

(* The screen never goes back: the frame that waits is always the last one *)
(* published, and newer than the frame taken before it.                    *)
THEOREM ScreenNeverGoesBack == Spec => []Mailbox!MailboxInv
<1>1. Mailbox!Init => Mailbox!MailboxInv
  BY DEF Mailbox!Init, Mailbox!MailboxInv
<1>2. Mailbox!Spec => []Mailbox!MailboxInv
  BY <1>1, MailboxStep, PTL DEF Mailbox!Spec
<1>3. QED
  BY <1>2, HandoffImplementsMailbox DEF MailboxSpec

-----------------------------------------------------------------------------
(* The price of a system dialog.                                           *)

InDialog == wpc \in {"waitAck", "dialog", "resume1", "resume2"}

(* A hand that is not in use is empty, and the flag is up exactly from     *)
(* suspend_render to the end of resume_render.                             *)
HandsEmpty ==
  /\ wbuf # None => wpc \in {"markWriting", "begin", "draw", "pubState", "pubReady"}
  /\ wold # None => wpc \in {"pubOld", "pubFree"}
  /\ dolder # None => dpc = "freeOlder"
  /\ render_suspended <=> InDialog
  /\ dpc = "susAck" => ~pending

(* The buffer on display will be forgotten by the next fresh frame: its    *)
(* list was synced by the suspended branch and not submitted again.        *)
AtRisk == \/ dpc = "susSync"
          \/ displaying_idx # None /\ ~pending /\ dpc \notin {"submit", "finish"}

(* A dialog that the display thread may yet sync a list for.               *)
Unseen == \/ wpc = "suspend"
          \/ InDialog /\ dpc \notin {"susSync", "susAck"} /\ (dpc = "top" => pending)

One(x) == IF x THEN 1 ELSE 0

(* Every dialog pays for one buffer: lost, at risk, or still to be risked. *)
LossBound == Cardinality(Lost) + One(AtRisk) + One(Unseen) <= suspends

LEMMA LostFinite == IsFiniteSet(Lost) /\ Cardinality(Lost) \in Nat
<1>1. IsFiniteSet(Bufs)
  BY FS_Interval, HandoffAssumption DEF Bufs
<1>2. Lost \in SUBSET Bufs
  BY DEF Lost
<1> QED BY <1>1, <1>2, FS_Subset, FS_CardinalityType

(* Cardinality as a level-free fact, so that it can be used of Lost'.      *)
LEMMA FewerLost ==
  ASSUME NEW S, NEW T, IsFiniteSet(S), T \subseteq S
  PROVE  Cardinality(T) \in Nat /\ Cardinality(S) \in Nat /\ Cardinality(T) <= Cardinality(S)
BY FS_Subset, FS_CardinalityType

LEMMA OneMoreLost ==
  ASSUME NEW S, NEW T, NEW x, IsFiniteSet(S), T \subseteq S \cup {x}
  PROVE  Cardinality(T) \in Nat /\ Cardinality(S) \in Nat /\ Cardinality(T) <= Cardinality(S) + 1
<1>0. Cardinality(S) \in Nat
  BY FS_CardinalityType
<1>1. /\ IsFiniteSet(S \cup {x})
      /\ Cardinality(S \cup {x}) <= Cardinality(S) + 1
  <2>1. Cardinality(S \cup {x}) = IF x \in S THEN Cardinality(S) ELSE Cardinality(S) + 1
    BY FS_AddElement
  <2> QED BY <1>0, <2>1, FS_AddElement
<1>2. Cardinality(T) \in Nat /\ Cardinality(T) <= Cardinality(S \cup {x})
  BY <1>1, FewerLost
<1>3. Cardinality(S \cup {x}) \in Nat
  BY <1>1, FS_CardinalityType
<1> QED BY <1>0, <1>1, <1>2, <1>3

LEMMA InitLoss == Init => HandsEmpty /\ LossBound
<1> SUFFICES ASSUME Init PROVE HandsEmpty /\ LossBound
  OBVIOUS
<1>1. Lost = {}
  BY DEF Init, Lost
<1>2. Cardinality(Lost) = 0
  BY <1>1, FS_EmptySet
<1>3. ~AtRisk /\ ~Unseen /\ suspends = 0
  BY DEF Init, AtRisk, Unseen, InDialog, None
<1>4. HandsEmpty
  BY DEF Init, HandsEmpty, InDialog, None
<1> QED BY <1>2, <1>3, <1>4 DEF LossBound, One

LEMMA StepHands == HandoffInv /\ HandsEmpty /\ [Next]_vars => HandsEmpty'
<1> SUFFICES ASSUME HandoffInv, HandsEmpty, [Next]_vars PROVE HandsEmpty'
  OBVIOUS
<1> USE DEF HandoffInv, TypeOK, HandsEmpty, InDialog, None, shared, worker, display, flags
<1>1. CASE StartAcquire BY <1>1 DEF StartAcquire
<1>2. CASE ScanHit BY <1>2 DEF ScanHit
<1>3. CASE ScanMiss BY <1>3 DEF ScanMiss
<1>4. CASE TakeOld BY <1>4 DEF TakeOld
<1>5. CASE TakeReady BY <1>5 DEF TakeReady
<1>6. CASE MarkWriting BY <1>6 DEF MarkWriting
<1>7. CASE BeginDraw BY <1>7 DEF BeginDraw
<1>8. CASE EndDraw BY <1>8 DEF EndDraw
<1>9. CASE PublishState BY <1>9 DEF PublishState
<1>10. CASE PublishReady BY <1>10 DEF PublishReady
<1>11. CASE PublishOld BY <1>11 DEF PublishOld
<1>12. CASE PublishFree BY <1>12 DEF PublishFree
<1>13. CASE ResumeMachine BY <1>13 DEF ResumeMachine
<1>14. CASE OpenDialog BY <1>14 DEF OpenDialog
<1>15. CASE SuspendRender BY <1>15 DEF SuspendRender
<1>16. CASE WaitAck BY <1>16 DEF WaitAck
<1>17. CASE DialogDone BY <1>17 DEF DialogDone
<1>18. CASE ResumeClearPaused BY <1>18 DEF ResumeClearPaused
<1>19. CASE ResumeClearSuspended BY <1>19 DEF ResumeClearSuspended
<1>20. CASE CheckSuspended BY <1>20 DEF CheckSuspended
<1>21. CASE SuspendedSync BY <1>21 DEF SuspendedSync
<1>22. CASE SuspendedAck BY <1>22 DEF SuspendedAck
<1>23. CASE ClearAck BY <1>23 DEF ClearAck
<1>24. CASE SyncPrevious BY <1>24 DEF SyncPrevious
<1>25. CASE AcquireReady BY <1>25 DEF AcquireReady
<1>26. CASE AcquireOlder BY <1>26 DEF AcquireOlder
<1>27. CASE FreeOlder BY <1>27 DEF FreeOlder
<1>28. CASE MarkDisplaying BY <1>28 DEF MarkDisplaying
<1>29. CASE ReleasePrevious BY <1>29 DEF ReleasePrevious
<1>30. CASE ReuseCurrent BY <1>30 DEF ReuseCurrent
<1>31. CASE SubmitList BY <1>31 DEF SubmitList
<1>32. CASE FinishList BY <1>32 DEF FinishList
<1>33. CASE UNCHANGED vars BY <1>33 DEF vars
<1>34. QED
  BY <1>1, <1>2, <1>3, <1>4, <1>5, <1>6, <1>7, <1>8, <1>9, <1>10, <1>11, <1>12,
     <1>13, <1>14, <1>15, <1>16, <1>17, <1>18, <1>19, <1>20, <1>21, <1>22, <1>23, <1>24,
     <1>25, <1>26, <1>27, <1>28, <1>29, <1>30, <1>31, <1>32, <1>33
  DEF Next, WorkerStep, MenuStep, DisplayStep, Acquire, Draw, PublishFrame, Dialog

(* Only a release without a sync of this call gives a buffer up.           *)
LEMMA LostSteps ==
  ASSUME HandoffInv, HandsEmpty, [Next]_vars
  PROVE  Lost' \subseteq Lost \cup (IF dpc = "release" /\ dpc' = "submit" /\ ~pending
                                    THEN {displaying_idx} ELSE {})
<1> SUFFICES ASSUME NEW b \in Bufs, buf_state'[b] # "FREE",
                    b \notin {wbuf, wold, ready_idx, old_ready_idx, didx, dolder, displaying_idx}'
             PROVE  \/ /\ buf_state[b] # "FREE"
                       /\ b \notin {wbuf, wold, ready_idx, old_ready_idx, didx, dolder, displaying_idx}
                    \/ dpc = "release" /\ dpc' = "submit" /\ ~pending /\ b = displaying_idx
  BY DEF Lost
<1> USE DEF HandoffInv, TypeOK, HandsEmpty, None, shared, worker, display, flags
<1>1. CASE StartAcquire BY <1>1 DEF StartAcquire
<1>2. CASE ScanHit BY <1>2 DEF ScanHit
<1>3. CASE ScanMiss BY <1>3 DEF ScanMiss
<1>4. CASE TakeOld BY <1>4 DEF TakeOld
<1>5. CASE TakeReady BY <1>5 DEF TakeReady
<1>6. CASE MarkWriting BY <1>6 DEF MarkWriting
<1>7. CASE BeginDraw BY <1>7 DEF BeginDraw
<1>8. CASE EndDraw BY <1>8 DEF EndDraw
<1>9. CASE PublishState BY <1>9 DEF PublishState
<1>10. CASE PublishReady BY <1>10 DEF PublishReady
<1>11. CASE PublishOld BY <1>11 DEF PublishOld
<1>12. CASE PublishFree BY <1>12 DEF PublishFree
<1>13. CASE ResumeMachine BY <1>13 DEF ResumeMachine
<1>14. CASE OpenDialog BY <1>14 DEF OpenDialog
<1>15. CASE SuspendRender BY <1>15 DEF SuspendRender
<1>16. CASE WaitAck BY <1>16 DEF WaitAck
<1>17. CASE DialogDone BY <1>17 DEF DialogDone
<1>18. CASE ResumeClearPaused BY <1>18 DEF ResumeClearPaused
<1>19. CASE ResumeClearSuspended BY <1>19 DEF ResumeClearSuspended
<1>20. CASE CheckSuspended BY <1>20 DEF CheckSuspended
<1>21. CASE SuspendedSync BY <1>21 DEF SuspendedSync
<1>22. CASE SuspendedAck BY <1>22 DEF SuspendedAck
<1>23. CASE ClearAck BY <1>23 DEF ClearAck
<1>24. CASE SyncPrevious BY <1>24 DEF SyncPrevious
<1>25. CASE AcquireReady BY <1>25 DEF AcquireReady
<1>26. CASE AcquireOlder BY <1>26 DEF AcquireOlder
<1>27. CASE FreeOlder BY <1>27 DEF FreeOlder
<1>28. CASE MarkDisplaying BY <1>28 DEF MarkDisplaying
<1>29. CASE ReleasePrevious BY <1>29 DEF ReleasePrevious
<1>30. CASE ReuseCurrent BY <1>30 DEF ReuseCurrent
<1>31. CASE SubmitList BY <1>31 DEF SubmitList
<1>32. CASE FinishList BY <1>32 DEF FinishList
<1>33. CASE UNCHANGED vars BY <1>33 DEF vars
<1>34. QED
  BY <1>1, <1>2, <1>3, <1>4, <1>5, <1>6, <1>7, <1>8, <1>9, <1>10, <1>11, <1>12,
     <1>13, <1>14, <1>15, <1>16, <1>17, <1>18, <1>19, <1>20, <1>21, <1>22, <1>23, <1>24,
     <1>25, <1>26, <1>27, <1>28, <1>29, <1>30, <1>31, <1>32, <1>33
  DEF Next, WorkerStep, MenuStep, DisplayStep, Acquire, Draw, PublishFrame, Dialog

(* What is owed only grows with a new dialog, and a release without a sync *)
(* pays for the buffer it gives up.                                        *)
LEMMA OwedSteps ==
  ASSUME HandoffInv, HandsEmpty, [Next]_vars
  PROVE  LET d  == One(AtRisk') + One(Unseen')
             d0 == One(AtRisk) + One(Unseen)
         IN  /\ suspends' \in {suspends, suspends + 1}
             /\ suspends' = suspends => d <= d0
             /\ suspends' = suspends + 1 => d <= d0 + 1
             /\ dpc = "release" /\ dpc' = "submit" /\ ~pending =>
                  /\ suspends' = suspends
                  /\ displaying_idx = None \/ d <= d0 - 1
<1> USE DEF HandoffInv, TypeOK, HandsEmpty, InDialog, AtRisk, Unseen, One, None,
            shared, worker, display, flags
<1>1. CASE StartAcquire BY <1>1 DEF StartAcquire
<1>2. CASE ScanHit BY <1>2 DEF ScanHit
<1>3. CASE ScanMiss BY <1>3 DEF ScanMiss
<1>4. CASE TakeOld BY <1>4 DEF TakeOld
<1>5. CASE TakeReady BY <1>5 DEF TakeReady
<1>6. CASE MarkWriting BY <1>6 DEF MarkWriting
<1>7. CASE BeginDraw BY <1>7 DEF BeginDraw
<1>8. CASE EndDraw BY <1>8 DEF EndDraw
<1>9. CASE PublishState BY <1>9 DEF PublishState
<1>10. CASE PublishReady BY <1>10 DEF PublishReady
<1>11. CASE PublishOld BY <1>11 DEF PublishOld
<1>12. CASE PublishFree BY <1>12 DEF PublishFree
<1>13. CASE ResumeMachine BY <1>13 DEF ResumeMachine
<1>14. CASE OpenDialog BY <1>14 DEF OpenDialog
<1>15. CASE SuspendRender BY <1>15 DEF SuspendRender
<1>16. CASE WaitAck BY <1>16 DEF WaitAck
<1>17. CASE DialogDone BY <1>17 DEF DialogDone
<1>18. CASE ResumeClearPaused BY <1>18 DEF ResumeClearPaused
<1>19. CASE ResumeClearSuspended BY <1>19 DEF ResumeClearSuspended
<1>20. CASE CheckSuspended BY <1>20 DEF CheckSuspended
<1>21. CASE SuspendedSync BY <1>21 DEF SuspendedSync
<1>22. CASE SuspendedAck BY <1>22 DEF SuspendedAck
<1>23. CASE ClearAck BY <1>23 DEF ClearAck
<1>24. CASE SyncPrevious BY <1>24 DEF SyncPrevious
<1>25. CASE AcquireReady BY <1>25 DEF AcquireReady
<1>26. CASE AcquireOlder BY <1>26 DEF AcquireOlder
<1>27. CASE FreeOlder BY <1>27 DEF FreeOlder
<1>28. CASE MarkDisplaying BY <1>28 DEF MarkDisplaying
<1>29. CASE ReleasePrevious BY <1>29 DEF ReleasePrevious
<1>30. CASE ReuseCurrent BY <1>30 DEF ReuseCurrent
<1>31. CASE SubmitList BY <1>31 DEF SubmitList
<1>32. CASE FinishList BY <1>32 DEF FinishList
<1>33. CASE UNCHANGED vars BY <1>33 DEF vars
<1>34. QED
  BY <1>1, <1>2, <1>3, <1>4, <1>5, <1>6, <1>7, <1>8, <1>9, <1>10, <1>11, <1>12,
     <1>13, <1>14, <1>15, <1>16, <1>17, <1>18, <1>19, <1>20, <1>21, <1>22, <1>23, <1>24,
     <1>25, <1>26, <1>27, <1>28, <1>29, <1>30, <1>31, <1>32, <1>33
  DEF Next, WorkerStep, MenuStep, DisplayStep, Acquire, Draw, PublishFrame, Dialog

LEMMA StepLoss == HandoffInv /\ HandsEmpty /\ LossBound /\ [Next]_vars => LossBound'
<1> SUFFICES ASSUME HandoffInv, HandsEmpty, LossBound, [Next]_vars PROVE LossBound'
  OBVIOUS
<1> DEFINE d  == One(AtRisk') + One(Unseen')
           d0 == One(AtRisk) + One(Unseen)
           gone == dpc = "release" /\ dpc' = "submit" /\ ~pending /\ displaying_idx # None
<1>1. /\ One(AtRisk) \in {0, 1} /\ One(Unseen) \in {0, 1}
      /\ One(AtRisk') \in {0, 1} /\ One(Unseen') \in {0, 1}
  BY DEF One
<1>2. suspends \in Nat /\ Cardinality(Lost) \in Nat /\ IsFiniteSet(Lost)
  BY LostFinite DEF HandoffInv, TypeOK
<1>3. /\ d \in {0, 1, 2} /\ d0 \in {0, 1, 2}
      /\ Cardinality(Lost) + d0 <= suspends
      /\ Cardinality(Lost') \in Nat /\ Cardinality(Lost') + d <= suspends' => LossBound'
  <2>1. d \in {0, 1, 2} /\ d0 \in {0, 1, 2}
    BY <1>1
  <2>2. Cardinality(Lost) + One(AtRisk) + One(Unseen) <= suspends
    BY DEF LossBound
  <2>3. ASSUME Cardinality(Lost') \in Nat, Cardinality(Lost') + d <= suspends'
        PROVE  LossBound'
    <3>1. Cardinality(Lost') + One(AtRisk') + One(Unseen') <= suspends'
      BY <1>1, <1>2, <2>3
    <3> QED BY <3>1 DEF LossBound, One
  <2> QED BY <1>1, <1>2, <2>1, <2>2, <2>3
<1>4. /\ suspends' \in {suspends, suspends + 1}
      /\ suspends' = suspends => d <= d0
      /\ suspends' = suspends + 1 => d <= d0 + 1
      /\ gone => suspends' = suspends /\ d <= d0 - 1
  BY OwedSteps
<1>5. CASE gone
  <2>1. Lost' \subseteq Lost \cup {displaying_idx}
    BY <1>5, LostSteps
  <2>2. Cardinality(Lost') \in Nat /\ Cardinality(Lost') <= Cardinality(Lost) + 1
    BY <1>2, <2>1, OneMoreLost
  <2> HIDE DEF d, d0
  <2> QED BY <1>3, <1>2, <1>4, <1>5, <2>2
<1>6. CASE ~gone
  <2>1. Lost' \subseteq Lost
    <3>1. displaying_idx = None => displaying_idx \notin Bufs
      BY DEF None, Bufs
    <3> QED BY <1>6, <3>1, LostSteps DEF Lost
  <2>2. Cardinality(Lost') \in Nat /\ Cardinality(Lost') <= Cardinality(Lost)
    BY <1>2, <2>1, FewerLost
  <2> HIDE DEF d, d0
  <2> QED BY <1>3, <1>2, <1>4, <2>2
<1> QED BY <1>5, <1>6

(* Without a dialog no buffer is ever lost, and every dialog costs at most *)
(* one, however the two threads interleave.                                *)
THEOREM DialogsCostOneBuffer == Spec => []NoBufferLost
<1> DEFINE I == HandoffInv /\ HandsEmpty /\ LossBound
<1>1. Init => I
  BY InitInv, InitLoss
<1>2. I /\ [Next]_vars => I'
  BY StepInv, StepHands, StepLoss
<1>3. I => NoBufferLost
  <2> SUFFICES ASSUME I PROVE Cardinality(Lost) <= suspends
    BY DEF NoBufferLost
  <2>1. One(AtRisk) \in {0, 1} /\ One(Unseen) \in {0, 1}
    BY DEF One
  <2>2. Cardinality(Lost) \in Nat /\ suspends \in Nat
    BY LostFinite DEF HandoffInv, TypeOK
  <2> QED BY <2>1, <2>2 DEF LossBound
<1>4. QED
  BY <1>1, <1>2, <1>3, PTL DEF Spec

-----------------------------------------------------------------------------
(* The first dialog.                                                       *)

Quiet == dpc \in {"top", "susAck"} /\ ge_reads = None /\ ~pending

(* Until resume_render has run once, an acknowledgement is the answer to   *)
(* the suspension that waits for it.                                       *)
FirstDialog ==
  /\ (suspends = 0 \/ (suspends = 1 /\ wpc = "suspend")) =>
       ~render_suspended /\ ~render_paused /\ dpc \notin {"susSync", "susAck"}
  /\ suspends = 0 => wpc # "suspend" /\ ~InDialog
  /\ suspends = 1 /\ wpc = "waitAck" /\ render_paused => Quiet
  /\ suspends = 1 /\ wpc \in {"dialog", "resume1"} => Quiet

LEMMA StepFirst == HandoffInv /\ HandsEmpty /\ FirstDialog /\ [Next]_vars => FirstDialog'
<1> SUFFICES ASSUME HandoffInv, HandsEmpty, FirstDialog, [Next]_vars PROVE FirstDialog'
  OBVIOUS
<1> USE DEF HandoffInv, TypeOK, GESynced, HandsEmpty, FirstDialog, Quiet, InDialog, None,
            shared, worker, display, flags
<1>1. CASE StartAcquire BY <1>1 DEF StartAcquire
<1>2. CASE ScanHit BY <1>2 DEF ScanHit
<1>3. CASE ScanMiss BY <1>3 DEF ScanMiss
<1>4. CASE TakeOld BY <1>4 DEF TakeOld
<1>5. CASE TakeReady BY <1>5 DEF TakeReady
<1>6. CASE MarkWriting BY <1>6 DEF MarkWriting
<1>7. CASE BeginDraw BY <1>7 DEF BeginDraw
<1>8. CASE EndDraw BY <1>8 DEF EndDraw
<1>9. CASE PublishState BY <1>9 DEF PublishState
<1>10. CASE PublishReady BY <1>10 DEF PublishReady
<1>11. CASE PublishOld BY <1>11 DEF PublishOld
<1>12. CASE PublishFree BY <1>12 DEF PublishFree
<1>13. CASE ResumeMachine BY <1>13 DEF ResumeMachine
<1>14. CASE OpenDialog BY <1>14 DEF OpenDialog
<1>15. CASE SuspendRender BY <1>15 DEF SuspendRender
<1>16. CASE WaitAck BY <1>16 DEF WaitAck
<1>17. CASE DialogDone BY <1>17 DEF DialogDone
<1>18. CASE ResumeClearPaused BY <1>18 DEF ResumeClearPaused
<1>19. CASE ResumeClearSuspended BY <1>19 DEF ResumeClearSuspended
<1>20. CASE CheckSuspended BY <1>20 DEF CheckSuspended
<1>21. CASE SuspendedSync BY <1>21 DEF SuspendedSync
<1>22. CASE SuspendedAck BY <1>22 DEF SuspendedAck
<1>23. CASE ClearAck BY <1>23 DEF ClearAck
<1>24. CASE SyncPrevious BY <1>24 DEF SyncPrevious
<1>25. CASE AcquireReady BY <1>25 DEF AcquireReady
<1>26. CASE AcquireOlder BY <1>26 DEF AcquireOlder
<1>27. CASE FreeOlder BY <1>27 DEF FreeOlder
<1>28. CASE MarkDisplaying BY <1>28 DEF MarkDisplaying
<1>29. CASE ReleasePrevious BY <1>29 DEF ReleasePrevious
<1>30. CASE ReuseCurrent BY <1>30 DEF ReuseCurrent
<1>31. CASE SubmitList BY <1>31 DEF SubmitList
<1>32. CASE FinishList BY <1>32 DEF FinishList
<1>33. CASE UNCHANGED vars BY <1>33 DEF vars
<1>34. QED
  BY <1>1, <1>2, <1>3, <1>4, <1>5, <1>6, <1>7, <1>8, <1>9, <1>10, <1>11, <1>12,
     <1>13, <1>14, <1>15, <1>16, <1>17, <1>18, <1>19, <1>20, <1>21, <1>22, <1>23, <1>24,
     <1>25, <1>26, <1>27, <1>28, <1>29, <1>30, <1>31, <1>32, <1>33
  DEF Next, WorkerStep, MenuStep, DisplayStep, Acquire, Draw, PublishFrame, Dialog

(* While the first dialog owns the screen the display thread builds no     *)
(* list and leaves none in flight. A second dialog may find the            *)
(* acknowledgement of the first one still up (see the README), which is    *)
(* why the theorem stops there.                                            *)
THEOREM FirstDialogExclusive == Spec => [](suspends <= 1 => DialogExclusion)
<1> DEFINE I == HandoffInv /\ HandsEmpty /\ FirstDialog
<1>1. Init => I
  <2>1. Init => FirstDialog
    BY DEF Init, FirstDialog, Quiet, InDialog
  <2> QED BY <2>1, InitInv, InitLoss
<1>2. I /\ [Next]_vars => I'
  BY StepInv, StepHands, StepFirst
<1>3. I => (suspends <= 1 => DialogExclusion)
  BY DEF HandoffInv, TypeOK, FirstDialog, Quiet, InDialog, DialogExclusion
<1>4. QED
  BY <1>1, <1>2, <1>3, PTL DEF Spec
=============================================================================
