SPECIFICATION FairSpec
CONSTANTS NBUF = 3  MaxFrames = 5  MaxSuspends = 1
INVARIANTS Ownership NoTearing NoBufferLost DialogExclusion
PROPERTIES MailboxSpec WorkerGetsBuffer FrameReachesScreen SuspendReturns
