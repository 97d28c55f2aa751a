CONSTANTS NBUF = 3 MaxFrames = 3 MaxSuspends = 1
SPECIFICATION Spec
INVARIANTS DisplayingHandedBack
