CONSTANTS
  NBUFFERS = 8  FrameSize = 882  Reqn = 1024  Lengths = {882, 890}
  Targets <- Usual  Execs = {441}  Phases = {0}
  Stalls = {35280}  Pauses = {100}  BriefStop = 88200
  MaxStalls = 1  LastOnset = 330  MaxCalls = 700
SPECIFICATION Spec
INVARIANTS TypeOK PositionsDerived BriefStopHarmless Continuous
