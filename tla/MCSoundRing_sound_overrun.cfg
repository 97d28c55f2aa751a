CONSTANTS
  NBUFFERS = 8  FrameSize = 882  Reqn = 1024  Lengths = {882}
  Targets <- Default  Execs = {441}  Phases = {0}
  Stalls = {}  Pauses = {600}  BriefStop = 88200
  MaxStalls = 1  LastOnset = 60  MaxCalls = 1000
SPECIFICATION Spec
INVARIANTS HeadInRing
