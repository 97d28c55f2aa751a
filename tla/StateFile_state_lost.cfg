CONSTANTS
  Baks = {"b1", "b2"}  MaxRuns = 2  MaxFaults = 1  MaxCrashes = 0  BootSwaps = FALSE
SPECIFICATION Spec
INVARIANTS PreviousSurvives
