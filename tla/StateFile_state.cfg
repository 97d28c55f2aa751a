CONSTANTS
  Baks = {b1, b2, b3, b4, b5}  MaxRuns = 2  MaxFaults = 2  MaxCrashes = 2  BootSwaps = FALSE
SPECIFICATION Spec
SYMMETRY BakSymmetry
INVARIANTS TypeOK AckedIsStored CopySurvives ShotMatches
PROPERTIES SlotSpec
