\* Two processes write the same path at the same time.
SPECIFICATION Spec
CONSTANTS
  Docs <- TwoDocs
  Size <- Sizes
  Writers = {w1, w2}
  MaxRuns = 2
  Faults = {"crash"}
  FirstFiles <- WholeFile
INVARIANTS QuietFileIsWhole NeverMixed
CHECK_DEADLOCK FALSE
