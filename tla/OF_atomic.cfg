\* One process replaces a document; nothing fails.
SPECIFICATION Spec
CONSTANTS
  Docs <- TwoDocs
  Size <- Sizes
  Writers = {w}
  MaxRuns = 1
  Faults = {}
  FirstFiles <- WholeFile
INVARIANTS ReplacedAtomically
CHECK_DEADLOCK FALSE
