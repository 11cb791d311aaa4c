\* One process, two runs, every fault and a crash anywhere.
SPECIFICATION FairSpec
CONSTANTS
  Docs <- TwoDocs
  Size <- Sizes
  Writers = {w}
  MaxRuns = 2
  Faults = {"read", "create", "open", "document", "write", "rename", "crash"}
  FirstFiles <- AnyFile
INVARIANTS TypeOK EqualFileUntouched NoTemporaryAfterSuccess
PROPERTIES ImplementsPromise Finishes
CHECK_DEADLOCK FALSE
