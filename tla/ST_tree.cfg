\* Small SDKs and single files, two runs, every fault and a crash anywhere.
SPECIFICATION Spec
CONSTANTS
  None = None
  Dirs <- SdkDirs
  Above <- SdkAbove
  Alias <- SdkAlias
  PrivateDirs = {"local", "deep"}
  Paths <- SdkPaths
  Libs <- AllLibs
  LibPath <- Where
  Kept = {"foo"}
  Writable = {"foo", "bar", "baz"}
  MaxDepth = 4
  Inputs <- Tidy
  Faults = {"read", "write", "cut", "remove", "rmdir", "link", "crash"}
  MaxRuns = 2
  MaxLinks = 2
INVARIANTS TypeOK TextWins NamesKept Mirrored NothingDangles Idempotent Pruned SelfContained OverflowMeansCycle
CHECK_DEADLOCK FALSE
