\* A link that differs from its target in the extension only; nothing fails.
SPECIFICATION Spec
CONSTANTS
  None = None
  Dirs <- SdkDirs
  Above <- SdkAbove
  Alias <- SdkAlias
  PrivateDirs = {"local", "deep"}
  Paths <- SdkPaths
  Libs <- AllLibs
  LibPath <- Where
  Kept = {"foo"}
  Writable = {"foo", "bar", "baz"}
  MaxDepth = 4
  Inputs <- SameName
  Faults = {}
  MaxRuns = 1
  MaxLinks = 2
INVARIANTS Mirrored
CHECK_DEADLOCK FALSE
