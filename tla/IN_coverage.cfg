\* Two targets with code coverage; no file is overwritten.
SPECIFICATION Spec
CONSTANTS
  Paths <- TwoPaths
  Docs <- TwoDocs
  TargetSeq <- TwoTargets
  ReexportedLibraries <- Libs
  ReexportedLibraryPaths <- Libs
  ReexportedFrameworks <- Frameworks
  SwiftInputs <- Frameworks
  VerifyAgainst = "lib"
  outputFile = "tmp"
  OptionSet <- WithCoverage
  MaxOverwrites = 0
INVARIANTS CoverageForEveryTarget
CHECK_DEADLOCK FALSE
