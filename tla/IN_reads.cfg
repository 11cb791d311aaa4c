\* Every option; the files are overwritten twice, at any moment.
SPECIFICATION FairSpec
CONSTANTS
  Paths <- TwoPaths
  Docs <- TwoDocs
  TargetSeq <- TwoTargets
  ReexportedLibraries <- Libs
  ReexportedLibraryPaths <- Frameworks
  ReexportedFrameworks <- TwoFrameworks
  SwiftInputs <- Frameworks
  VerifyAgainst = "lib"
  outputFile = "tmp"
  OptionSet <- AnyOptions
  MaxOverwrites = 2
INVARIANTS TypeOK OneViewPerPath FileListsStopErrors ReexportsComplete
PROPERTIES Finishes
CHECK_DEADLOCK FALSE
