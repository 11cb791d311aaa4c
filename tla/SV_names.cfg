\* Two architectures, several names with their exemptions.
SPECIFICATION Spec
CONSTANTS
  Names = {"foo", "alias", "$ld$x"}
  Flags = {"none"}
  TargetSeq <- FatTargets
  SliceSeq <- FatTargets
  Passes = 1
  MaxVisits = 1
  Visited <- PlainDeclarations
  OptionSet <- Extremes
  LinkerNames = {"$ld$x"}
  RttiNames = {}
  Reexports <- ReexportedNames
  CoverageAPIs <- ArmOnly
  CoverageNames <- CoverageOfFoo
  SwiftInterface <- Nothing
  AliasSeq <- OneAlias
INVARIANTS SuccessMeansAgreement LinkerDirectivesDeclared AliasFollowsBase
CHECK_DEADLOCK FALSE
