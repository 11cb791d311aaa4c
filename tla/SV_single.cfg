\* One target, every option, dylib and pair of merged declarations.
SPECIFICATION Spec
CONSTANTS
  Names = {foo}
  Flags = {"none", "weak"}
  TargetSeq <- OneTarget
  SliceSeq <- OneTarget
  Passes = 1
  MaxVisits = 2
  Visited <- AllDeclarations
  OptionSet <- AllOptions
  LinkerNames = {}
  RttiNames = {}
  Reexports <- NoReexports
  CoverageAPIs = {}
  CoverageNames <- NoReexports
  SwiftInterface <- Nothing
  AliasSeq <- NoSeq
INVARIANTS TypeOK FailureIsReported SuccessMeansAgreement
PROPERTIES NoRetraction
CHECK_DEADLOCK FALSE
