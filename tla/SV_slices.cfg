\* The binary is zippered for another architecture than the targets.
SPECIFICATION Spec
CONSTANTS
  Names = {foo}
  Flags = {"none"}
  TargetSeq <- CrossedTargets
  SliceSeq <- CrossedSlices
  Passes = 1
  MaxVisits = 1
  Visited <- PlainDeclarations
  OptionSet <- PedanticOnly
  LinkerNames = {}
  RttiNames = {}
  Reexports <- NoReexports
  CoverageAPIs = {}
  CoverageNames <- NoReexports
  SwiftInterface <- Nothing
  AliasSeq <- NoSeq
INVARIANTS TargetSliceExists
CHECK_DEADLOCK FALSE
