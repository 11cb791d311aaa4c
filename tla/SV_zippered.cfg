\* A zippered library on two architectures: availability is judged at the end.
SPECIFICATION Spec
CONSTANTS
  Names = {foo}
  Flags = {"none"}
  TargetSeq <- FatZippered
  SliceSeq <- FatZipperedSlices
  Passes = 1
  MaxVisits = 1
  Visited <- PlainDeclarations
  OptionSet <- PedanticOnly
  LinkerNames = {}
  RttiNames = {}
  Reexports <- NoReexports
  CoverageAPIs = {}
  CoverageNames <- NoReexports
  SwiftInterface <- Nothing
  AliasSeq <- NoSeq
INVARIANTS StubImpliesNoViolation ExportsBacked PedanticAccounts UndeclaredIsUnknown
CHECK_DEADLOCK FALSE
