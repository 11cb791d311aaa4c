-------------------------- MODULE MCSymbolVerifier --------------------------
(* Instances of SymbolVerifier for TLC: the constants that a .cfg names.   *)
EXTENDS SymbolVerifier

MacArm   == [arch |-> "arm64",  platform |-> "macos"]
MacIntel == [arch |-> "x86_64", platform |-> "macos"]
CatArm   == [arch |-> "arm64",  platform |-> "maccatalyst"]
CatIntel == [arch |-> "x86_64", platform |-> "maccatalyst"]

\* Targets in command-line order; slices in the order readMachOFile sorts
\* their triples ("...-ios-macabi" before "...-macos").
OneTarget      == <<MacArm>>
FatTargets     == <<MacArm, MacIntel>>
FatZippered       == <<MacArm, MacIntel, CatArm, CatIntel>>
FatZipperedSlices == <<CatArm, MacArm, CatIntel, MacIntel>>
\* arm64 asks for Catalyst, the binary has it for x86_64 only.
CrossedTargets == <<MacArm, MacIntel, CatArm>>
CrossedSlices  == <<MacArm, CatIntel, MacIntel>>

NoSeq   == <<>>
Nothing == [t \in Targets \cup Slices |-> {}]
NoReexports == [t \in Targets |-> {}]

AllOptions == Options
WithDylib  == {o \in Options : o.verifyAgainst /\ ~o.verifySwift}
\* The two modes that differ most: everything graded is ignored, or an error.
Extremes == {o \in WithDylib : o.mode # "ErrorsAndWarnings"}
PedanticOnly == {o \in WithDylib : o.mode = "Pedantic"}
AllDeclarations == Declarations
\* One of each: exported or hidden, available, withdrawn or obsolete.
PlainDeclarations ==
  {d \in Declarations : ~d.inlined /\ d.storage = "function" /\ d.flags = "none"}

\* Several names: an alias, coverage symbols of one or all targets, a linker
\* directive, reexported symbols.
OneAlias == <<<<"alias", "foo">>>>
ArmOnly == {MacArm}
CoverageOfFoo == [t \in Targets |-> {"foo"}]
ReexportedNames == [t \in Targets |-> IF t = MacArm THEN {"foo", "$ld$x"} ELSE {}]
=============================================================================
