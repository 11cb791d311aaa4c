------------------------- MODULE MCInstallAPIInputs -------------------------
(* Instances of InstallAPIInputs for TLC.                                  *)
EXTENDS InstallAPIInputs

\* The dylib is also a Swift input, and the framework is looked up per target.
TwoPaths == {"fw", "lib"}
TwoDocs == {"A", "B"}
TwoTargets == <<"arm64", "x86_64">>
Libs == <<"lib">>
Frameworks == <<"fw">>
TwoFrameworks == <<"fw", "lib">>

AnyOptions == [fileLists: BOOLEAN, coverage: BOOLEAN, verifyAgainst: BOOLEAN]
WithCoverage == [fileLists: {FALSE}, coverage: {TRUE}, verifyAgainst: {FALSE}]
=============================================================================
