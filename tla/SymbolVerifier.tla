--------------------------- MODULE SymbolVerifier ---------------------------
(***************************************************************************)
(* The symbol verification of `tapi installapi`: the state kept by class   *)
(* SymbolVerifier (lib/Core/SymbolVerifier.cpp) and the part of            *)
(* Driver::InstallAPI::run (lib/Driver/InstallAPIDriver.cpp) that drives   *)
(* it, from the construction of the verifier to the exit status.           *)
(*                                                                         *)
(* For every target the driver runs the clang frontend once per header     *)
(* type and per set of unique clang arguments (a "pass").  Each pass has   *)
(* an API of its own, into which declarations of one symbol are merged;    *)
(* after every declaration the merged record is verified against the       *)
(* slice of the dylib with that target.  Then the symbols left in the      *)
(* dylib are visited once per target, by architecture, and the text stub   *)
(* is written when nothing was found Invalid.                              *)
(*                                                                         *)
(* A symbol is a global (or an Objective-C instance variable, which takes  *)
(* the same path); the branch of verifyImpl for Objective-C interfaces,    *)
(* the wording of diagnostics and their target banners are left out.       *)
(***************************************************************************)
EXTENDS Naturals, Sequences

CONSTANTS
  Names,          \* symbol names
  Flags,          \* symbol flags: "none", "weak" (weak-def), "tlv"
  TargetSeq,      \* allTargets: the targets, then the target variants
  SliceSeq,       \* targets of the slices of the dylib, in file order
  Passes,         \* frontend runs per target
  MaxVisits,      \* bound: declarations visited in one pass
  Visited,        \* bound: the declarations a header may hold
  OptionSet,      \* bound: the command lines considered
  LinkerNames,    \* names with the prefix $ld$
  RttiNames,      \* names of C++ type info and its strings (__ZTI, __ZTS)
  Reexports,      \* target -> names found in the reexported libraries
  CoverageAPIs,   \* targets that have an entry in coverageSymbols
  CoverageNames,  \* the names a coverage API holds, per target
  SwiftInterface, \* target -> names exported by the Swift interface file
  AliasSeq        \* <<alias, base>> pairs in the order of the alias map

Targets == {TargetSeq[i] : i \in DOMAIN TargetSeq}
Slices  == {SliceSeq[i] : i \in DOMAIN SliceSeq}
Archs   == {t.arch : t \in Targets \cup Slices}
Modes   == {"ErrorsOnly", "ErrorsAndWarnings", "Pedantic"}
Results == {"Invalid", "Ignore", "Valid"}

ASSUME ShapeAssumption ==
  /\ Len(TargetSeq) \in Nat \ {0}
  /\ TargetSeq \in Seq(Targets) /\ SliceSeq \in Seq(Slices)
  /\ Passes \in Nat \ {0} /\ MaxVisits \in Nat
  /\ "none" \in Flags
  /\ LinkerNames \subseteq Names
  /\ Reexports \in [Targets -> SUBSET Names]
  /\ CoverageAPIs \subseteq Targets
  /\ CoverageNames \in [Targets -> SUBSET Names]
  /\ SwiftInterface \in [Targets \cup Slices -> SUBSET Names]
  /\ AliasSeq \in Seq(Names \X Names)
  /\ \A i, j \in DOMAIN AliasSeq : AliasSeq[i][1] = AliasSeq[j][1] => i = j

\* The comparison of the binary with the targets that precedes the verifier:
\* platforms and architectures are compared as two separate sets.
ASSUME BinaryInfoAssumption ==
  /\ {s.platform : s \in Slices} = {t.platform : t \in Targets}
  /\ {s.arch : s \in Slices} = {t.arch : t \in Targets}

isZippered == {"macos", "maccatalyst"} \subseteq {t.platform : t \in Targets}

-----------------------------------------------------------------------------
(* Records.  A header record keeps the fields the verifier reads; storage  *)
(* is "function", "privateExtern" (a __private_extern__ function) or       *)
(* "variable".  A record that is obsolete and unavailable counts as        *)
(* obsolete, which every check tests first.                                *)

Header(l, a, f, i, s) ==
  [linkage |-> l, avail |-> a, flags |-> f, inlined |-> i, storage |-> s]

NoRecord == Header("Unknown", "available", "none", FALSE, "function")

Availabilities == {"available", "unavailable", "obsolete"}

HeaderRecords ==
  [linkage: {"Unknown", "Internal", "Exported"}, avail: Availabilities,
   flags: Flags, inlined: BOOLEAN,
   storage: {"function", "privateExtern", "variable"}]

\* What a visited declaration can be: an inlined function and a
\* __private_extern__ one have no exported symbol.
Declarations ==
  {d \in HeaderRecords :
     /\ d.linkage # "Unknown"
     /\ d.inlined => d.linkage = "Internal" /\ d.storage = "function"
     /\ d.storage = "privateExtern" => d.linkage = "Internal"
     /\ d.linkage = "Internal" => d.flags = "none"
     /\ d.linkage = "Exported" => d.storage = "function"}

\* API::addGlobal: the first declaration creates the record, later ones only
\* raise its linkage; VisitFunctionDecl overwrites `inlined`.
AddGlobal(old, d) ==
  IF old = NoRecord THEN d
  ELSE [old EXCEPT
          !.linkage = IF d.linkage = "Exported" THEN "Exported" ELSE @,
          !.inlined = IF d.storage = "variable" THEN @ ELSE d.inlined]

\* A symbol of the binary.  Undefined symbols are not read, only exported ones
\* carry flags, and both platforms of an architecture come from one Mach-O file.
DylibRecords ==
  {d \in [linkage: {"Absent", "Internal", "Exported"}, flags: Flags] :
     d.linkage # "Exported" => d.flags = "none"}

\* Mode, whether a dylib is given (-verify-against), whether Swift is verified.
Options == [mode: Modes, verifyAgainst: BOOLEAN, verifySwift: BOOLEAN]

ASSUME BoundAssumption == Visited \subseteq Declarations /\ OptionSet \subseteq Options

VARIABLES
  options,        \* the command line
  dylib,          \* architecture -> name -> record
  step,           \* where the driver is
  ti, pass,       \* loop indices: target, frontend run
  visits,         \* declarations visited in this run
  api,            \* the records of this run
  target,         \* ctx.target
  dylibAPI,       \* ctx.dylibAPI: target of the slice it points to
  coverageAPI,    \* ctx.coverageAPI: target of the entry it points to
  frontendState,  \* ctx.frontendState
  verified,       \* slice -> names whose dylib record is marked verified
  exports,        \* name -> flags and targets (no target: not in the set)
  ignoredZipperedRecords, \* name -> deferred records, by target and obsolescence
  checkedZippered,        \* name -> targets whose deferred records were reported
  verifiedSwift, passedBinary,
  diags,          \* the diagnostics reported
  declared,       \* history: the records verified, with name and target
  outcome,        \* "running", "failed" or "success": the exit status
  tbd             \* what the output file holds: <<>> when none was written

inputs   == <<options, dylib>>
driver   == <<step, ti, pass, visits, api>>
context  == <<target, dylibAPI, coverageAPI>>
symbols  == <<verified, exports, ignoredZipperedRecords>>
ending   == <<outcome, tbd>>
vars == <<inputs, driver, context, frontendState, symbols, checkedZippered,
          verifiedSwift, passedBinary, diags, declared, ending>>

NoTarget == [arch |-> "none", platform |-> "none"]
NoName   == ""

Kinds == {"swift", "missing", "undeclared", "hidden", "header hidden", "availability",
          "flags", "frontend", "io"}
Diagnostic(sev, kind, n, t) ==
  [sev |-> sev, kind |-> kind, name |-> n, target |-> t]

-----------------------------------------------------------------------------
(* Results and reports *)

Mut_LatestResult(prev, next) == next
UpdateResult(prev, next) ==
  IF prev = "Invalid" \/ (prev = "Valid" /\ next = "Ignore") THEN prev ELSE next

\* The verdict and the report of a check that the mode grades.
GradedResult == IF options.mode = "Pedantic" THEN "Invalid" ELSE "Ignore"
Mut_PedanticWarns(kind, n, t) ==
  IF options.mode = "ErrorsOnly" THEN {} ELSE {Diagnostic("warn", kind, n, t)}
Graded(kind, n, t) ==
  CASE options.mode = "Pedantic" -> {Diagnostic("err", kind, n, t)}
    [] options.mode = "ErrorsAndWarnings" -> {Diagnostic("warn", kind, n, t)}
    [] OTHER -> {}

\* updateFrontendState(result), after reporting ds.
Settle(result, ds) ==
  /\ frontendState' = UpdateResult(frontendState, result)
  /\ diags' = diags \cup ds


\* addSymbol: the first addition decides the flags, each adds its target.
AddSymbol(n, r) ==
  exports' = [exports EXCEPT ![n] =
                [flags   |-> IF @.targets = {} THEN r.flags ELSE @.flags,
                 targets |-> @.targets \cup {target}]]

\* Zippered dylibs: remember a record whose availability is judged later.
DeferZippered(n, r) ==
  ignoredZipperedRecords' =
    IF isZippered
    THEN [ignoredZipperedRecords EXCEPT ![n] = @ \cup
            {[target |-> target, obsolete |-> r.avail = "obsolete"]}]
    ELSE ignoredZipperedRecords

KeepSymbols == UNCHANGED <<exports, ignoredZipperedRecords>>

-----------------------------------------------------------------------------
(* Verifying one header record: SymbolVerifier::verifyImpl and the checks  *)
(* it calls.  n is the name, r the merged record, d the record of the      *)
(* dylib slice.                                                            *)

Mut_IgnoreAnyReexport(n) == n \in Reexports[target]
shouldIgnoreReexport(n) == n \notin LinkerNames /\ n \in Reexports[target]

\* cast<FunctionDecl> on the declaration: for a variable the storage class is
\* read from an object of another class, and any value may be found there.
PrivateExternRead(r) ==
  IF r.storage = "variable" THEN BOOLEAN ELSE {r.storage = "privateExtern"}

shouldIgnoreZipperedSymbol(n) == isZippered /\ exports[n].targets # {}

\* Without a dylib every exported, available record becomes an export.
AccumulateSymbol(n, r) ==
  /\ IF r.linkage = "Exported" /\ r.avail = "available" /\ ~shouldIgnoreReexport(n)
     THEN AddSymbol(n, r)
     ELSE UNCHANGED exports
  /\ Settle("Ignore", {})
  /\ UNCHANGED <<verified, ignoredZipperedRecords>>

Mut_IgnoreFlags(n, r, d) ==
  AddSymbol(n, r) /\ Settle("Valid", {}) /\ UNCHANGED ignoredZipperedRecords
checkSymbolFlags(n, r, d) ==
  \/ /\ r.flags # d.flags
     /\ Settle("Invalid", {Diagnostic("err", "flags", n, target)})
     /\ KeepSymbols
  \/ /\ r.flags = d.flags
     /\ AddSymbol(n, r)
     /\ Settle("Valid", {})
     /\ UNCHANGED ignoredZipperedRecords

checkAvailability(n, r, d) ==
  \/ r.avail = "available" /\ checkSymbolFlags(n, r, d)
  \/ /\ r.avail = "unavailable" /\ isZippered
     /\ DeferZippered(n, r)
     /\ Settle("Ignore", {})
     /\ UNCHANGED exports
  \/ /\ r.avail = "unavailable" /\ ~isZippered
     /\ Settle(GradedResult, Graded("availability", n, target))
     /\ KeepSymbols

\* A record hidden in the headers whose symbol the dylib exports.
HiddenDeclaration(n, r) ==
  \E privateExtern \in PrivateExternRead(r) :
    IF options.mode = "ErrorsOnly" \/ privateExtern \/ shouldIgnoreZipperedSymbol(n)
    THEN Settle("Ignore", {})
    ELSE Settle(GradedResult, Graded("header hidden", n, target))

checkVisibility(n, r, d) ==
  \/ /\ r.linkage = "Exported" /\ d.linkage # "Exported"
     /\ Settle("Invalid", {Diagnostic("err",
          IF d.linkage = "Absent" THEN "missing" ELSE "hidden", n, target)})
     /\ KeepSymbols
  \/ /\ r.linkage = "Internal" /\ ~r.inlined /\ d.linkage = "Exported"
     /\ HiddenDeclaration(n, r)
     /\ KeepSymbols
  \/ /\ r.linkage = "Internal" /\ (r.inlined \/ d.linkage # "Exported")
     /\ Settle("Ignore", {})
     /\ KeepSymbols
  \/ /\ r.linkage = "Exported" /\ d.linkage = "Exported"
     /\ checkAvailability(n, r, d)

VerifyAgainstDylib(n, r, d) ==
  /\ verified' = IF d.linkage = "Absent" THEN verified
                 ELSE [verified EXCEPT ![dylibAPI] = @ \cup {n}]
  /\ \/ /\ r.avail = "obsolete"
        /\ DeferZippered(n, r)
        /\ Settle("Ignore", {})
        /\ UNCHANGED exports
     \/ /\ r.avail = "unavailable" /\ d.linkage # "Exported"
        /\ Settle("Valid", {})
        /\ KeepSymbols
     \/ /\ r.avail = "available" \/ (r.avail = "unavailable" /\ d.linkage = "Exported")
        /\ checkVisibility(n, r, d)

verifyImpl(n, r) ==
  \/ ~options.verifyAgainst /\ AccumulateSymbol(n, r)
  \/ /\ options.verifyAgainst /\ shouldIgnoreReexport(n)
     /\ Settle("Ignore", {})
     /\ UNCHANGED symbols
  \/ /\ options.verifyAgainst /\ ~shouldIgnoreReexport(n)
     /\ VerifyAgainstDylib(n, r, dylib[dylibAPI.arch][n])

-----------------------------------------------------------------------------
(* The driver: one frontend run after the other *)

Running == outcome = "running"
EmptyAPI == [n \in Names |-> NoRecord]

\* SymbolVerifier::verifySwift, when the option asks for it.
SwiftMissing ==
  {m \in Names \X Slices :
     m[1] \in SwiftInterface[m[2]] /\ dylib[m[2].arch][m[1]].linkage = "Absent"}

verifySwift ==
  /\ Running /\ step = "swift"
  /\ IF options.verifySwift /\ options.verifyAgainst
     THEN /\ verified' = [s \in Slices |-> verified[s] \cup
               {n \in SwiftInterface[s] : dylib[s.arch][n].linkage # "Absent"}]
          /\ diags' = diags \cup
               {Diagnostic("err", "swift", m[1], m[2]) : m \in SwiftMissing}
          /\ verifiedSwift' = TRUE
          /\ outcome' = IF SwiftMissing = {} THEN outcome ELSE "failed"
     ELSE UNCHANGED <<verified, diags, verifiedSwift, outcome>>
  /\ step' = "target"
  /\ UNCHANGED <<inputs, ti, pass, visits, api, context, frontendState, exports,
        ignoredZipperedRecords, checkedZippered, passedBinary, declared, tbd>>

\* lookupAPIs: an API that is not found leaves the pointer of the target before.
lookupCoverage(t) == IF t \in CoverageAPIs THEN t ELSE coverageAPI
Mut_KeepFirstSlice(t) ==
  IF options.verifyAgainst /\ dylibAPI = NoTarget THEN t ELSE dylibAPI
lookupDylib(t) == IF options.verifyAgainst THEN t ELSE dylibAPI

setTarget ==
  /\ Running /\ step = "target"
  /\ target' = TargetSeq[ti]
  /\ coverageAPI' = lookupCoverage(TargetSeq[ti])
  /\ dylibAPI' = lookupDylib(TargetSeq[ti])
  /\ outcome' = IF options.verifyAgainst /\ TargetSeq[ti] \notin Slices
                THEN "assertion failed" ELSE outcome
  /\ Settle("Ignore", {})
  /\ step' = "frontend" /\ pass' = 1 /\ visits' = 0 /\ api' = EmptyAPI
  /\ UNCHANGED <<inputs, ti, symbols, checkedZippered, verifiedSwift,
                 passedBinary, declared, tbd>>

\* APIVisitor::VisitVarDecl, VisitFunctionDecl: merge the declaration into the
\* API of the run, then verify the merged record.
VisitDecl(n, d) ==
  /\ Running /\ step = "frontend" /\ visits < MaxVisits
  /\ LET r == AddGlobal(api[n], d) IN
       /\ api' = [api EXCEPT ![n] = r]
       /\ verifyImpl(n, r)
       /\ declared' = declared \cup {[name |-> n, target |-> target, record |-> r]}
  /\ visits' = visits + 1
  /\ UNCHANGED <<inputs, step, ti, pass, context, checkedZippered, verifiedSwift,
                 passedBinary, ending>>

Mut_OneMorePass == pass > Passes
LastPass == pass = Passes
NextTarget == ti + 1

\* runFrontend returns: to the next run, the next target, or the dylib.
EndFrontend ==
  /\ Running /\ step = "frontend"
  /\ IF ~LastPass
     THEN pass' = pass + 1 /\ UNCHANGED <<step, ti>>
     ELSE /\ UNCHANGED pass
          /\ IF ti < Len(TargetSeq)
             THEN step' = "target" /\ ti' = NextTarget
             ELSE /\ step' = IF options.verifyAgainst THEN "remaining" ELSE "verdict"
                  /\ ti' = 1
  /\ api' = EmptyAPI /\ visits' = 0
  /\ UNCHANGED <<inputs, context, frontendState, symbols, checkedZippered,
                 verifiedSwift, passedBinary, diags, declared, ending>>

\* runFrontend fails with an error that cannot be ignored.
FrontendError ==
  /\ Running /\ step = "frontend"
  /\ outcome' = "failed"
  /\ diags' = diags \cup {Diagnostic("err", "frontend", NoName, target)}
  /\ UNCHANGED <<inputs, driver, context, frontendState, symbols, checkedZippered,
                 verifiedSwift, passedBinary, declared, tbd>>

-----------------------------------------------------------------------------
(* The symbols left in the dylib: SymbolVerifier::verifyRemainingSymbols   *)
(* and DylibAPIVerifier::visitImpl.                                        *)

\* The first slice of an architecture, whatever its platform.
FirstSlice(arch) ==
  SliceSeq[CHOOSE i \in DOMAIN SliceSeq :
             /\ SliceSeq[i].arch = arch
             /\ \A j \in 1 .. i - 1 : SliceSeq[j].arch # arch]

AliasNames == {AliasSeq[i][1] : i \in DOMAIN AliasSeq}
Coverage(t) == IF t \in CoverageAPIs THEN CoverageNames[t] ELSE {}
SwiftNames == UNION {SwiftInterface[t] : t \in Targets \cup Slices}

Mut_VerifiedForSlice(n, arch) == FirstSlice(arch) \in exports[n].targets
VerifiedForArch(n, arch) == \E t \in exports[n].targets : t.arch = arch

\* The deferred records of n make a violation of the architecture: none is
\* obsolete or reported before (the loop returns at such a record, wherever
\* it stands in the list), and one was declared for the architecture.
DeferredForArch(n, arch) ==
  {e \in ignoredZipperedRecords[n] : e.target.arch = arch}
Mut_NoDeferredCheck(n, arch) == FALSE
AvailabilityMismatch(n, arch) ==
  /\ \A e \in ignoredZipperedRecords[n] :
        ~e.obsolete /\ e.target \notin checkedZippered[n]
  /\ DeferredForArch(n, arch) # {}

\* The dylib exports n, and nothing accounts for it.
Unaccounted(n, slice) ==
  /\ n \notin verified[slice]
  /\ ~(n \in RttiNames /\ dylib[slice.arch][n].flags = "weak")
  /\ ~(~verifiedSwift /\ n \in SwiftNames)
  /\ n \notin AliasNames
  /\ n \notin Coverage(coverageAPI)

RemainingViolations(slice) ==
  {n \in Names :
     /\ dylib[slice.arch][n].linkage = "Exported"
     /\ ~VerifiedForArch(n, slice.arch)
     /\ \/ n \in verified[slice] /\ AvailabilityMismatch(n, slice.arch)
        \/ Unaccounted(n, slice)}

RemainingKind(n, slice) ==
  IF n \in verified[slice] THEN "availability" ELSE "undeclared"

RemainingDiagnostics(n, slice) ==
  IF n \in LinkerNames THEN {Diagnostic("err", RemainingKind(n, slice), n, slice)}
  ELSE Graded(RemainingKind(n, slice), n, slice)

\* Linker directives are errors in every mode.
Mut_DirectivesGraded(slice) ==
  RemainingViolations(slice) # {} /\ GradedResult = "Invalid"
RemainingInvalid(slice) ==
  \E n \in RemainingViolations(slice) : n \in LinkerNames \/ GradedResult = "Invalid"

verifyRemainingSymbols ==
  /\ Running /\ step = "remaining"
  /\ LET slice == FirstSlice(TargetSeq[ti].arch)
         found == RemainingViolations(slice)
     IN /\ target' = slice
        /\ passedBinary' = (passedBinary /\ ~RemainingInvalid(slice))
        /\ diags' = diags \cup UNION {RemainingDiagnostics(n, slice) : n \in found}
        /\ checkedZippered' =
             [n \in Names |->
                IF n \in found /\ n \in verified[slice]
                THEN checkedZippered[n] \cup
                       {e.target : e \in DeferredForArch(n, slice.arch)}
                ELSE checkedZippered[n]]
  /\ IF ti < Len(TargetSeq)
     THEN ti' = NextTarget /\ UNCHANGED step
     ELSE step' = "verdict" /\ UNCHANGED ti
  /\ UNCHANGED <<inputs, pass, visits, api, dylibAPI, coverageAPI, frontendState,
                 symbols, verifiedSwift, declared, ending>>

-----------------------------------------------------------------------------
(* The verdict and the output *)

\* getExports, first half: the coverage symbols join the exports.
WithCoverage ==
  [n \in Names |->
     [exports[n] EXCEPT !.targets = @ \cup {t \in Targets : n \in Coverage(t)}]]

\* getExports, second half: in the order of the alias map, an alias gets the
\* flags and targets of its base; without one, every slice of the dylib, or
\* the target of the context when there is no dylib.
Mut_AliasForContext(syms, alias, base) ==
  [syms EXCEPT ![alias] = [@ EXCEPT !.targets = @ \cup {target}]]
AddAlias(syms, alias, base) ==
  LET found == syms[base].targets # {}
      flags == IF found THEN syms[base].flags ELSE "none"
      where == CASE found -> syms[base].targets
                 [] ~found /\ options.verifyAgainst -> Slices
                 [] OTHER -> {target}
  IN [syms EXCEPT ![alias] =
        [flags   |-> IF @.targets = {} THEN flags ELSE @.flags,
         targets |-> @.targets \cup where]]

WithAliases ==
  LET after[i \in 0 .. Len(AliasSeq)] ==
        IF i = 0 THEN WithCoverage
        ELSE AddAlias(after[i - 1], AliasSeq[i][1], AliasSeq[i][2])
  IN after[Len(AliasSeq)]

\* mergeInterfaces: the Swift symbols join the stub.
Published ==
  [n \in Names |->
     [WithAliases[n] EXCEPT !.targets =
        @ \cup {t \in Targets \cup Slices : n \in SwiftInterface[t]}]]

Mut_PassedFrontend == frontendState # "Invalid"
Passed == frontendState # "Invalid" /\ passedBinary

Verdict ==
  /\ Running /\ step = "verdict"
  /\ IF Passed
     THEN step' = "write" /\ UNCHANGED outcome
     ELSE outcome' = "failed" /\ UNCHANGED step
  /\ UNCHANGED <<inputs, ti, pass, visits, api, context, frontendState, symbols,
                 checkedZippered, verifiedSwift, passedBinary, diags, declared, tbd>>

IOError == diags' = diags \cup {Diagnostic("err", "io", NoName, target)}

\* The stub is merged and written, then the optional partial SDKDB; an error
\* before the stub leaves none, one after it leaves the stub in place.
WriteOutput ==
  /\ Running /\ step = "write"
  /\ \/ tbd' = <<Published>> /\ outcome' = "success" /\ UNCHANGED diags
     \/ tbd' = <<Published>> /\ outcome' = "failed" /\ IOError
     \/ UNCHANGED tbd /\ outcome' = "failed" /\ IOError
  /\ UNCHANGED <<inputs, driver, context, frontendState, symbols, checkedZippered,
                 verifiedSwift, passedBinary, declared>>

-----------------------------------------------------------------------------
Init ==
  /\ options \in OptionSet
  /\ dylib \in [Archs -> [Names -> DylibRecords]]
  /\ step = "swift" /\ ti = 1 /\ pass = 1 /\ visits = 0 /\ api = EmptyAPI
  /\ target = NoTarget /\ dylibAPI = NoTarget /\ coverageAPI = NoTarget
  /\ frontendState = "Ignore"
  /\ verified = [s \in Slices |-> {}]
  /\ exports = [n \in Names |-> [flags |-> "none", targets |-> {}]]
  /\ ignoredZipperedRecords = [n \in Names |-> {}]
  /\ checkedZippered = [n \in Names |-> {}]
  /\ verifiedSwift = FALSE /\ passedBinary = TRUE
  /\ diags = {} /\ declared = {}
  /\ outcome = "running" /\ tbd = <<>>

\* Everything the driver does by itself.
DriverStep ==
  verifySwift \/ setTarget \/ EndFrontend \/ verifyRemainingSymbols \/ Verdict \/ WriteOutput

Next ==
  \/ DriverStep
  \/ FrontendError
  \/ \E n \in Names, d \in Visited : VisitDecl(n, d)

Spec == Init /\ [][Next]_vars

-----------------------------------------------------------------------------
(* Properties *)

DiagnosticSet ==
  [sev: {"err", "warn"}, kind: Kinds, name: Names \cup {NoName},
   target: Targets \cup Slices \cup {NoTarget}]

\* Every variable of the verifier and of the driver holds a value of its type.
TypeOK ==
  /\ options \in Options /\ dylib \in [Archs -> [Names -> DylibRecords]]
  /\ step \in {"swift", "target", "frontend", "remaining", "verdict", "write"}
  /\ ti \in 1 .. Len(TargetSeq) /\ pass \in 1 .. Passes /\ visits \in 0 .. MaxVisits
  /\ api \in [Names -> HeaderRecords]
  /\ target \in Targets \cup Slices \cup {NoTarget}
  /\ dylibAPI \in Targets \cup {NoTarget}
  /\ coverageAPI \in Targets \cup {NoTarget}
  /\ frontendState \in Results
  /\ verified \in [Slices -> SUBSET Names]
  /\ exports \in [Names -> [flags: Flags, targets: SUBSET Targets]]
  /\ ignoredZipperedRecords \in [Names -> SUBSET [target: Targets, obsolete: BOOLEAN]]
  /\ checkedZippered \in [Names -> SUBSET Targets]
  /\ verifiedSwift \in BOOLEAN /\ passedBinary \in BOOLEAN
  /\ diags \subseteq DiagnosticSet
  /\ declared \subseteq [name: Names, target: Targets, record: HeaderRecords]
  /\ outcome \in {"running", "failed", "success", "assertion failed"}

Errors == {d \in diags : d.sev = "err"}

\* A text stub is written only when no check of any target, of any pass or of
\* the dylib reported an error before: one Invalid result, whatever came after
\* it, stops the output (updateResult, InstallAPIDriver.cpp 1171-1184).
StubImpliesNoViolation ==
  tbd # <<>> => \A d \in Errors : d.kind = "io"

\* The tool never fails without saying why: a failed run has reported an error.
FailureIsReported == outcome = "failed" => Errors # {}

\* Whatever the mode, a symbol listed in the stub for a target because of a
\* declaration was declared exported and available for that very target, and
\* the dylib, if one was given, exports it for the architecture of that target.
ExportsBacked ==
  \A n \in Names : \A t \in exports[n].targets :
    /\ \E x \in declared : /\ x.name = n /\ x.target = t
                           /\ x.record.linkage = "Exported"
                           /\ x.record.avail = "available"
    /\ options.verifyAgainst => dylib[t.arch][n].linkage = "Exported"

\* A verified record agrees with the dylib: what the headers export and offer,
\* the dylib exports with the same flags; and in pedantic mode what the headers
\* of a non-zippered library hide or withdraw, it does not export.  Reexported,
\* obsolete, inlined and __private_extern__ symbols are exempt, and so are
\* hidden variables, which may pass for __private_extern__ (PrivateExternRead).
Agrees(x) ==
  LET r == x.record
      d == dylib[x.target.arch][x.name]
  IN x.name \in LinkerNames \/ x.name \notin Reexports[x.target] =>
       /\ r.linkage = "Exported" /\ r.avail = "available" =>
            d.linkage = "Exported" /\ d.flags = r.flags
       /\ options.mode = "Pedantic" /\ ~isZippered =>
            /\ r.avail = "unavailable" /\ ~r.inlined /\ r.storage = "function"
                 => d.linkage # "Exported"
            /\ r.avail = "available" /\ r.linkage = "Internal" /\ ~r.inlined
                 /\ r.storage = "function" => d.linkage # "Exported"

\* When the run succeeds, the headers and the dylib agree on every declaration.
SuccessMeansAgreement ==
  (outcome = "success" /\ options.verifyAgainst) => \A x \in declared : Agrees(x)

\* Pedantic success leaves no symbol of the dylib unaccounted: in the slice that
\* is checked for its architecture each exported symbol is in the stub for that
\* architecture, or an alias, Swift, coverage or RTTI symbol, or was declared for
\* the slice hidden or obsolete, or withdrawn there and obsolete somewhere.
PedanticAccounts ==
  (outcome = "success" /\ options.verifyAgainst /\ options.mode = "Pedantic") =>
    \A arch \in {t.arch : t \in Targets}, n \in Names :
      dylib[arch][n].linkage = "Exported" =>
        \/ \E t \in exports[n].targets : t.arch = arch
        \/ n \in AliasNames \cup SwiftNames \cup UNION {Coverage(t) : t \in Targets}
        \/ n \in RttiNames /\ dylib[arch][n].flags = "weak"
        \/ \E x \in declared :
             /\ x.name = n /\ x.target = FirstSlice(arch)
             /\ \/ x.record.avail = "obsolete"
                \/ x.record.linkage = "Internal"
                \/ \E y \in declared : y.name = n /\ y.record.avail = "obsolete"

\* A symbol reported as missing from the headers of an architecture is neither
\* published for it nor declared for the slice the report is about.
UndeclaredIsUnknown ==
  \A d \in diags : d.kind = "undeclared" =>
    /\ \A t \in exports[d.name].targets : t.arch # d.target.arch
    /\ ~\E x \in declared :
          /\ x.name = d.name /\ x.target = d.target
          /\ x.name \in LinkerNames \/ x.name \notin Reexports[x.target]

\* An alias in the stub is published wherever its base is, and nowhere else when
\* a declaration published the base and nothing but the alias list the alias
\* (getExports copies the targets the base has at that moment): a base that Swift
\* publishes, or that is an alias itself, may gain targets afterwards.
AliasFollowsBase ==
  tbd # <<>> /\ options.verifyAgainst =>
    \A i \in DOMAIN AliasSeq :
      LET alias == AliasSeq[i][1]
          base  == AliasSeq[i][2]
      IN base \notin AliasNames \cup SwiftNames =>
           /\ tbd[1][base].targets \subseteq tbd[1][alias].targets
           /\ (/\ exports[base].targets # {} /\ exports[alias].targets = {}
               /\ alias \notin SwiftNames \cup UNION {Coverage(t) : t \in Targets})
                => tbd[1][alias] = tbd[1][base]

\* A linker directive ($ld$...) that the dylib holds and no header declares
\* stops every run, whatever the mode: each one in the slice that is checked is
\* published for its architecture, exempt, or declared for that slice.
LinkerDirectivesDeclared ==
  (outcome = "success" /\ options.verifyAgainst) =>
    \A arch \in {t.arch : t \in Targets}, n \in LinkerNames :
      dylib[arch][n].linkage = "Exported" =>
        \/ \E t \in exports[n].targets : t.arch = arch
        \/ n \in AliasNames \cup SwiftNames \cup UNION {Coverage(t) : t \in Targets}
        \/ n \in RttiNames /\ dylib[arch][n].flags = "weak"
        \/ \E x \in declared : x.name = n /\ x.target = FirstSlice(arch)

\* The verifier never moves a result back to acceptable, and never takes a
\* published target of a symbol back or rewrites its flags.
Monotone ==
  /\ frontendState = "Invalid" => frontendState' = "Invalid"
  /\ ~passedBinary => ~passedBinary'
  /\ \A n \in Names :
       /\ exports[n].targets \subseteq exports'[n].targets
       /\ exports[n].targets # {} => exports'[n].flags = exports[n].flags

\* No step of a run, of any target or pass, retracts (updateResult, addSymbol).
NoRetraction == [][Monotone]_vars

-----------------------------------------------------------------------------
(* What the source says of itself and the code does not keep *)

\* "A matching target slice should always exist" (lookupAPIs): the comparison
\* of platforms and of architectures as two sets does not ensure it.
TargetSliceExists == outcome # "assertion failed"
=============================================================================
