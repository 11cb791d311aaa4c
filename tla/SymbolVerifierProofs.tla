------------------------ MODULE SymbolVerifierProofs ------------------------
(***************************************************************************)
(* Theorems about SymbolVerifier, for every set of names, targets, slices  *)
(* and every header the bounds admit.                                      *)
(***************************************************************************)
EXTENDS SymbolVerifier, TLAPS, WellFoundedInduction

(***************************************************************************)
(* Constants                                                               *)
(***************************************************************************)

\* An index of the target loop names a target.
LEMMA TargetAt ==
  ASSUME NEW i \in 1 .. Len(TargetSeq)
  PROVE  TargetSeq[i] \in Targets
BY ShapeAssumption DEF ShapeAssumption, Targets

\* Every architecture of the targets has a slice, and the first one is chosen.
LEMMA FirstSliceExists ==
  ASSUME NEW t \in Targets
  PROVE  FirstSlice(t.arch) \in Slices /\ FirstSlice(t.arch).arch = t.arch
<1> DEFINE Having == {i \in DOMAIN SliceSeq : SliceSeq[i].arch = t.arch}
<1>1. DOMAIN SliceSeq \subseteq Nat /\ DOMAIN SliceSeq = 1 .. Len(SliceSeq)
      /\ Len(SliceSeq) \in Nat
  BY ShapeAssumption DEF ShapeAssumption
<1>2. Having \subseteq Nat /\ Having # {}
  <2>1. t.arch \in {s.arch : s \in Slices}
    BY BinaryInfoAssumption DEF BinaryInfoAssumption
  <2>2. PICK s \in Slices : s.arch = t.arch
    BY <2>1
  <2>3. PICK i \in DOMAIN SliceSeq : SliceSeq[i] = s
    BY DEF Slices
  <2> QED BY <1>1, <2>2, <2>3
<1>3. PICK i \in Having : \A j \in Having : ~(<<j, i>> \in OpToRel(<, Nat))
  BY <1>2, WFMin, NatLessThanWellFounded, Zenon
<1>4. \A j \in Having : ~(j < i)
  BY <1>2, <1>3 DEF OpToRel
<1>5. \A j \in 1 .. i - 1 : SliceSeq[j].arch # t.arch
  BY <1>1, <1>2, <1>4
<1>6. \E k \in DOMAIN SliceSeq :
         /\ SliceSeq[k].arch = t.arch
         /\ \A j \in 1 .. k - 1 : SliceSeq[j].arch # t.arch
  BY <1>5
<1> QED BY <1>6 DEF FirstSlice, Slices

\* What the frontend merges into a record is a header record.
LEMMA AddGlobalType ==
  ASSUME NEW old \in HeaderRecords, NEW d \in Visited
  PROVE  AddGlobal(old, d) \in HeaderRecords
BY BoundAssumption DEF BoundAssumption, Declarations, AddGlobal, HeaderRecords

(***************************************************************************)
(* Reports                                                                 *)
(***************************************************************************)

\* The result of a check and its report agree: Invalid comes with an error,
\* anything else without one.
Consistent(result, ds) ==
  /\ result \in Results /\ ds \subseteq DiagnosticSet
  /\ result = "Invalid" <=> \E x \in ds : x.sev = "err"

\* An empty report is consistent with every result but Invalid.
LEMMA NoReport == Consistent("Ignore", {}) /\ Consistent("Valid", {})
BY DEF Consistent, Results

\* A report of one error is consistent with Invalid.
LEMMA ErrorReport ==
  ASSUME NEW kind \in Kinds, NEW n \in Names, NEW t \in Targets \cup Slices
  PROVE  Consistent("Invalid", {Diagnostic("err", kind, n, t)})
BY DEF Consistent, Results, Diagnostic, DiagnosticSet

\* The report graded by the mode is consistent with the graded result.
LEMMA GradedReport ==
  ASSUME NEW kind \in Kinds, NEW n \in Names, NEW t \in Targets \cup Slices
  PROVE  Consistent(GradedResult, Graded(kind, n, t))
<1>1. CASE options.mode = "Pedantic"
  BY <1>1, ErrorReport DEF GradedResult, Graded
<1>2. CASE options.mode = "ErrorsAndWarnings"
  BY <1>2 DEF GradedResult, Graded, Consistent, Results, Diagnostic, DiagnosticSet
<1>3. CASE options.mode \notin {"Pedantic", "ErrorsAndWarnings"}
  BY <1>3, NoReport DEF GradedResult, Graded
<1> QED BY <1>1, <1>2, <1>3

(***************************************************************************)
(* The verification of one record                                          *)
(***************************************************************************)

\* What verifyImpl may do: settle a consistent report, publish the record when
\* it is exported, available and (with a dylib) backed by the slice, or defer it.
Publish(n, r) ==
  /\ r.linkage = "Exported" /\ r.avail = "available"
  /\ AddSymbol(n, r)
  /\ options.verifyAgainst => dylib[dylibAPI.arch][n].linkage = "Exported"

Reported == \E result, ds : Consistent(result, ds) /\ Settle(result, ds)

Effect(n, r) ==
  /\ Reported
  /\ exports' = exports \/ Publish(n, r)
  /\ ignoredZipperedRecords' = ignoredZipperedRecords \/ DeferZippered(n, r)

\* Whatever checkSymbolFlags does to an exported symbol is an Effect.
LEMMA FlagsEffect ==
  ASSUME NEW n \in Names, NEW r \in HeaderRecords, target \in Targets,
         r.linkage = "Exported", r.avail = "available",
         NEW d, d.linkage = "Exported", options.verifyAgainst,
         d = dylib[dylibAPI.arch][n], checkSymbolFlags(n, r, d)
  PROVE  Effect(n, r)
<1>1. CASE r.flags # d.flags
  <2>1. "flags" \in Kinds
    BY DEF Kinds
  <2> QED BY <1>1, <2>1, ErrorReport DEF checkSymbolFlags, Effect, Reported, KeepSymbols
<1>2. CASE r.flags = d.flags
  BY <1>2, NoReport DEF checkSymbolFlags, Effect, Reported, Publish
<1> QED BY <1>1, <1>2

\* Whatever checkAvailability does is an Effect.
LEMMA AvailabilityEffect ==
  ASSUME NEW n \in Names, NEW r \in HeaderRecords, target \in Targets,
         r.linkage = "Exported",
         NEW d, d.linkage = "Exported", options.verifyAgainst,
         d = dylib[dylibAPI.arch][n], checkAvailability(n, r, d)
  PROVE  Effect(n, r)
<1>1. CASE r.avail = "available" /\ checkSymbolFlags(n, r, d)
  BY <1>1, FlagsEffect
<1>2. CASE /\ r.avail = "unavailable" /\ isZippered
           /\ DeferZippered(n, r) /\ Settle("Ignore", {}) /\ UNCHANGED exports
  BY <1>2, NoReport DEF Effect, Reported
<1>3. CASE /\ r.avail = "unavailable" /\ ~isZippered /\ KeepSymbols
           /\ Settle(GradedResult, Graded("availability", n, target))
  <2>1. "availability" \in Kinds
    BY DEF Kinds
  <2> QED BY <1>3, <2>1, GradedReport DEF Effect, Reported, KeepSymbols
<1> QED BY <1>1, <1>2, <1>3 DEF checkAvailability

\* Whatever checkVisibility does is an Effect.
LEMMA VisibilityEffect ==
  ASSUME NEW n \in Names, NEW r \in HeaderRecords, target \in Targets,
         NEW d, options.verifyAgainst,
         d = dylib[dylibAPI.arch][n], checkVisibility(n, r, d)
  PROVE  Effect(n, r)
<1> DEFINE kind == IF d.linkage = "Absent" THEN "missing" ELSE "hidden"
<1>1. CASE /\ r.linkage = "Exported" /\ d.linkage # "Exported" /\ KeepSymbols
           /\ Settle("Invalid", {Diagnostic("err", kind, n, target)})
  <2>1. kind \in Kinds
    BY DEF Kinds
  <2> HIDE DEF kind
  <2> QED BY <1>1, <2>1, ErrorReport DEF Effect, Reported, KeepSymbols
<1>2. CASE HiddenDeclaration(n, r) /\ KeepSymbols
  <2>1. "header hidden" \in Kinds
    BY DEF Kinds
  <2>2. \/ Settle("Ignore", {})
        \/ Settle(GradedResult, Graded("header hidden", n, target))
    BY <1>2 DEF HiddenDeclaration
  <2> QED BY <1>2, <2>1, <2>2, NoReport, GradedReport DEF Effect, Reported, KeepSymbols
<1>3. CASE Settle("Ignore", {}) /\ KeepSymbols
  BY <1>3, NoReport DEF Effect, Reported, KeepSymbols
<1>4. CASE /\ r.linkage = "Exported" /\ d.linkage = "Exported"
           /\ checkAvailability(n, r, d)
  BY <1>4, AvailabilityEffect
<1> QED BY <1>1, <1>2, <1>3, <1>4 DEF checkVisibility

\* Whatever verifyImpl does to a record is an Effect.
LEMMA VerifyEffect ==
  ASSUME NEW n \in Names, NEW r \in HeaderRecords, target \in Targets, verifyImpl(n, r)
  PROVE  Effect(n, r)
<1>1. CASE ~options.verifyAgainst /\ AccumulateSymbol(n, r)
  BY <1>1, NoReport DEF AccumulateSymbol, Effect, Reported, Publish
<1>2. CASE Settle("Ignore", {}) /\ UNCHANGED symbols
  BY <1>2, NoReport DEF symbols, Effect, Reported
<1>3. CASE options.verifyAgainst /\ VerifyAgainstDylib(n, r, dylib[dylibAPI.arch][n])
  <2> DEFINE d == dylib[dylibAPI.arch][n]
  <2>1. CASE DeferZippered(n, r) /\ Settle("Ignore", {}) /\ UNCHANGED exports
    BY <2>1, NoReport DEF Effect, Reported
  <2>2. CASE Settle("Valid", {}) /\ KeepSymbols
    BY <2>2, NoReport DEF Effect, Reported, KeepSymbols
  <2>3. CASE checkVisibility(n, r, d)
    BY <1>3, <2>3, VisibilityEffect
  <2> QED BY <1>3, <2>1, <2>2, <2>3 DEF VerifyAgainstDylib
<1> QED BY <1>1, <1>2, <1>3 DEF verifyImpl

(***************************************************************************)
(* Type correctness                                                        *)
(***************************************************************************)

\* While headers are verified the context holds a target of the command line,
\* which is what makes the targets of exports and deferred records typed.
TypeInv == TypeOK /\ (step = "frontend" => target \in Targets)

\* Settling on a result keeps the state of the frontend and the report in their types.
LEMMA SettleType ==
  ASSUME TypeOK, Reported
  PROVE  frontendState' \in Results /\ diags' \subseteq DiagnosticSet
BY DEF TypeOK, Reported, Consistent, Settle, UpdateResult

\* A verification keeps the exports and the deferred records in their types.
LEMMA SymbolsType ==
  ASSUME TypeOK, NEW n \in Names, NEW r \in HeaderRecords, target \in Targets,
         Effect(n, r)
  PROVE  /\ exports' \in [Names -> [flags: Flags, targets: SUBSET Targets]]
         /\ ignoredZipperedRecords' \in
              [Names -> SUBSET [target: Targets, obsolete: BOOLEAN]]
<1>1. r.flags \in Flags
  BY DEF HeaderRecords
<1>2. exports' \in [Names -> [flags: Flags, targets: SUBSET Targets]]
  <2> DEFINE Entries == [flags: Flags, targets: SUBSET Targets]
             entry == [flags   |-> IF exports[n].targets = {} THEN r.flags
                                   ELSE exports[n].flags,
                       targets |-> exports[n].targets \cup {target}]
  <2>1. exports \in [Names -> Entries]
    BY DEF TypeOK
  <2>2. entry \in Entries
    BY <1>1, <2>1
  <2>3. exports' = exports \/ exports' = [exports EXCEPT ![n] = entry]
    BY DEF Effect, Publish, AddSymbol
  <2> HIDE DEF Entries, entry
  <2>4. exports' \in [Names -> Entries]
    BY <2>1, <2>2, <2>3
  <2> QED BY <2>4 DEF Entries
<1>3. ignoredZipperedRecords' \in
        [Names -> SUBSET [target: Targets, obsolete: BOOLEAN]]
  <2> DEFINE Deferred == [target: Targets, obsolete: BOOLEAN]
             entry == [target |-> target, obsolete |-> r.avail = "obsolete"]
  <2>1. ignoredZipperedRecords \in [Names -> SUBSET Deferred]
    BY DEF TypeOK
  <2>2. entry \in Deferred
    OBVIOUS
  <2>3. \/ ignoredZipperedRecords' = ignoredZipperedRecords
        \/ ignoredZipperedRecords' = [ignoredZipperedRecords EXCEPT ![n] = @ \cup {entry}]
    BY DEF Effect, DeferZippered
  <2> HIDE DEF Deferred, entry
  <2>4. ignoredZipperedRecords' \in [Names -> SUBSET Deferred]
    BY <2>1, <2>2, <2>3
  <2> QED BY <2>4 DEF Deferred
<1> QED BY <1>2, <1>3

\* A verification keeps the marks on the records of the dylib in their type.
LEMMA VerifiedType ==
  ASSUME TypeOK, NEW n \in Names, NEW r \in HeaderRecords, verifyImpl(n, r)
  PROVE  verified' \in [Slices -> SUBSET Names]
<1>1. verified \in [Slices -> SUBSET Names]
  BY DEF TypeOK
<1>2. verified' = verified \/ verified' = [verified EXCEPT ![dylibAPI] = @ \cup {n}]
  BY Zenon DEF verifyImpl, AccumulateSymbol, VerifyAgainstDylib, symbols
<1> QED BY <1>1, <1>2

\* A run starts with no records.
LEMMA EmptyType == EmptyAPI \in [Names -> HeaderRecords]
<1>1. NoRecord \in HeaderRecords
  BY ShapeAssumption DEF ShapeAssumption, NoRecord, Header, HeaderRecords, Availabilities
<1> QED BY <1>1 DEF EmptyAPI

\* Every variable starts in its type.
LEMMA InitType == Init => TypeInv
<1> SUFFICES ASSUME Init PROVE TypeInv
  OBVIOUS
<1>2. "none" \in Flags /\ 1 \in 1 .. Len(TargetSeq) /\ 1 \in 1 .. Passes
      /\ 0 \in 0 .. MaxVisits
  BY ShapeAssumption DEF ShapeAssumption
<1>3. options \in Options
  BY BoundAssumption DEF BoundAssumption, Init
<1> QED BY <1>2, <1>3, EmptyType DEF Init, TypeInv, TypeOK, Results

\* verifySwift keeps every type.
LEMMA SwiftType == ASSUME TypeInv, verifySwift PROVE TypeInv'
<1>1. TypeOK
  BY DEF TypeInv
<1>2. {Diagnostic("err", "swift", m[1], m[2]) : m \in SwiftMissing} \subseteq DiagnosticSet
  <2>1. \A m \in SwiftMissing : m[1] \in Names /\ m[2] \in Slices
    BY DEF SwiftMissing
  <2>2. \A n \in Names, t \in Slices : Diagnostic("err", "swift", n, t) \in DiagnosticSet
    BY DEF Diagnostic, DiagnosticSet, Kinds
  <2> QED BY <2>1, <2>2
<1>3. verified' \in [Slices -> SUBSET Names]
  <2>1. \A s \in Slices : SwiftInterface[s] \subseteq Names
    BY ShapeAssumption DEF ShapeAssumption
  <2>2. verified \in [Slices -> SUBSET Names]
    BY <1>1 DEF TypeOK
  <2>3. \/ verified' = verified
        \/ verified' = [s \in Slices |-> verified[s] \cup
               {n \in SwiftInterface[s] : dylib[s.arch][n].linkage # "Absent"}]
    BY DEF verifySwift
  <2> QED BY <2>1, <2>2, <2>3
<1>4. diags' \subseteq DiagnosticSet /\ verifiedSwift' \in BOOLEAN
      /\ outcome' \in {"running", "failed", "success", "assertion failed"}
  BY <1>1, <1>2 DEF verifySwift, TypeOK
<1> QED BY <1>1, <1>3, <1>4 DEF verifySwift, TypeInv, TypeOK, inputs, context

\* setTarget keeps every type: the context points to slices and entries that exist.
LEMMA TargetType == ASSUME TypeInv, setTarget PROVE TypeInv'
<1>1. TypeOK /\ target' \in Targets
  BY TargetAt DEF TypeInv, TypeOK, setTarget
<1>2. coverageAPI' \in Targets \cup {NoTarget} /\ dylibAPI' \in Targets \cup {NoTarget}
  BY <1>1, TargetAt DEF TypeOK, setTarget, lookupCoverage, lookupDylib
<1>3. frontendState' \in Results /\ diags' \subseteq DiagnosticSet
  BY <1>1, NoReport, SettleType DEF Reported, setTarget
<1>4. api' \in [Names -> HeaderRecords] /\ pass' \in 1 .. Passes /\ visits' \in 0 .. MaxVisits
  <2>1. 1 \in 1 .. Passes /\ 0 \in 0 .. MaxVisits
    BY ShapeAssumption DEF ShapeAssumption
  <2> QED BY <2>1, EmptyType DEF setTarget
<1>5. outcome' \in {"running", "failed", "success", "assertion failed"}
  BY <1>1 DEF setTarget, TypeOK
<1> QED BY <1>1, <1>2, <1>3, <1>4, <1>5 DEF setTarget, TypeInv, TypeOK, inputs, symbols

\* A visited declaration keeps every type.
LEMMA VisitType ==
  ASSUME TypeInv, NEW n \in Names, NEW d \in Visited, VisitDecl(n, d)
  PROVE  TypeInv'
<1> DEFINE r == AddGlobal(api[n], d)
<1>1. TypeOK /\ target \in Targets /\ r \in HeaderRecords
  BY AddGlobalType DEF TypeInv, TypeOK, VisitDecl
<1>2. verifyImpl(n, r) /\ api' = [api EXCEPT ![n] = r]
      /\ declared' = declared \cup {[name |-> n, target |-> target, record |-> r]}
  BY DEF VisitDecl
<1> HIDE DEF r
<1>3. Effect(n, r)
  BY <1>1, <1>2, VerifyEffect
<1>4. frontendState' \in Results /\ diags' \subseteq DiagnosticSet
  BY <1>1, <1>3, SettleType DEF Effect
<1>5. /\ exports' \in [Names -> [flags: Flags, targets: SUBSET Targets]]
      /\ ignoredZipperedRecords' \in
              [Names -> SUBSET [target: Targets, obsolete: BOOLEAN]]
  BY <1>1, <1>3, SymbolsType
<1>6. verified' \in [Slices -> SUBSET Names]
  BY <1>1, <1>2, VerifiedType
<1>7. api' \in [Names -> HeaderRecords]
      /\ declared' \subseteq [name: Names, target: Targets, record: HeaderRecords]
  <2>1. /\ api \in [Names -> HeaderRecords]
        /\ declared \subseteq [name: Names, target: Targets, record: HeaderRecords]
    BY <1>1 DEF TypeOK
  <2>2. [name |-> n, target |-> target, record |-> r]
          \in [name: Names, target: Targets, record: HeaderRecords]
    BY <1>1
  <2> QED BY <1>1, <1>2, <2>1, <2>2
<1>8. visits' \in 0 .. MaxVisits
  <2>1. visits \in 0 .. MaxVisits /\ MaxVisits \in Nat
    BY <1>1, ShapeAssumption DEF ShapeAssumption, TypeOK
  <2>2. visits' = visits + 1 /\ visits < MaxVisits
    BY DEF VisitDecl
  <2> QED BY <2>1, <2>2
<1> QED BY <1>1, <1>4, <1>5, <1>6, <1>7, <1>8
        DEF VisitDecl, TypeInv, TypeOK, inputs, context, ending

\* The end of a frontend run keeps every type: the loop indices stay in range.
LEMMA EndType == ASSUME TypeInv, EndFrontend PROVE TypeInv'
<1>1. TypeOK
  BY DEF TypeInv
<1>2. api' \in [Names -> HeaderRecords] /\ visits' \in 0 .. MaxVisits
  BY EmptyType, ShapeAssumption DEF ShapeAssumption, EndFrontend
<1>3. ti' \in 1 .. Len(TargetSeq) /\ pass' \in 1 .. Passes
      /\ step' \in {"swift", "target", "frontend", "remaining", "verdict", "write"}
  <2>1. /\ ti \in 1 .. Len(TargetSeq) /\ pass \in 1 .. Passes
        /\ step \in {"swift", "target", "frontend", "remaining", "verdict", "write"}
        /\ Len(TargetSeq) \in Nat \ {0} /\ Passes \in Nat \ {0}
    BY <1>1, ShapeAssumption DEF ShapeAssumption, TypeOK
  <2>2. CASE ~LastPass
    BY <2>1, <2>2 DEF EndFrontend, LastPass
  <2>3. CASE LastPass /\ ti < Len(TargetSeq)
    BY <2>1, <2>3 DEF EndFrontend, NextTarget
  <2>4. CASE LastPass /\ ~(ti < Len(TargetSeq))
    BY <2>1, <2>4 DEF EndFrontend
  <2> QED BY <2>2, <2>3, <2>4
<1>4. step' = "frontend" => target' \in Targets
  BY DEF EndFrontend, TypeInv, context
<1> QED BY <1>1, <1>2, <1>3, <1>4
        DEF EndFrontend, TypeInv, TypeOK, inputs, context, symbols, ending

\* What verifyRemainingSymbols reports are diagnostics.
LEMMA RemainingReports ==
  ASSUME TypeOK, NEW slice \in Slices
  PROVE  UNION {RemainingDiagnostics(n, slice) : n \in RemainingViolations(slice)}
           \subseteq DiagnosticSet
<1> SUFFICES ASSUME NEW n \in Names
             PROVE  RemainingDiagnostics(n, slice) \subseteq DiagnosticSet
  BY DEF RemainingViolations
<1>1. RemainingKind(n, slice) \in Kinds
  BY DEF RemainingKind, Kinds
<1>2. Consistent(GradedResult, Graded(RemainingKind(n, slice), n, slice))
  BY <1>1, GradedReport
<1>3. Consistent("Invalid", {Diagnostic("err", RemainingKind(n, slice), n, slice)})
  BY <1>1, ErrorReport
<1> QED BY <1>2, <1>3 DEF RemainingDiagnostics, Consistent

\* verifyRemainingSymbols keeps every type.
LEMMA RemainingType == ASSUME TypeInv, verifyRemainingSymbols PROVE TypeInv'
<1> DEFINE slice == FirstSlice(TargetSeq[ti].arch)
<1>1. TypeOK /\ slice \in Slices
  BY TargetAt, FirstSliceExists DEF TypeInv, TypeOK
<1> HIDE DEF slice
<1>2. target' = slice /\ passedBinary' = (passedBinary /\ ~RemainingInvalid(slice))
  BY DEF verifyRemainingSymbols, slice
<1>3. diags' \subseteq DiagnosticSet
  <2>1. diags' = diags \cup UNION {RemainingDiagnostics(n, slice) :
                                    n \in RemainingViolations(slice)}
    BY DEF verifyRemainingSymbols, slice
  <2> QED BY <1>1, <2>1, RemainingReports DEF TypeOK
<1>4. checkedZippered' \in [Names -> SUBSET Targets]
  <2>1. \A n \in Names : {e.target : e \in DeferredForArch(n, slice.arch)} \subseteq Targets
    <3>1. ignoredZipperedRecords \in [Names -> SUBSET [target: Targets, obsolete: BOOLEAN]]
      BY <1>1 DEF TypeOK
    <3> QED BY <3>1 DEF DeferredForArch
  <2>2. checkedZippered' =
             [n \in Names |->
                IF n \in RemainingViolations(slice) /\ n \in verified[slice]
                THEN checkedZippered[n] \cup
                       {e.target : e \in DeferredForArch(n, slice.arch)}
                ELSE checkedZippered[n]]
    BY DEF verifyRemainingSymbols, slice
  <2> QED BY <1>1, <2>1, <2>2 DEF TypeOK
<1>5. ti' \in 1 .. Len(TargetSeq) /\ step' \in {"remaining", "verdict"}
  <2>1. ti \in 1 .. Len(TargetSeq) /\ Len(TargetSeq) \in Nat \ {0} /\ step = "remaining"
    BY <1>1, ShapeAssumption DEF ShapeAssumption, TypeOK, verifyRemainingSymbols
  <2>2. CASE ti < Len(TargetSeq)
    BY <2>1, <2>2 DEF verifyRemainingSymbols, NextTarget
  <2>3. CASE ~(ti < Len(TargetSeq))
    BY <2>1, <2>3 DEF verifyRemainingSymbols
  <2> QED BY <2>2, <2>3
<1>6. passedBinary' \in BOOLEAN
  BY <1>2
<1> QED BY <1>1, <1>2, <1>3, <1>4, <1>5, <1>6
        DEF verifyRemainingSymbols, TypeInv, TypeOK, inputs, symbols, ending

\* The reports of the driver itself name no symbol.
LEMMA DriverReport ==
  ASSUME TypeOK, NEW kind \in {"frontend", "io"}
  PROVE  Diagnostic("err", kind, NoName, target) \in DiagnosticSet
<1>1. target \in Targets \cup Slices \cup {NoTarget}
  BY DEF TypeOK
<1>2. kind \in Kinds
  BY DEF Kinds
<1> QED BY <1>1, <1>2 DEF Diagnostic, DiagnosticSet

\* The other steps of the driver keep every type.
LEMMA OtherTypes ==
  ASSUME TypeInv, FrontendError \/ Verdict \/ WriteOutput \/ UNCHANGED vars
  PROVE  TypeInv'
<1>1. TypeOK
  BY DEF TypeInv
<1>2. CASE FrontendError
  <2>1. diags' \subseteq DiagnosticSet
    BY <1>1, <1>2, DriverReport DEF TypeOK, FrontendError
  <2> QED BY <1>1, <1>2, <2>1
          DEF FrontendError, TypeInv, TypeOK, inputs, driver, context, symbols
<1>3. CASE Verdict
  BY <1>1, <1>3 DEF Verdict, TypeInv, TypeOK, inputs, context, symbols
<1>4. CASE WriteOutput
  <2>1. diags' \subseteq DiagnosticSet
    BY <1>1, <1>4, DriverReport DEF TypeOK, WriteOutput, IOError
  <2> QED BY <1>1, <1>4, <2>1
          DEF WriteOutput, TypeInv, TypeOK, inputs, driver, context, symbols
<1>5. CASE UNCHANGED vars
  BY <1>1, <1>5 DEF vars, TypeInv, TypeOK, inputs, driver, context, symbols, ending
<1> QED BY <1>2, <1>3, <1>4, <1>5

\* TypeInv is inductive.
LEMMA TypeInvariant == Spec => []TypeInv
<1>1. TypeInv /\ [Next]_vars => TypeInv'
  BY SwiftType, TargetType, VisitType, EndType, RemainingType, OtherTypes
  DEF Next, DriverStep
<1> QED BY <1>1, InitType, PTL DEF Spec

\* Every variable of the verifier and of the driver keeps its type.
THEOREM TypeCorrect == Spec => []TypeOK
<1>1. TypeInv => TypeOK
  BY DEF TypeInv
<1> QED BY <1>1, TypeInvariant, PTL

(***************************************************************************)
(* The verdict                                                             *)
(***************************************************************************)

\* While the driver runs, an error has been reported exactly when a result will
\* stop it: the two flags that decide the verdict account for every diagnostic.
VerdictInv ==
  /\ Running => tbd = <<>>
  /\ Running => (Errors # {} <=> frontendState = "Invalid" \/ ~passedBinary)
  /\ Running /\ step = "write" => Passed
  /\ StubImpliesNoViolation
  /\ FailureIsReported

\* A consistent report keeps the flags and the errors in step.
LEMMA SettleVerdict ==
  ASSUME Reported, UNCHANGED passedBinary,
         Errors # {} <=> frontendState = "Invalid" \/ ~passedBinary
  PROVE  Errors' # {} <=> frontendState' = "Invalid" \/ ~passedBinary'
<1>1. PICK result, ds : Consistent(result, ds) /\ Settle(result, ds)
  BY DEF Reported
<1>2. Errors' # {} <=> Errors # {} \/ result = "Invalid"
  BY <1>1 DEF Consistent, Settle, Errors
<1>3. frontendState' = "Invalid" <=> frontendState = "Invalid" \/ result = "Invalid"
  BY <1>1 DEF Consistent, Settle, UpdateResult, Results
<1> QED BY <1>2, <1>3

\* The remaining symbols report an error exactly when they fail the binary.
LEMMA RemainingVerdict ==
  ASSUME NEW slice \in Slices
  PROVE  RemainingInvalid(slice) <=>
           \E x \in UNION {RemainingDiagnostics(n, slice) :
                             n \in RemainingViolations(slice)} : x.sev = "err"
<1>1. ASSUME NEW n \in Names
      PROVE  n \in LinkerNames \/ GradedResult = "Invalid" <=>
               \E x \in RemainingDiagnostics(n, slice) : x.sev = "err"
  <2>1. RemainingKind(n, slice) \in Kinds
    BY DEF RemainingKind, Kinds
  <2>2. Consistent(GradedResult, Graded(RemainingKind(n, slice), n, slice))
    BY <2>1, GradedReport
  <2>3. Consistent("Invalid", {Diagnostic("err", RemainingKind(n, slice), n, slice)})
    BY <2>1, ErrorReport
  <2> QED BY <2>2, <2>3 DEF RemainingDiagnostics, Consistent
<1>2. RemainingViolations(slice) \subseteq Names
  BY DEF RemainingViolations
<1> QED BY <1>1, <1>2 DEF RemainingInvalid

\* Nothing has been reported at first.
LEMMA InitVerdict == Init => VerdictInv
BY DEF Init, VerdictInv, Errors, StubImpliesNoViolation, FailureIsReported

\* verifySwift keeps reports and flags in step.
LEMMA SwiftVerdict ==
  ASSUME VerdictInv, verifySwift
  PROVE  VerdictInv'
<1>1. /\ Running /\ tbd' = <<>> /\ step' = "target"
      /\ UNCHANGED <<frontendState, passedBinary>>
  BY DEF verifySwift, VerdictInv
<1>2. CASE SwiftMissing = {} \/ UNCHANGED <<diags, outcome>>
  <2>1. UNCHANGED <<diags, outcome>>
    BY <1>2 DEF verifySwift
  <2> QED BY <1>1, <2>1
          DEF VerdictInv, Errors, Running, StubImpliesNoViolation, FailureIsReported
<1>3. CASE SwiftMissing # {} /\ outcome' = "failed"
           /\ diags' = diags \cup {Diagnostic("err", "swift", m[1], m[2]) : m \in SwiftMissing}
  <2>1. Errors' # {}
    <3>1. PICK m \in SwiftMissing : TRUE
      BY <1>3
    <3>2. Diagnostic("err", "swift", m[1], m[2]) \in Errors'
      BY <1>3, <3>1 DEF Errors, Diagnostic
    <3> QED BY <3>2
  <2> QED BY <1>1, <1>3, <2>1
          DEF VerdictInv, Running, StubImpliesNoViolation, FailureIsReported
<1> QED BY <1>2, <1>3 DEF verifySwift

\* setTarget keeps reports and flags in step.
LEMMA TargetVerdict ==
  ASSUME VerdictInv, setTarget
  PROVE  VerdictInv'
<1>1. /\ Running /\ tbd' = <<>> /\ step' = "frontend" /\ UNCHANGED passedBinary
      /\ outcome' # "failed" /\ Reported
  BY NoReport DEF setTarget, VerdictInv, Running, Reported
<1>2. Errors' # {} <=> frontendState' = "Invalid" \/ ~passedBinary'
  BY <1>1, SettleVerdict DEF VerdictInv
<1> QED BY <1>1, <1>2 DEF VerdictInv, StubImpliesNoViolation, FailureIsReported

\* A visited declaration keeps reports and flags in step.
LEMMA VisitVerdict ==
  ASSUME TypeInv, VerdictInv, NEW n \in Names, NEW d \in Visited, VisitDecl(n, d)
  PROVE  VerdictInv'
<1> DEFINE r == AddGlobal(api[n], d)
<1>1. target \in Targets /\ r \in HeaderRecords
  BY AddGlobalType DEF TypeInv, TypeOK, VisitDecl
<1>2. Reported
  BY <1>1, VerifyEffect DEF VisitDecl, Effect
<1>3. /\ Running /\ tbd' = <<>> /\ step' = "frontend" /\ UNCHANGED <<passedBinary, outcome>>
  BY DEF VisitDecl, VerdictInv, ending
<1>4. Errors' # {} <=> frontendState' = "Invalid" \/ ~passedBinary'
  BY <1>2, <1>3, SettleVerdict DEF VerdictInv
<1> QED BY <1>3, <1>4 DEF VerdictInv, Running, StubImpliesNoViolation, FailureIsReported

\* verifyRemainingSymbols keeps reports and flags in step.
LEMMA RemainingStepVerdict ==
  ASSUME TypeInv, VerdictInv, verifyRemainingSymbols
  PROVE  VerdictInv'
<1> DEFINE slice == FirstSlice(TargetSeq[ti].arch)
           found == UNION {RemainingDiagnostics(n, slice) : n \in RemainingViolations(slice)}
<1>1. slice \in Slices
  BY TargetAt, FirstSliceExists DEF TypeInv, TypeOK
<1>2. /\ Running /\ tbd' = <<>> /\ step' \in {"remaining", "verdict"}
      /\ passedBinary' = (passedBinary /\ ~RemainingInvalid(slice))
      /\ diags' = diags \cup found
      /\ UNCHANGED <<outcome, frontendState>>
  BY DEF verifyRemainingSymbols, VerdictInv, ending
<1> HIDE DEF slice
<1>3. RemainingInvalid(slice) <=> \E x \in found : x.sev = "err"
  BY <1>1, RemainingVerdict
<1> HIDE DEF found
<1>4. Errors' # {} <=> Errors # {} \/ RemainingInvalid(slice)
  BY <1>2, <1>3 DEF Errors
<1>5. Errors' # {} <=> frontendState' = "Invalid" \/ ~passedBinary'
  BY <1>2, <1>4 DEF VerdictInv
<1> QED BY <1>2, <1>5 DEF VerdictInv, Running, StubImpliesNoViolation, FailureIsReported

\* The other steps keep reports and flags in step, and reach success only without an error.
LEMMA OtherVerdicts ==
  ASSUME VerdictInv, EndFrontend \/ FrontendError \/ Verdict \/ WriteOutput \/ UNCHANGED vars
  PROVE  VerdictInv'
<1>1. CASE EndFrontend
  <2>1. /\ Running /\ tbd' = <<>> /\ step' # "write"
        /\ UNCHANGED <<frontendState, passedBinary, diags, outcome>>
    BY <1>1 DEF EndFrontend, VerdictInv, ending
  <2> QED BY <2>1
          DEF VerdictInv, Errors, Running, StubImpliesNoViolation, FailureIsReported
<1>2. CASE FrontendError
  <2>1. tbd' = <<>> /\ outcome' = "failed" /\ Errors' # {}
    <3>1. Diagnostic("err", "frontend", NoName, target) \in Errors'
      BY <1>2 DEF FrontendError, Errors, Diagnostic
    <3> QED BY <1>2, <3>1 DEF FrontendError, VerdictInv
  <2> QED BY <2>1 DEF VerdictInv, Running, StubImpliesNoViolation, FailureIsReported
<1>3. CASE Verdict
  <2>1. /\ Running /\ tbd' = <<>> /\ UNCHANGED <<frontendState, passedBinary, diags>>
    BY <1>3 DEF Verdict, VerdictInv
  <2>2. CASE Passed
    BY <1>3, <2>1, <2>2 DEF Verdict, VerdictInv, Errors, Running, Passed,
       StubImpliesNoViolation, FailureIsReported
  <2>3. CASE ~Passed
    BY <1>3, <2>1, <2>3 DEF Verdict, VerdictInv, Errors, Running, Passed,
       StubImpliesNoViolation, FailureIsReported
  <2> QED BY <2>2, <2>3
<1>4. CASE WriteOutput
  <2>1. /\ Errors = {} /\ outcome' # "running"
        /\ \/ UNCHANGED diags /\ outcome' = "success"
           \/ IOError
    BY <1>4 DEF WriteOutput, VerdictInv, Passed
  <2>2. CASE UNCHANGED diags /\ outcome' = "success"
    BY <2>1, <2>2 DEF VerdictInv, Errors, Running, StubImpliesNoViolation, FailureIsReported
  <2>3. CASE IOError
    <3>1. Errors' = {Diagnostic("err", "io", NoName, target)}
      BY <2>1, <2>3 DEF Errors, IOError, Diagnostic
    <3> QED BY <2>1, <3>1
            DEF VerdictInv, Running, Diagnostic, StubImpliesNoViolation, FailureIsReported
  <2> QED BY <2>1, <2>2, <2>3
<1>5. CASE UNCHANGED vars
  BY <1>5 DEF vars, driver, ending, VerdictInv, Errors, Running, Passed,
              StubImpliesNoViolation, FailureIsReported
<1> QED BY <1>1, <1>2, <1>3, <1>4, <1>5

\* VerdictInv is inductive, given the types.
LEMMA VerdictInvariant == Spec => []VerdictInv
<1>1. TypeInv /\ VerdictInv /\ [Next]_vars => VerdictInv'
  BY SwiftVerdict, TargetVerdict, VisitVerdict, RemainingStepVerdict, OtherVerdicts
  DEF Next, DriverStep
<1> QED BY <1>1, InitVerdict, TypeInvariant, PTL DEF Spec

\* A text stub is written only when no check of any target, pass or slice has
\* reported an error: updateResult never loses an Invalid result, and every
\* error comes with one (InstallAPIDriver.cpp 1165-1180).
THEOREM VerdictSound == Spec => []StubImpliesNoViolation
<1>1. VerdictInv => StubImpliesNoViolation
  BY DEF VerdictInv
<1> QED BY <1>1, VerdictInvariant, PTL

\* A failed run has reported an error, in every mode.
THEOREM FailureReported == Spec => []FailureIsReported
<1>1. VerdictInv => FailureIsReported
  BY DEF VerdictInv
<1> QED BY <1>1, VerdictInvariant, PTL

(***************************************************************************)
(* The exports                                                             *)
(***************************************************************************)

\* While headers are verified, the slice in the context is the one of the target.
ContextInv == step = "frontend" /\ options.verifyAgainst => dylibAPI = target

\* While declarations are visited the context is that of the current target.
LEMMA ContextStep ==
  ASSUME ContextInv, [Next]_vars
  PROVE  ContextInv'
<1>1. CASE setTarget
  BY <1>1 DEF setTarget, ContextInv, lookupDylib, inputs
<1>2. CASE \E n \in Names, d \in Visited : VisitDecl(n, d)
  BY <1>2 DEF VisitDecl, ContextInv, inputs, context
<1>3. CASE EndFrontend
  BY <1>3 DEF EndFrontend, ContextInv, inputs, context
<1>4. CASE verifySwift \/ verifyRemainingSymbols
  BY <1>4 DEF verifySwift, verifyRemainingSymbols, ContextInv
<1>5. CASE FrontendError \/ Verdict \/ WriteOutput \/ UNCHANGED vars
  BY <1>5 DEF FrontendError, Verdict, WriteOutput, vars, ContextInv, inputs, driver, context
<1> QED BY <1>1, <1>2, <1>3, <1>4, <1>5 DEF Next, DriverStep

\* Every action but VisitDecl leaves the exports, the inputs and the history alone.
LEMMA ExportsKept ==
  ASSUME [Next]_vars, ~\E n \in Names, d \in Visited : VisitDecl(n, d)
  PROVE  UNCHANGED <<options, dylib, exports, declared>>
BY DEF Next, DriverStep, verifySwift, setTarget, EndFrontend, verifyRemainingSymbols,
       Verdict, WriteOutput, FrontendError, vars, inputs, symbols

\* A visited declaration publishes only what a declaration and the slice back.
LEMMA VisitBacked ==
  ASSUME TypeInv, ContextInv, ExportsBacked,
         NEW n \in Names, NEW d \in Visited, VisitDecl(n, d)
  PROVE  ExportsBacked'
<1> DEFINE r == AddGlobal(api[n], d)
           record == [name |-> n, target |-> target, record |-> r]
<1>1. /\ target \in Targets /\ r \in HeaderRecords
      /\ exports \in [Names -> [flags: Flags, targets: SUBSET Targets]]
  BY AddGlobalType DEF TypeInv, TypeOK, VisitDecl
<1>2. /\ declared' = declared \cup {record} /\ UNCHANGED <<options, dylib>>
      /\ options.verifyAgainst => dylibAPI = target
      /\ verifyImpl(n, r)
  BY DEF VisitDecl, ContextInv, inputs
<1> HIDE DEF r
<1>3. exports' = exports \/ Publish(n, r)
  BY <1>1, <1>2, VerifyEffect DEF Effect
<1>4. CASE exports' = exports
  BY <1>2, <1>4 DEF ExportsBacked
<1>5. CASE Publish(n, r)
  <2> SUFFICES ASSUME NEW m \in Names, NEW t \in exports'[m].targets
               PROVE  /\ \E x \in declared' : /\ x.name = m /\ x.target = t
                                              /\ x.record.linkage = "Exported"
                                              /\ x.record.avail = "available"
                      /\ options.verifyAgainst => dylib[t.arch][m].linkage = "Exported"
    BY <1>2 DEF ExportsBacked
  <2>1. CASE t \in exports[m].targets
    BY <1>2, <2>1 DEF ExportsBacked
  <2>2. CASE t \notin exports[m].targets
    <3>1. m = n /\ t = target
      <4>1. exports' = [exports EXCEPT ![n] =
                [flags   |-> IF exports[n].targets = {} THEN r.flags ELSE exports[n].flags,
                 targets |-> exports[n].targets \cup {target}]]
        BY <1>5 DEF Publish, AddSymbol
      <4>2. m = n
        BY <1>1, <2>2, <4>1
      <4>3. exports'[n].targets = exports[n].targets \cup {target}
        BY <1>1, <4>1
      <4> QED BY <2>2, <4>2, <4>3
    <3>2. record \in declared' /\ record.record.linkage = "Exported"
          /\ record.record.avail = "available"
      BY <1>2, <1>5 DEF Publish
    <3>3. options.verifyAgainst => dylib[target.arch][n].linkage = "Exported"
      BY <1>2, <1>5 DEF Publish
    <3> QED BY <3>1, <3>2, <3>3
  <2> QED BY <2>1, <2>2
<1> QED BY <1>3, <1>4, <1>5

\* Each target a symbol is published for saw an exported, available declaration
\* of it, and the slice of that architecture exports it.
THEOREM ExportsAreBacked == Spec => []ExportsBacked
<1>1. Init => ContextInv /\ ExportsBacked
  BY DEF Init, ContextInv, ExportsBacked
<1>2. TypeInv /\ ContextInv /\ ExportsBacked /\ [Next]_vars
        => (ContextInv /\ ExportsBacked)'
  <2> SUFFICES ASSUME TypeInv, ContextInv, ExportsBacked, [Next]_vars
               PROVE  (ContextInv /\ ExportsBacked)'
    OBVIOUS
  <2>1. ContextInv'
    BY ContextStep
  <2>2. CASE \E n \in Names, d \in Visited : VisitDecl(n, d)
    BY <2>1, <2>2, VisitBacked
  <2>3. CASE ~\E n \in Names, d \in Visited : VisitDecl(n, d)
    BY <2>1, <2>3, ExportsKept DEF ExportsBacked
  <2> QED BY <2>2, <2>3
<1> QED BY <1>1, <1>2, TypeInvariant, PTL DEF Spec

(***************************************************************************)
(* Nothing is taken back                                                   *)
(***************************************************************************)

\* A report does not take an Invalid frontend back.
LEMMA ReportMonotone ==
  ASSUME Reported
  PROVE  frontendState = "Invalid" => frontendState' = "Invalid"
BY DEF Reported, Settle, UpdateResult

\* A visited declaration takes nothing back.
LEMMA VisitMonotone ==
  ASSUME TypeInv, NEW n \in Names, NEW d \in Visited, VisitDecl(n, d)
  PROVE  Monotone
<1> DEFINE r == AddGlobal(api[n], d)
<1>1. /\ target \in Targets /\ r \in HeaderRecords
      /\ exports \in [Names -> [flags: Flags, targets: SUBSET Targets]]
  BY AddGlobalType DEF TypeInv, TypeOK, VisitDecl
<1>2. verifyImpl(n, r) /\ UNCHANGED passedBinary
  BY DEF VisitDecl
<1> HIDE DEF r
<1>3. Effect(n, r)
  BY <1>1, <1>2, VerifyEffect
<1>4. ASSUME NEW m \in Names
      PROVE  /\ exports[m].targets \subseteq exports'[m].targets
             /\ exports[m].targets # {} => exports'[m].flags = exports[m].flags
  <2>1. CASE exports' = exports
    BY <2>1
  <2>2. CASE Publish(n, r)
    <3>1. exports' = [exports EXCEPT ![n] =
              [flags   |-> IF exports[n].targets = {} THEN r.flags ELSE exports[n].flags,
               targets |-> exports[n].targets \cup {target}]]
      BY <2>2 DEF Publish, AddSymbol
    <3>2. CASE m = n
      BY <1>1, <3>1, <3>2
    <3>3. CASE m # n
      BY <1>1, <3>1, <3>3
    <3> QED BY <3>2, <3>3
  <2> QED BY <1>3, <2>1, <2>2 DEF Effect
<1>5. frontendState = "Invalid" => frontendState' = "Invalid"
  BY <1>3, ReportMonotone DEF Effect
<1> QED BY <1>2, <1>4, <1>5 DEF Monotone

\* No step takes anything back.
LEMMA StepMonotone ==
  ASSUME TypeInv, [Next]_vars
  PROVE  Monotone
<1>1. CASE \E n \in Names, d \in Visited : VisitDecl(n, d)
  BY <1>1, VisitMonotone
<1>2. CASE ~\E n \in Names, d \in Visited : VisitDecl(n, d)
  <2>1. UNCHANGED exports
    BY <1>2, ExportsKept
  <2>2. frontendState = "Invalid" => frontendState' = "Invalid"
    <3>1. CASE setTarget
      BY <3>1, NoReport, ReportMonotone DEF setTarget, Reported
    <3>2. CASE ~setTarget
      BY <1>2, <3>2 DEF Next, DriverStep, verifySwift, EndFrontend, verifyRemainingSymbols,
         Verdict, WriteOutput, FrontendError, vars
    <3> QED BY <3>1, <3>2
  <2>3. ~passedBinary => ~passedBinary'
    BY <1>2 DEF Next, DriverStep, verifySwift, setTarget, EndFrontend, verifyRemainingSymbols,
       Verdict, WriteOutput, FrontendError, vars
  <2> QED BY <2>1, <2>2, <2>3 DEF Monotone
<1> QED BY <1>1, <1>2

\* An Invalid result stays, a failed binary stays failed, and a published
\* target or flag is never taken back, in any step.
THEOREM NeverRetracts == Spec => NoRetraction
<1>1. TypeInv /\ [Next]_vars => [Monotone]_vars
  BY StepMonotone
<1> QED BY <1>1, TypeInvariant, PTL DEF Spec, NoRetraction

(***************************************************************************)
(* Agreement of the headers and the dylib                                  *)
(***************************************************************************)

\* As long as no result is Invalid, every verified record agrees; and a run
\* succeeds only then.
AgreementInv ==
  /\ options.verifyAgainst /\ frontendState # "Invalid" => \A x \in declared : Agrees(x)
  /\ outcome = "success" => frontendState # "Invalid"

\* Once Invalid, the frontend stays Invalid.
LEMMA InvalidSettles ==
  ASSUME NEW ds, Settle("Invalid", ds)
  PROVE  frontendState' = "Invalid"
BY DEF Settle, UpdateResult

\* A graded mismatch makes the pedantic frontend Invalid.
LEMMA GradedSettles ==
  ASSUME NEW ds, Settle(GradedResult, ds), options.mode = "Pedantic"
  PROVE  frontendState' = "Invalid"
BY DEF Settle, UpdateResult, GradedResult

\* A visibility check that does not settle on Invalid found what Agrees asks.
LEMMA VisibilityAgrees ==
  ASSUME NEW n, NEW r \in HeaderRecords, NEW d,
         checkVisibility(n, r, d), frontendState' # "Invalid"
  PROVE  /\ r.linkage = "Exported" /\ r.avail = "available" =>
              d.linkage = "Exported" /\ d.flags = r.flags
         /\ options.mode = "Pedantic" /\ ~isZippered =>
              /\ r.avail = "unavailable" /\ ~r.inlined /\ r.storage = "function"
                   => d.linkage # "Exported"
              /\ r.avail = "available" /\ r.linkage = "Internal" /\ ~r.inlined
                   /\ r.storage = "function" => d.linkage # "Exported"
<1>1. CASE r.linkage = "Exported" /\ d.linkage # "Exported"
  BY <1>1, InvalidSettles DEF checkVisibility
<1>2. CASE r.linkage = "Internal" /\ ~r.inlined /\ d.linkage = "Exported"
  <2>1. HiddenDeclaration(n, r)
    BY <1>2 DEF checkVisibility
  <2>2. ~(options.mode = "Pedantic" /\ ~isZippered /\ r.storage = "function")
    <3> SUFFICES ASSUME options.mode = "Pedantic", ~isZippered, r.storage = "function"
                 PROVE  FALSE
      OBVIOUS
    <3>1. \A privateExtern \in PrivateExternRead(r) : ~privateExtern
      BY DEF PrivateExternRead
    <3>2. ~shouldIgnoreZipperedSymbol(n)
      BY DEF shouldIgnoreZipperedSymbol
    <3>3. Settle(GradedResult, Graded("header hidden", n, target))
      BY <2>1, <3>1, <3>2 DEF HiddenDeclaration
    <3> QED BY <3>3, GradedSettles
  <2> QED BY <1>2, <2>2
<1>3. CASE r.linkage = "Internal" /\ (r.inlined \/ d.linkage # "Exported")
  BY <1>3
<1>4. CASE r.linkage = "Exported" /\ d.linkage = "Exported"
  <2>1. checkAvailability(n, r, d)
    BY <1>4 DEF checkVisibility
  <2>2. CASE r.avail = "available" /\ checkSymbolFlags(n, r, d)
    BY <1>4, <2>2, InvalidSettles DEF checkSymbolFlags
  <2>3. CASE r.avail = "unavailable" /\ isZippered
    BY <1>4, <2>3
  <2>4. CASE r.avail = "unavailable" /\ ~isZippered
             /\ Settle(GradedResult, Graded("availability", n, target))
    BY <1>4, <2>4, GradedSettles
  <2> QED BY <2>1, <2>2, <2>3, <2>4 DEF checkAvailability
<1> QED BY <1>1, <1>2, <1>3, <1>4 DEF checkVisibility

\* A visited declaration that does not make the frontend Invalid agrees with the slice.
LEMMA VisitAgrees ==
  ASSUME TypeInv, ContextInv, AgreementInv,
         NEW n \in Names, NEW d \in Visited, VisitDecl(n, d)
  PROVE  AgreementInv'
<1> DEFINE r == AddGlobal(api[n], d)
           record == [name |-> n, target |-> target, record |-> r]
<1>1. target \in Targets /\ r \in HeaderRecords
  BY AddGlobalType DEF TypeInv, TypeOK, VisitDecl
<1>2. /\ declared' = declared \cup {record} /\ UNCHANGED <<options, dylib, outcome>>
      /\ options.verifyAgainst => dylibAPI = target
      /\ verifyImpl(n, r) /\ outcome = "running"
  BY DEF VisitDecl, ContextInv, inputs, ending, Running
<1>3. frontendState' # "Invalid" => frontendState # "Invalid"
  BY VisitMonotone DEF Monotone
<1> HIDE DEF r
<1>4. ASSUME options.verifyAgainst, frontendState' # "Invalid"
      PROVE  Agrees(record)
  <2> SUFFICES ASSUME n \in LinkerNames \/ n \notin Reexports[target]
               PROVE  Agrees(record)
    BY DEF Agrees
  <2> DEFINE e == dylib[target.arch][n]
  <2>1. VerifyAgainstDylib(n, r, e)
    BY <1>2, <1>4 DEF verifyImpl, shouldIgnoreReexport
  <2> HIDE DEF e
  <2>2. CASE r.avail = "obsolete"
    BY <2>2 DEF Agrees
  <2>3. CASE r.avail = "unavailable" /\ e.linkage # "Exported"
    BY <2>3 DEF Agrees, e
  <2>4. CASE checkVisibility(n, r, e)
    BY <1>1, <1>4, <2>4, VisibilityAgrees DEF Agrees, e
  <2> QED BY <2>1, <2>2, <2>3, <2>4 DEF VerifyAgainstDylib
<1>5. ASSUME NEW x PROVE Agrees(x)' <=> Agrees(x)
  BY <1>2 DEF Agrees
<1>6. ASSUME options.verifyAgainst', frontendState' # "Invalid", NEW x \in declared'
      PROVE  Agrees(x)'
  <2>1. CASE x \in declared
    BY <1>2, <1>3, <1>5, <1>6, <2>1 DEF AgreementInv
  <2>2. CASE x = record
    BY <1>2, <1>4, <1>5, <1>6, <2>2
  <2> QED BY <1>2, <1>6, <2>1, <2>2
<1>7. outcome' # "success"
  BY <1>2
<1> QED BY <1>6, <1>7 DEF AgreementInv

\* Whatever the mode, a successful run leaves no declaration that disagrees with
\* the slice of its target.
THEOREM AgreementOnSuccess == Spec => []SuccessMeansAgreement
<1>1. Init => ContextInv /\ AgreementInv
  BY DEF Init, ContextInv, AgreementInv
<1>2. TypeInv /\ VerdictInv /\ ContextInv /\ AgreementInv /\ [Next]_vars
        => (ContextInv /\ AgreementInv)'
  <2> SUFFICES ASSUME TypeInv, VerdictInv, ContextInv, AgreementInv, [Next]_vars
               PROVE  (ContextInv /\ AgreementInv)'
    OBVIOUS
  <2>1. ContextInv'
    BY ContextStep
  <2>2. CASE \E n \in Names, d \in Visited : VisitDecl(n, d)
    BY <2>1, <2>2, VisitAgrees
  <2>3. CASE ~\E n \in Names, d \in Visited : VisitDecl(n, d)
    <3>1. UNCHANGED <<options, dylib, declared>>
      BY <2>3, ExportsKept
    <3>2. frontendState' # "Invalid" => frontendState # "Invalid"
      BY StepMonotone DEF Monotone
    <3>3. options.verifyAgainst' /\ frontendState' # "Invalid" => \A x \in declared' : Agrees(x)'
      BY <3>1, <3>2 DEF AgreementInv, Agrees
    <3>4. outcome' = "success" => frontendState' # "Invalid"
      <4>1. CASE WriteOutput
        BY <4>1 DEF WriteOutput, VerdictInv, Passed
      <4>2. CASE UNCHANGED vars
        BY <4>2 DEF vars, ending, AgreementInv
      <4>3. CASE ~WriteOutput /\ ~UNCHANGED vars
        BY <2>3, <4>3 DEF Next, DriverStep, verifySwift, setTarget, EndFrontend,
           verifyRemainingSymbols, Verdict, FrontendError, Running, ending
      <4> QED BY <4>1, <4>2, <4>3
    <3> QED BY <2>1, <3>3, <3>4 DEF AgreementInv
  <2> QED BY <2>2, <2>3
<1>3. AgreementInv => SuccessMeansAgreement
  BY DEF AgreementInv, SuccessMeansAgreement
<1> QED BY <1>1, <1>2, <1>3, TypeInvariant, VerdictInvariant, PTL DEF Spec

(***************************************************************************)
(* What a mark in the dylib stands for                                     *)
(***************************************************************************)

\* The declaration x accounts for the mark of n in slice s: it is exempt, the
\* slice does not export n, or n was published, refused or deferred.
Explains(x, n, s) ==
  /\ x.name = n /\ x.target = s
  /\ \/ x.record.avail = "obsolete" \/ x.record.linkage = "Internal"
     \/ dylib[s.arch][n].linkage # "Exported"
     \/ s \in exports[n].targets
     \/ options.mode = "Pedantic" => frontendState = "Invalid"
     \/ [target |-> s, obsolete |-> FALSE] \in ignoredZipperedRecords[n]

MarksExplained ==
  \A s \in Slices : \A n \in verified[s] :
     n \in SwiftNames \/ \E x \in declared : Explains(x, n, s)

\* The dylib has a symbol that x must mark: it is not left to a reexport.
MustMark(x) ==
  /\ x.name \in LinkerNames \/ x.name \notin Reexports[x.target]
  /\ dylib[x.target.arch][x.name].linkage # "Absent"

DeclaredMarked ==
  options.verifyAgainst =>
    \A x \in declared : MustMark(x) =>
      x.target \in Slices /\ x.name \in verified[x.target]

LinkageKnown == \A n \in Names : api[n] = NoRecord \/ api[n].linkage # "Unknown"

DeferredDeclared ==
  \A n \in Names : \A e \in ignoredZipperedRecords[n] :
    e.obsolete => \E y \in declared : y.name = n /\ y.record.avail = "obsolete"

SliceInv ==
  Running /\ step = "frontend" /\ options.verifyAgainst => target \in Slices

HistoryInv ==
  MarksExplained /\ DeclaredMarked /\ LinkageKnown /\ DeferredDeclared /\ SliceInv

\* A merged record has a known linkage when its parts have.
LEMMA AddGlobalLinkage ==
  ASSUME NEW old \in HeaderRecords, old = NoRecord \/ old.linkage # "Unknown",
         NEW d \in Visited
  PROVE  AddGlobal(old, d).linkage # "Unknown"
BY BoundAssumption DEF BoundAssumption, Declarations, AddGlobal, HeaderRecords

\* A record that the slice holds is exempt, published, refused or deferred.
LEMMA VerifyExplains ==
  ASSUME TypeOK, NEW n \in Names, NEW r \in HeaderRecords, r.linkage # "Unknown",
         target \in Targets, NEW d, VerifyAgainstDylib(n, r, d)
  PROVE  \/ r.avail = "obsolete" \/ r.linkage = "Internal" \/ d.linkage # "Exported"
         \/ target \in exports'[n].targets
         \/ options.mode = "Pedantic" => frontendState' = "Invalid"
         \/ [target |-> target, obsolete |-> FALSE] \in ignoredZipperedRecords'[n]
<1> SUFFICES ASSUME r.avail # "obsolete", r.linkage = "Exported", d.linkage = "Exported"
             PROVE  \/ target \in exports'[n].targets
                    \/ options.mode = "Pedantic" => frontendState' = "Invalid"
                    \/ [target |-> target, obsolete |-> FALSE]
                         \in ignoredZipperedRecords'[n]
  BY DEF HeaderRecords
<1>1. checkAvailability(n, r, d)
  BY DEF VerifyAgainstDylib, checkVisibility
<1>2. CASE r.avail = "available" /\ checkSymbolFlags(n, r, d)
  <2>1. CASE r.flags # d.flags
    BY <1>2, <2>1, InvalidSettles DEF checkSymbolFlags
  <2>2. CASE AddSymbol(n, r)
    <3>1. exports \in [Names -> [flags: Flags, targets: SUBSET Targets]]
      BY DEF TypeOK
    <3> QED BY <2>2, <3>1 DEF AddSymbol
  <2> QED BY <1>2, <2>1, <2>2 DEF checkSymbolFlags
<1>3. CASE r.avail = "unavailable" /\ isZippered /\ DeferZippered(n, r)
  <2>1. ignoredZipperedRecords \in [Names -> SUBSET [target: Targets, obsolete: BOOLEAN]]
    BY DEF TypeOK
  <2> QED BY <1>3, <2>1 DEF DeferZippered
<1>4. CASE Settle(GradedResult, Graded("availability", n, target))
  BY <1>4, GradedSettles
<1> QED BY <1>1, <1>2, <1>3, <1>4 DEF checkAvailability

\* An explanation of a mark lasts: nothing it rests on is taken back.
LEMMA ExplanationKept ==
  ASSUME NEW x, NEW n \in Names, NEW s, Explains(x, n, s), Monotone,
         UNCHANGED <<options, dylib>>,
         ignoredZipperedRecords[n] \subseteq ignoredZipperedRecords'[n]
  PROVE  Explains(x, n, s)'
BY DEF Explains, Monotone

\* Of the symbols a visit changes, only those of n change, and they only grow.
LEMMA VisitSymbols ==
  ASSUME TypeInv, NEW n \in Names, NEW r \in HeaderRecords, target \in Targets,
         verifyImpl(n, r)
  PROVE  /\ \A m \in Names : ignoredZipperedRecords[m] \subseteq ignoredZipperedRecords'[m]
         /\ \A m \in Names : \A e \in ignoredZipperedRecords'[m] :
              \/ e \in ignoredZipperedRecords[m]
              \/ m = n /\ (e.obsolete => r.avail = "obsolete")
<1>1. ignoredZipperedRecords \in [Names -> SUBSET [target: Targets, obsolete: BOOLEAN]]
  BY DEF TypeInv, TypeOK
<1>2. ignoredZipperedRecords' = ignoredZipperedRecords \/ DeferZippered(n, r)
  BY VerifyEffect DEF Effect
<1> DEFINE entry == [target |-> target, obsolete |-> r.avail = "obsolete"]
<1>3. \/ ignoredZipperedRecords' = ignoredZipperedRecords
      \/ ignoredZipperedRecords' = [ignoredZipperedRecords EXCEPT ![n] = @ \cup {entry}]
  BY <1>2 DEF DeferZippered
<1>4. entry.obsolete => r.avail = "obsolete"
  OBVIOUS
<1> HIDE DEF entry
<1> QED BY <1>1, <1>3, <1>4

\* A visited declaration keeps the history: each mark it makes, it explains.
LEMMA VisitHistory ==
  ASSUME TypeInv, ContextInv, HistoryInv,
         NEW n \in Names, NEW d \in Visited, VisitDecl(n, d)
  PROVE  HistoryInv'
<1>0. PICK r, record :
        /\ r = AddGlobal(api[n], d)
        /\ record = [name |-> n, target |-> target, record |-> r]
  OBVIOUS
<1> DEFINE e == dylib[dylibAPI.arch][n]
<1>1. /\ TypeOK /\ target \in Targets /\ api[n] \in HeaderRecords /\ r \in HeaderRecords
      /\ verified \in [Slices -> SUBSET Names]
      /\ api \in [Names -> HeaderRecords]
  BY <1>0, AddGlobalType DEF TypeInv, TypeOK, VisitDecl
<1>2. r.linkage # "Unknown"
  BY <1>0, <1>1, AddGlobalLinkage DEF HistoryInv, LinkageKnown
<1>3. /\ declared' = declared \cup {record} /\ UNCHANGED <<options, dylib, target, step>>
      /\ options.verifyAgainst => dylibAPI = target /\ target \in Slices
      /\ verifyImpl(n, r) /\ api' = [api EXCEPT ![n] = r]
      /\ UNCHANGED outcome
  BY <1>0 DEF VisitDecl, ContextInv, HistoryInv, SliceInv, inputs, context, ending
<1> HIDE DEF e
<1>4. /\ Monotone
      /\ \A m \in Names : ignoredZipperedRecords[m] \subseteq ignoredZipperedRecords'[m]
      /\ \A m \in Names : \A i \in ignoredZipperedRecords'[m] :
           \/ i \in ignoredZipperedRecords[m]
           \/ m = n /\ (i.obsolete => r.avail = "obsolete")
  BY <1>1, <1>3, VisitMonotone, VisitSymbols
<1>5. \/ ~options.verifyAgainst /\ verified' = verified
      \/ shouldIgnoreReexport(n) /\ verified' = verified
      \/ options.verifyAgainst /\ VerifyAgainstDylib(n, r, e)
  BY <1>3 DEF verifyImpl, AccumulateSymbol, symbols, e
<1>6. MarksExplained'
  <2> SUFFICES ASSUME NEW s \in Slices, NEW m \in verified'[s]
               PROVE  m \in SwiftNames \/ \E x \in declared' : Explains(x, m, s)'
    BY DEF MarksExplained
  <2>1. CASE m \in verified[s]
    <3>1. m \in Names
      BY <1>1, <2>1
    <3>2. CASE m \in SwiftNames
      BY <3>2
    <3>3. ASSUME NEW x \in declared, Explains(x, m, s)
          PROVE  Explains(x, m, s)'
      BY <1>3, <1>4, <3>1, <3>3, ExplanationKept
    <3> QED BY <1>3, <2>1, <3>2, <3>3 DEF HistoryInv, MarksExplained
  <2>2. CASE m \notin verified[s]
    <3>1. options.verifyAgainst /\ VerifyAgainstDylib(n, r, e)
      BY <1>5, <2>2
    <3>2. verified' = verified \/ verified' = [verified EXCEPT ![dylibAPI] = @ \cup {n}]
      BY <3>1 DEF VerifyAgainstDylib
    <3>3. m = n /\ s = dylibAPI /\ s = target
      BY <1>1, <1>3, <2>2, <3>1, <3>2
    <3>4. Explains(record, n, target)'
      <4>1. \/ r.avail = "obsolete" \/ r.linkage = "Internal" \/ e.linkage # "Exported"
            \/ target \in exports'[n].targets
            \/ options.mode = "Pedantic" => frontendState' = "Invalid"
            \/ [target |-> target, obsolete |-> FALSE] \in ignoredZipperedRecords'[n]
        BY <1>1, <1>2, <3>1, VerifyExplains
      <4>2. e = dylib[target.arch][n]
        BY <3>3 DEF e
      <4> QED BY <1>0, <1>3, <4>1, <4>2 DEF Explains
    <3>5. Explains(record, m, s)'
      BY <1>3, <3>3, <3>4
    <3> QED BY <1>3, <3>5
  <2> QED BY <2>1, <2>2
<1>7. DeclaredMarked'
  <2> SUFFICES ASSUME options.verifyAgainst, NEW x \in declared', MustMark(x)
               PROVE  x.target \in Slices /\ x.name \in verified'[x.target]
    BY <1>3 DEF DeclaredMarked, MustMark
  <2>1. \A s \in Slices : verified[s] \subseteq verified'[s]
    BY <1>1, <1>5 DEF VerifyAgainstDylib
  <2>2. CASE x \in declared
    BY <2>1, <2>2 DEF HistoryInv, DeclaredMarked
  <2>3. CASE x = record
    <3>1. e.linkage # "Absent" /\ ~shouldIgnoreReexport(n)
      BY <1>0, <1>3, <2>3 DEF MustMark, shouldIgnoreReexport, e
    <3>2. verified' = [verified EXCEPT ![dylibAPI] = @ \cup {n}]
      BY <1>5, <3>1 DEF VerifyAgainstDylib
    <3> QED BY <1>0, <1>1, <1>3, <2>3, <3>2
  <2> QED BY <1>3, <2>2, <2>3
<1>8. LinkageKnown'
  BY <1>1, <1>2, <1>3 DEF HistoryInv, LinkageKnown
<1>9. DeferredDeclared'
  <2> SUFFICES ASSUME NEW m \in Names, NEW i \in ignoredZipperedRecords'[m], i.obsolete
               PROVE  \E y \in declared' : y.name = m /\ y.record.avail = "obsolete"
    BY DEF DeferredDeclared
  <2>1. CASE i \in ignoredZipperedRecords[m]
    BY <1>3, <2>1 DEF HistoryInv, DeferredDeclared
  <2>2. CASE m = n /\ r.avail = "obsolete"
    <3>1. record \in declared' /\ record.name = m /\ record.record.avail = "obsolete"
      BY <1>0, <1>3, <2>2
    <3> QED BY <3>1
  <2> QED BY <1>4, <2>1, <2>2
<1>10. SliceInv'
  BY <1>3 DEF HistoryInv, SliceInv, Running
<1> QED BY <1>6, <1>7, <1>8, <1>9, <1>10 DEF HistoryInv

\* The other steps mark nothing but what the Swift interface files list, and
\* setTarget leaves no run going whose slice the dylib lacks.
LEMMA OtherHistory ==
  ASSUME TypeInv, HistoryInv, [Next]_vars,
         ~\E n \in Names, d \in Visited : VisitDecl(n, d)
  PROVE  HistoryInv'
<1>1. /\ UNCHANGED <<options, dylib, exports, declared>> /\ Monotone
      /\ verified \in [Slices -> SUBSET Names]
  BY ExportsKept, StepMonotone DEF TypeInv, TypeOK
<1>2. /\ UNCHANGED ignoredZipperedRecords
      /\ api' = api \/ api' = EmptyAPI
  BY DEF Next, DriverStep, verifySwift, setTarget, EndFrontend, verifyRemainingSymbols,
     Verdict, WriteOutput, FrontendError, vars, driver, symbols
<1>3. verified' = verified \/ verifySwift
  BY DEF Next, DriverStep, setTarget, EndFrontend, verifyRemainingSymbols,
     Verdict, WriteOutput, FrontendError, vars, symbols
<1>4. \A s \in Slices : /\ verified[s] \subseteq verified'[s]
                        /\ verified'[s] \subseteq verified[s] \cup SwiftNames
  <2>1. CASE verified' = verified
    BY <2>1
  <2>2. CASE verified' = [s \in Slices |-> verified[s] \cup
               {n \in SwiftInterface[s] : dylib[s.arch][n].linkage # "Absent"}]
    BY <2>2 DEF SwiftNames
  <2> QED BY <1>3, <2>1, <2>2 DEF verifySwift
<1>5. MarksExplained'
  <2> SUFFICES ASSUME NEW s \in Slices, NEW m \in verified'[s], m \notin SwiftNames
               PROVE  \E x \in declared' : Explains(x, m, s)'
    BY DEF MarksExplained
  <2>1. m \in verified[s] /\ m \in Names
    BY <1>1, <1>4
  <2>2. PICK x \in declared : Explains(x, m, s)
    BY <2>1 DEF HistoryInv, MarksExplained
  <2>3. ignoredZipperedRecords[m] \subseteq ignoredZipperedRecords'[m]
    BY <1>2
  <2>4. UNCHANGED <<options, dylib>>
    BY <1>1
  <2>5. Explains(x, m, s)'
    BY <1>1, <2>1, <2>2, <2>3, <2>4, ExplanationKept
  <2> QED BY <1>1, <2>5
<1>6. DeclaredMarked'
  BY <1>1, <1>4 DEF HistoryInv, DeclaredMarked, MustMark
<1>7. LinkageKnown'
  BY <1>2 DEF HistoryInv, LinkageKnown, EmptyAPI
<1>8. DeferredDeclared'
  BY <1>1, <1>2 DEF HistoryInv, DeferredDeclared
<1>9. SliceInv'
  <2>1. CASE setTarget
    BY <1>1, <2>1 DEF setTarget, SliceInv, Running
  <2>2. CASE ~setTarget
    BY <2>2 DEF HistoryInv, SliceInv, Running, Next, DriverStep, verifySwift, EndFrontend,
       verifyRemainingSymbols, Verdict, WriteOutput, FrontendError, vars, inputs, driver,
       context, ending
  <2> QED BY <2>1, <2>2
<1> QED BY <1>5, <1>6, <1>7, <1>8, <1>9 DEF HistoryInv

\* HistoryInv is inductive, given the types and the context.
LEMMA HistoryInvariant == Spec => [](ContextInv /\ HistoryInv)
<1>1. Init => ContextInv /\ HistoryInv
  BY DEF Init, ContextInv, HistoryInv, MarksExplained, DeclaredMarked, LinkageKnown,
     DeferredDeclared, SliceInv, EmptyAPI
<1>2. TypeInv /\ ContextInv /\ HistoryInv /\ [Next]_vars => (ContextInv /\ HistoryInv)'
  <2> SUFFICES ASSUME TypeInv, ContextInv, HistoryInv, [Next]_vars
               PROVE  (ContextInv /\ HistoryInv)'
    OBVIOUS
  <2>1. ContextInv'
    BY ContextStep
  <2>2. HistoryInv'
    BY VisitHistory, OtherHistory
  <2> QED BY <2>1, <2>2
<1> QED BY <1>1, <1>2, TypeInvariant, PTL DEF Spec

(***************************************************************************)
(* Symbols reported as undeclared                                          *)
(***************************************************************************)

\* Such a report is made when every header of every target has been read.
UndeclaredInv ==
  /\ \A d \in diags : d.kind = "undeclared" => step \in {"remaining", "verdict", "write"}
  /\ UndeclaredIsUnknown

\* The verification of a declaration reports no symbol as undeclared.
LEMMA VerifyKinds ==
  ASSUME NEW n, NEW r \in HeaderRecords, verifyImpl(n, r)
  PROVE  \A d \in diags' : d \in diags \/ d.kind # "undeclared"
<1> DEFINE Silent(ds) == \A d \in ds : d.kind # "undeclared"
<1>1. \A ds : diags' = diags \cup ds /\ Silent(ds)
        => \A d \in diags' : d \in diags \/ d.kind # "undeclared"
  OBVIOUS
<1>2. /\ Silent({})
      /\ \A k, s, t : k # "undeclared" => Silent({Diagnostic(s, k, n, t)})
      /\ \A k, t : k # "undeclared" => Silent(Graded(k, n, t))
  BY DEF Diagnostic, Graded
<1> HIDE DEF Silent
<1> SUFFICES \E result, ds : Settle(result, ds) /\ Silent(ds)
  BY <1>1 DEF Settle
<1>3. CASE Settle("Ignore", {}) \/ Settle("Valid", {})
  BY <1>2, <1>3
<1>4. ASSUME NEW d, checkAvailability(n, r, d)
      PROVE  \E result, ds : Settle(result, ds) /\ Silent(ds)
  <2>1. CASE checkSymbolFlags(n, r, d)
    BY <1>2, <2>1 DEF checkSymbolFlags
  <2>2. CASE Settle(GradedResult, Graded("availability", n, target))
    BY <1>2, <2>2
  <2> QED BY <1>3, <1>4, <2>1, <2>2 DEF checkAvailability
<1>5. ASSUME NEW d, checkVisibility(n, r, d)
      PROVE  \E result, ds : Settle(result, ds) /\ Silent(ds)
  <2>1. CASE Settle("Invalid", {Diagnostic("err",
               IF d.linkage = "Absent" THEN "missing" ELSE "hidden", n, target)})
    <3>1. (IF d.linkage = "Absent" THEN "missing" ELSE "hidden") # "undeclared"
      OBVIOUS
    <3> QED BY <1>2, <2>1, <3>1
  <2>2. CASE HiddenDeclaration(n, r)
    <3>1. Settle("Ignore", {}) \/ Settle(GradedResult, Graded("header hidden", n, target))
      BY <2>2 DEF HiddenDeclaration
    <3> QED BY <1>2, <3>1
  <2> QED BY <1>3, <1>4, <1>5, <2>1, <2>2 DEF checkVisibility
<1>6. CASE VerifyAgainstDylib(n, r, dylib[dylibAPI.arch][n])
  BY <1>3, <1>5, <1>6 DEF VerifyAgainstDylib
<1> QED BY <1>3, <1>6 DEF verifyImpl, AccumulateSymbol

\* While headers are read, no step reports a symbol as undeclared, and no
\* report of that kind stands yet.
LEMMA EarlyUndeclared ==
  ASSUME TypeInv, UndeclaredInv, [Next]_vars, ~verifyRemainingSymbols,
         NEW d \in diags', d.kind = "undeclared"
  PROVE  /\ d \in diags /\ step' \in {"remaining", "verdict", "write"}
         /\ UNCHANGED <<exports, declared>>
<1>1. CASE verifySwift
  <2>1. d \in diags
    BY <1>1 DEF verifySwift, Diagnostic
  <2> QED BY <1>1, <2>1 DEF verifySwift, UndeclaredInv
<1>2. CASE setTarget
  BY <1>2 DEF setTarget, Settle, UndeclaredInv
<1>3. CASE \E n \in Names, e \in Visited : VisitDecl(n, e)
  <2>1. PICK n \in Names, e \in Visited : VisitDecl(n, e)
    BY <1>3
  <2>2. AddGlobal(api[n], e) \in HeaderRecords /\ verifyImpl(n, AddGlobal(api[n], e))
    BY <2>1, AddGlobalType DEF TypeInv, TypeOK, VisitDecl
  <2>3. d \in diags /\ step = "frontend"
    BY <2>1, <2>2, VerifyKinds DEF VisitDecl
  <2> QED BY <2>3 DEF UndeclaredInv
<1>4. CASE EndFrontend
  BY <1>4 DEF EndFrontend, UndeclaredInv
<1>5. CASE FrontendError
  BY <1>5 DEF FrontendError, Diagnostic, UndeclaredInv
<1>6. CASE Verdict
  BY <1>6 DEF Verdict, UndeclaredInv, symbols
<1>7. CASE WriteOutput
  BY <1>7 DEF WriteOutput, IOError, Diagnostic, UndeclaredInv, symbols, driver
<1>8. CASE UNCHANGED vars
  BY <1>8 DEF vars, UndeclaredInv, symbols, driver
<1> QED BY <1>1, <1>2, <1>3, <1>4, <1>5, <1>6, <1>7, <1>8 DEF Next, DriverStep

\* What verifyRemainingSymbols reports as undeclared is neither published for
\* the architecture nor declared for the slice.
LEMMA RemainingUnknown ==
  ASSUME TypeInv, HistoryInv, options.verifyAgainst, NEW slice \in Slices,
         NEW n \in RemainingViolations(slice),
         NEW d \in RemainingDiagnostics(n, slice), d.kind = "undeclared"
  PROVE  /\ \A t \in exports[d.name].targets : t.arch # d.target.arch
         /\ ~\E x \in declared :
               /\ x.name = d.name /\ x.target = d.target
               /\ x.name \in LinkerNames \/ x.name \notin Reexports[x.target]
<1>1. /\ n \in Names /\ dylib[slice.arch][n].linkage = "Exported"
      /\ ~VerifiedForArch(n, slice.arch)
  BY DEF RemainingViolations
<1>2. d.kind = RemainingKind(n, slice) /\ d.name = n /\ d.target = slice
  BY DEF RemainingDiagnostics, Graded, Diagnostic
<1>3. n \notin verified[slice]
  BY <1>2 DEF RemainingKind
<1>4. ASSUME NEW x \in declared, x.name = n, x.target = slice,
             x.name \in LinkerNames \/ x.name \notin Reexports[x.target]
      PROVE  FALSE
  <2>1. MustMark(x)
    BY <1>1, <1>4 DEF MustMark
  <2> QED BY <1>3, <1>4, <2>1 DEF HistoryInv, DeclaredMarked
<1> QED BY <1>1, <1>2, <1>4 DEF VerifiedForArch

\* The dylib is examined only when one was given.
ExaminesDylib == step = "remaining" => options.verifyAgainst

\* The step to the remaining symbols asks for a dylib, and no step leaves it.
LEMMA ExaminesDylibStep ==
  ASSUME ExaminesDylib, [Next]_vars
  PROVE  ExaminesDylib'
BY DEF ExaminesDylib, Next, DriverStep, verifySwift, setTarget, VisitDecl, EndFrontend,
       verifyRemainingSymbols, Verdict, WriteOutput, FrontendError, vars, inputs, driver

\* UndeclaredInv is inductive, given the history.
LEMMA UndeclaredStep ==
  ASSUME TypeInv, HistoryInv, ExaminesDylib, UndeclaredInv, [Next]_vars
  PROVE  UndeclaredInv'
<1>1. CASE ~verifyRemainingSymbols
  <2>1. ASSUME NEW d \in diags', d.kind = "undeclared"
        PROVE  /\ d \in diags /\ step' \in {"remaining", "verdict", "write"}
               /\ UNCHANGED <<exports, declared>>
    BY <1>1, <2>1, EarlyUndeclared
  <2> QED BY <2>1 DEF UndeclaredInv, UndeclaredIsUnknown
<1>2. CASE verifyRemainingSymbols
  <2> DEFINE slice == FirstSlice(TargetSeq[ti].arch)
  <2>1. slice \in Slices
    BY TargetAt, FirstSliceExists DEF TypeInv, TypeOK
  <2>2. /\ step' \in {"remaining", "verdict"} /\ UNCHANGED <<exports, declared>>
        /\ diags' = diags \cup UNION {RemainingDiagnostics(n, slice) :
                                       n \in RemainingViolations(slice)}
        /\ options.verifyAgainst
    BY <1>2 DEF verifyRemainingSymbols, symbols, ExaminesDylib
  <2> HIDE DEF slice
  <2>3. ASSUME NEW d \in diags', d.kind = "undeclared"
        PROVE  /\ \A t \in exports[d.name].targets : t.arch # d.target.arch
               /\ ~\E x \in declared :
                     /\ x.name = d.name /\ x.target = d.target
                     /\ x.name \in LinkerNames \/ x.name \notin Reexports[x.target]
    <3>1. CASE d \in diags
      BY <2>3, <3>1 DEF UndeclaredInv, UndeclaredIsUnknown
    <3>2. CASE d \notin diags
      <4>1. PICK n \in RemainingViolations(slice) : d \in RemainingDiagnostics(n, slice)
        BY <2>2, <3>2
      <4> QED BY <2>1, <2>2, <2>3, <4>1, RemainingUnknown
    <3> QED BY <3>1, <3>2
  <2> QED BY <2>2, <2>3 DEF UndeclaredInv, UndeclaredIsUnknown
<1> QED BY <1>1, <1>2

\* A symbol reported as missing from the headers of an architecture is neither
\* published for it nor declared for the slice of the report: the loop over the
\* dylib comes after every frontend run, and each of those marks what it declares.
THEOREM UndeclaredReportsAreTrue == Spec => []UndeclaredIsUnknown
<1>1. Init => ExaminesDylib /\ UndeclaredInv
  BY DEF Init, ExaminesDylib, UndeclaredInv, UndeclaredIsUnknown
<1>2. TypeInv /\ HistoryInv /\ ExaminesDylib /\ UndeclaredInv /\ [Next]_vars
        => (ExaminesDylib /\ UndeclaredInv)'
  BY ExaminesDylibStep, UndeclaredStep
<1>3. UndeclaredInv => UndeclaredIsUnknown
  BY DEF UndeclaredInv
<1> QED BY <1>1, <1>2, <1>3, TypeInvariant, HistoryInvariant, PTL DEF Spec

(***************************************************************************)
(* The symbols of the dylib, after a successful run                        *)
(***************************************************************************)

\* The slice of the i-th target has been examined.
Examined(i) == step \in {"verdict", "write"} \/ (step = "remaining" /\ i < ti)

\* As long as the binary passes, no examined slice holds a symbol that fails it;
\* the pedantic verifier then has reported no deferred record either.
RemainingInv ==
  /\ options.verifyAgainst /\ passedBinary =>
       \A i \in 1 .. Len(TargetSeq) :
         Examined(i) => ~RemainingInvalid(FirstSlice(TargetSeq[i].arch))
  /\ options.mode = "Pedantic" /\ passedBinary => \A n \in Names : checkedZippered[n] = {}
  /\ outcome = "success" => step = "write" /\ Passed

\* What is examined later can only excuse a symbol: violations do not appear
\* in a slice after it was examined.
LEMMA ViolationsShrink ==
  ASSUME NEW s, UNCHANGED <<options, dylib, verified, exports, verifiedSwift,
                            coverageAPI, ignoredZipperedRecords>>,
         \A n \in Names : checkedZippered[n] \subseteq checkedZippered'[n]
  PROVE  RemainingInvalid(s)' => RemainingInvalid(s)
<1>1. ASSUME NEW n \in Names
      PROVE  /\ AvailabilityMismatch(n, s.arch)' => AvailabilityMismatch(n, s.arch)
             /\ Unaccounted(n, s)' <=> Unaccounted(n, s)
             /\ VerifiedForArch(n, s.arch)' <=> VerifiedForArch(n, s.arch)
  <2>1. AvailabilityMismatch(n, s.arch)' => AvailabilityMismatch(n, s.arch)
    BY DEF AvailabilityMismatch, DeferredForArch
  <2>2. Unaccounted(n, s)' <=> Unaccounted(n, s)
    BY DEF Unaccounted, Coverage
  <2>3. VerifiedForArch(n, s.arch)' <=> VerifiedForArch(n, s.arch)
    BY DEF VerifiedForArch
  <2> QED BY <2>1, <2>2, <2>3
<1>2. \A n \in RemainingViolations(s)' : n \in RemainingViolations(s)
  BY <1>1 DEF RemainingViolations
<1>3. GradedResult' = GradedResult
  BY DEF GradedResult
<1> QED BY <1>2, <1>3 DEF RemainingInvalid

\* One examination keeps RemainingInv: what it finds, it fails the binary for.
LEMMA ExaminationStep ==
  ASSUME TypeInv, RemainingInv, verifyRemainingSymbols
  PROVE  RemainingInv'
<1> DEFINE At(i) == FirstSlice(TargetSeq[i].arch)
           slice == At(ti)
<1>1. /\ ti \in 1 .. Len(TargetSeq) /\ Len(TargetSeq) \in Nat
      /\ checkedZippered \in [Names -> SUBSET Targets]
  BY ShapeAssumption DEF TypeInv, TypeOK, ShapeAssumption
<1>2. /\ passedBinary' = (passedBinary /\ ~RemainingInvalid(slice))
      /\ UNCHANGED <<options, dylib, verified, exports, verifiedSwift, coverageAPI,
                     ignoredZipperedRecords>>
      /\ step = "remaining" /\ outcome' = "running"
      /\ \/ step' = "remaining" /\ ti' = ti + 1
         \/ step' = "verdict" /\ ti = Len(TargetSeq)
  BY <1>1 DEF verifyRemainingSymbols, inputs, symbols, ending, Running, NextTarget
<1>3. checkedZippered' =
        [n \in Names |->
           IF n \in RemainingViolations(slice) /\ n \in verified[slice]
           THEN checkedZippered[n] \cup {e.target : e \in DeferredForArch(n, slice.arch)}
           ELSE checkedZippered[n]]
  BY DEF verifyRemainingSymbols
<1>4. \A n \in Names : checkedZippered[n] \subseteq checkedZippered'[n]
  BY <1>3
<1>5. \A i : Examined(i)' /\ i \in 1 .. Len(TargetSeq) => Examined(i) \/ i = ti
  BY <1>1, <1>2 DEF Examined
<1> HIDE DEF At, slice
<1>6. ASSUME options.verifyAgainst, passedBinary', NEW i \in 1 .. Len(TargetSeq), Examined(i)'
      PROVE  ~RemainingInvalid(At(i))'
  <2>1. ~RemainingInvalid(At(i))
    <3>1. CASE i = ti
      BY <1>2, <1>6, <3>1 DEF slice
    <3>2. CASE Examined(i)
      BY <1>2, <1>6, <3>2 DEF RemainingInv, At
    <3> QED BY <1>5, <1>6, <3>1, <3>2
  <2>2. RemainingInvalid(At(i))' => RemainingInvalid(At(i))
    <3>1. \A s : RemainingInvalid(s)' => RemainingInvalid(s)
      BY <1>2, <1>4, ViolationsShrink
    <3> QED BY <3>1 DEF At
  <2> QED BY <2>1, <2>2
<1>7. ASSUME options.mode = "Pedantic", passedBinary', NEW n \in Names
      PROVE  checkedZippered'[n] = {}
  <2>1. n \notin RemainingViolations(slice)
    BY <1>2, <1>7 DEF RemainingInvalid, GradedResult
  <2>2. checkedZippered'[n] = checkedZippered[n]
    BY <1>3, <2>1
  <2> QED BY <1>2, <1>7, <2>2 DEF RemainingInv
<1>8. outcome' # "success"
  BY <1>2
<1> QED BY <1>2, <1>6, <1>7, <1>8 DEF RemainingInv, At

\* The other steps keep RemainingInv: none of those after the examination
\* changes what it looked at, and none of those before it claims a result.
LEMMA OtherExaminations ==
  ASSUME TypeInv, VerdictInv, RemainingInv, [Next]_vars, ~verifyRemainingSymbols
  PROVE  RemainingInv'
<1>1. UNCHANGED <<options, passedBinary, checkedZippered>>
  BY DEF Next, DriverStep, verifySwift, setTarget, VisitDecl, EndFrontend,
     Verdict, WriteOutput, FrontendError, vars, inputs
<1>2. ASSUME options.verifyAgainst, passedBinary, NEW i \in 1 .. Len(TargetSeq), Examined(i)'
      PROVE  ~RemainingInvalid(FirstSlice(TargetSeq[i].arch))'
  <2>1. Verdict \/ WriteOutput \/ UNCHANGED vars
    <3>1. ~(verifySwift \/ setTarget \/ FrontendError
             \/ \E n \in Names, d \in Visited : VisitDecl(n, d))
      BY <1>2 DEF Examined, verifySwift, setTarget, FrontendError, VisitDecl, driver
    <3>2. ~EndFrontend
      <4> SUFFICES ASSUME EndFrontend PROVE FALSE
        OBVIOUS
      <4>1. i >= 1
        OBVIOUS
      <4>2. \/ step' \in {"frontend", "target"}
            \/ step' = "remaining" /\ ti' = 1
        BY <1>2 DEF EndFrontend
      <4> QED BY <1>2, <4>1, <4>2 DEF Examined
    <3> QED BY <3>1, <3>2 DEF Next, DriverStep
  <2>2. /\ UNCHANGED <<options, dylib, verified, exports, verifiedSwift, coverageAPI,
                       ignoredZipperedRecords, checkedZippered>>
        /\ Examined(i)
    BY <1>2, <2>1 DEF Verdict, WriteOutput, vars, inputs, driver, context, symbols, Examined
  <2>3. ~RemainingInvalid(FirstSlice(TargetSeq[i].arch))
    BY <1>2, <2>2 DEF RemainingInv
  <2>4. \A s : RemainingInvalid(s)' => RemainingInvalid(s)
    BY <2>2, ViolationsShrink
  <2> QED BY <2>3, <2>4
<1>3. outcome' = "success" => step' = "write" /\ Passed'
  <2>1. CASE WriteOutput
    BY <2>1 DEF WriteOutput, VerdictInv, Passed, driver
  <2>2. CASE UNCHANGED vars
    BY <2>2 DEF vars, driver, ending, RemainingInv, Passed
  <2>3. CASE ~WriteOutput /\ ~UNCHANGED vars
    BY <2>3 DEF Next, DriverStep, verifySwift, setTarget, VisitDecl, EndFrontend,
       Verdict, FrontendError, Running, ending
  <2> QED BY <2>1, <2>2, <2>3
<1> QED BY <1>1, <1>2, <1>3 DEF RemainingInv

\* RemainingInv is inductive, given the types and the verdict.
LEMMA RemainingInvariant == Spec => []RemainingInv
<1>1. Init => RemainingInv
  BY DEF Init, RemainingInv, Examined
<1>2. TypeInv /\ VerdictInv /\ RemainingInv /\ [Next]_vars => RemainingInv'
  BY ExaminationStep, OtherExaminations
<1> QED BY <1>1, <1>2, TypeInvariant, VerdictInvariant, PTL DEF Spec

\* After a successful run, a symbol that the slice examined for an architecture
\* exports is published for it, was marked and has no deferred record against
\* it, or is accounted for otherwise.
LEMMA SuccessClears ==
  ASSUME TypeInv, RemainingInv, outcome = "success", options.verifyAgainst,
         NEW t \in Targets, NEW n \in Names, dylib[t.arch][n].linkage = "Exported",
         n \in LinkerNames \/ options.mode = "Pedantic"
  PROVE  \/ VerifiedForArch(n, t.arch)
         \/ /\ n \in verified[FirstSlice(t.arch)]
            /\ ~AvailabilityMismatch(n, t.arch)
         \/ /\ n \notin verified[FirstSlice(t.arch)]
            /\ ~Unaccounted(n, FirstSlice(t.arch))
<1>1. PICK i \in 1 .. Len(TargetSeq) : TargetSeq[i] = t
  BY ShapeAssumption DEF ShapeAssumption, Targets
<1>2. ~RemainingInvalid(FirstSlice(t.arch))
  BY <1>1 DEF RemainingInv, Passed, Examined
<1>3. n \notin RemainingViolations(FirstSlice(t.arch))
  BY <1>2 DEF RemainingInvalid, GradedResult
<1>4. FirstSlice(t.arch).arch = t.arch
  BY FirstSliceExists
<1> QED BY <1>3, <1>4 DEF RemainingViolations

\* What accounts for an unmarked symbol is one of the exemptions.
LEMMA Exemptions ==
  ASSUME NEW n, NEW t \in Targets, n \notin verified[FirstSlice(t.arch)],
         ~Unaccounted(n, FirstSlice(t.arch))
  PROVE  \/ n \in AliasNames \cup SwiftNames \cup UNION {Coverage(u) : u \in Targets}
         \/ n \in RttiNames /\ dylib[t.arch][n].flags = "weak"
<1>1. FirstSlice(t.arch).arch = t.arch
  BY FirstSliceExists
<1>2. n \in Coverage(coverageAPI) => \E u \in Targets : n \in Coverage(u)
  BY ShapeAssumption DEF ShapeAssumption, Coverage
<1> QED BY <1>1, <1>2 DEF Unaccounted

\* A linker directive that the dylib holds and that no header declares stops
\* every run: in every mode it fails the binary when its slice is examined.
THEOREM DirectivesAreDeclared == Spec => []LinkerDirectivesDeclared
<1>1. TypeInv /\ HistoryInv /\ RemainingInv => LinkerDirectivesDeclared
  <2> SUFFICES ASSUME TypeInv, HistoryInv, RemainingInv,
                      outcome = "success", options.verifyAgainst,
                      NEW t \in Targets, NEW n \in LinkerNames,
                      dylib[t.arch][n].linkage = "Exported"
               PROVE  \/ \E u \in exports[n].targets : u.arch = t.arch
                      \/ n \in AliasNames \cup SwiftNames \cup UNION {Coverage(u) : u \in Targets}
                      \/ n \in RttiNames /\ dylib[t.arch][n].flags = "weak"
                      \/ \E x \in declared : x.name = n /\ x.target = FirstSlice(t.arch)
    BY DEF LinkerDirectivesDeclared
  <2>1. n \in Names /\ FirstSlice(t.arch) \in Slices
    BY ShapeAssumption, FirstSliceExists DEF ShapeAssumption
  <2>2. CASE VerifiedForArch(n, t.arch)
    BY <2>2 DEF VerifiedForArch
  <2>3. CASE n \in verified[FirstSlice(t.arch)]
    <3>1. n \in SwiftNames \/ \E x \in declared : Explains(x, n, FirstSlice(t.arch))
      BY <2>1, <2>3 DEF HistoryInv, MarksExplained
    <3>2. CASE n \in SwiftNames
      BY <3>2
    <3>3. ASSUME NEW x \in declared, Explains(x, n, FirstSlice(t.arch))
          PROVE  x.name = n /\ x.target = FirstSlice(t.arch)
      BY <3>3 DEF Explains
    <3> QED BY <3>1, <3>2, <3>3
  <2>4. CASE /\ n \notin verified[FirstSlice(t.arch)]
             /\ ~Unaccounted(n, FirstSlice(t.arch))
    BY <2>4, Exemptions
  <2>5. \/ VerifiedForArch(n, t.arch)
        \/ n \in verified[FirstSlice(t.arch)]
        \/ /\ n \notin verified[FirstSlice(t.arch)]
           /\ ~Unaccounted(n, FirstSlice(t.arch))
    BY <2>1, SuccessClears
  <2> QED BY <2>2, <2>3, <2>4, <2>5
<1> QED BY <1>1, TypeInvariant, HistoryInvariant, RemainingInvariant, PTL

\* Pedantic success leaves no symbol of an examined slice unaccounted: what is
\* marked but not published was hidden, obsolete, or deferred with a record that
\* is obsolete somewhere.
THEOREM PedanticSuccessAccounts == Spec => []PedanticAccounts
<1>1. TypeInv /\ HistoryInv /\ RemainingInv => PedanticAccounts
  <2> SUFFICES ASSUME TypeInv, HistoryInv, RemainingInv, outcome = "success",
                      options.verifyAgainst, options.mode = "Pedantic",
                      NEW t \in Targets, NEW n \in Names,
                      dylib[t.arch][n].linkage = "Exported",
                      ~VerifiedForArch(n, t.arch), n \notin SwiftNames,
                      n \in verified[FirstSlice(t.arch)]
               PROVE  \E x \in declared :
                        /\ x.name = n /\ x.target = FirstSlice(t.arch)
                        /\ \/ x.record.avail = "obsolete"
                           \/ x.record.linkage = "Internal"
                           \/ \E y \in declared : y.name = n /\ y.record.avail = "obsolete"
    BY SuccessClears, Exemptions DEF PedanticAccounts, VerifiedForArch
  <2> DEFINE slice == FirstSlice(t.arch)
  <2>1. slice \in Slices /\ slice.arch = t.arch
    BY FirstSliceExists
  <2>2. /\ ~AvailabilityMismatch(n, t.arch) /\ frontendState # "Invalid"
        /\ checkedZippered[n] = {}
    BY SuccessClears DEF RemainingInv, Passed
  <2> HIDE DEF slice
  <2>3. PICK x \in declared : Explains(x, n, slice)
    BY <2>1 DEF HistoryInv, MarksExplained, slice
  <2>4. slice \notin exports[n].targets
    BY <2>1 DEF VerifiedForArch
  <2>5. CASE [target |-> slice, obsolete |-> FALSE] \in ignoredZipperedRecords[n]
    <3>1. [target |-> slice, obsolete |-> FALSE] \in DeferredForArch(n, t.arch)
      BY <2>1, <2>5 DEF DeferredForArch
    <3>2. PICK e \in ignoredZipperedRecords[n] : e.obsolete
      BY <2>2, <3>1 DEF AvailabilityMismatch
    <3>3. \E y \in declared : y.name = n /\ y.record.avail = "obsolete"
      BY <3>2 DEF HistoryInv, DeferredDeclared
    <3> QED BY <2>3, <3>3 DEF Explains, slice
  <2>6. CASE [target |-> slice, obsolete |-> FALSE] \notin ignoredZipperedRecords[n]
    BY <2>1, <2>2, <2>3, <2>4, <2>6 DEF Explains, slice
  <2> QED BY <2>5, <2>6
<1> QED BY <1>1, TypeInvariant, HistoryInvariant, RemainingInvariant, PTL

(***************************************************************************)
(* Aliases: what getExports adds in the order of the alias map             *)
(***************************************************************************)

\* The aliases of the first n entries, added one after the other.
Aliased(n, f) ==
  f = [i \in 0 .. n |->
         IF i = 0 THEN WithCoverage
         ELSE AddAlias(f[i - 1], AliasSeq[i][1], AliasSeq[i][2])]

\* A set of numbers that is not empty has a least element.
LEMMA LeastNumber ==
  ASSUME NEW T \in SUBSET Nat, T # {}
  PROVE  \E x \in T : \A y \in T : x <= y
<1> DEFINE R == OpToRel(<, Nat)
<1>1. \A x \in T, y \in T : y < x => <<y, x>> \in R
  BY DEF OpToRel
<1>2. IsWellFoundedOn(R, Nat)
  BY NatLessThanWellFounded
<1> HIDE DEF R
<1>3. PICK x \in T : \A y \in T : ~(<<y, x>> \in R)
  BY <1>2, WFMin, Zenon
<1>4. ASSUME NEW y \in T PROVE x <= y
  <2>1. ~(y < x)
    BY <1>1, <1>3
  <2> QED BY <2>1
<1> QED BY <1>4

\* The sequence of symbol sets exists, whatever the number of aliases.
LEMMA AliasedExists == \A n \in Nat : \E f : Aliased(n, f)
<1> DEFINE Bad == {n \in Nat : ~\E f : Aliased(n, f)}
<1>1. ASSUME Bad # {} PROVE FALSE
  <2>1. PICK n \in Bad : \A m \in Bad : n <= m
    <3> HIDE DEF Bad
    <3>1. Bad \in SUBSET Nat
      BY DEF Bad
    <3> QED BY <1>1, <3>1, LeastNumber
  <2>2. CASE n = 0
    <3>1. Aliased(0, [i \in 0 .. 0 |-> WithCoverage])
      BY DEF Aliased
    <3> QED BY <2>1, <2>2, <3>1
  <2>3. CASE n # 0
    <3>1. n \in Nat /\ n - 1 \in Nat /\ n - 1 \notin Bad
      BY <2>1, <2>3
    <3>2. PICK f : Aliased(n - 1, f)
      BY <3>1
    <3> DEFINE g == [i \in 0 .. n |->
                       IF i = n THEN AddAlias(f[n - 1], AliasSeq[n][1], AliasSeq[n][2])
                       ELSE f[i]]
    <3>3. \A i \in 0 .. n :
            g[i] = IF i = 0 THEN WithCoverage
                   ELSE AddAlias(g[i - 1], AliasSeq[i][1], AliasSeq[i][2])
      BY <3>1, <3>2, <2>1, <2>3 DEF Aliased
    <3>4. Aliased(n, g)
      BY <3>3 DEF Aliased
    <3> QED BY <3>4, <2>1
  <2> QED BY <2>2, <2>3
<1> QED BY <1>1

\* WithAliases is the last set of such a sequence.
LEMMA WithAliasesIs ==
  \E f : Aliased(Len(AliasSeq), f) /\ WithAliases = f[Len(AliasSeq)]
<1> DEFINE F == CHOOSE f : f = [i \in 0 .. Len(AliasSeq) |->
                  IF i = 0 THEN WithCoverage
                  ELSE AddAlias(f[i - 1], AliasSeq[i][1], AliasSeq[i][2])]
<1>1. Len(AliasSeq) \in Nat
  BY ShapeAssumption DEF ShapeAssumption
<1>2. Aliased(Len(AliasSeq), F)
  <2>1. \E f : f = [i \in 0 .. Len(AliasSeq) |->
                  IF i = 0 THEN WithCoverage
                  ELSE AddAlias(f[i - 1], AliasSeq[i][1], AliasSeq[i][2])]
    BY <1>1, AliasedExists DEF Aliased
  <2> QED BY <2>1 DEF Aliased
<1>3. WithAliases = F[Len(AliasSeq)]
  BY DEF WithAliases
<1> QED BY <1>2, <1>3

\* What a stub says of the symbols: their flags and the targets they have.
SymbolSets == [Names -> [flags: Flags, targets: SUBSET (Targets \cup Slices)]]

\* With a dylib, an alias gets flags and targets of the type of its base.
LEMMA AddAliasType ==
  ASSUME NEW syms \in SymbolSets, NEW a \in Names, NEW b \in Names,
         options.verifyAgainst
  PROVE  AddAlias(syms, a, b) \in SymbolSets
<1> DEFINE found == syms[b].targets # {}
           flags == IF found THEN syms[b].flags ELSE "none"
           where == CASE found -> syms[b].targets
                      [] ~found /\ options.verifyAgainst -> Slices
                      [] OTHER -> {target}
<1>1. flags \in Flags
  BY ShapeAssumption DEF ShapeAssumption, SymbolSets
<1>2. where \subseteq Targets \cup Slices
  BY DEF SymbolSets
<1>3. AddAlias(syms, a, b) =
        [syms EXCEPT ![a] = [flags   |-> IF @.targets = {} THEN flags ELSE @.flags,
                             targets |-> @.targets \cup where]]
  BY DEF AddAlias
<1> HIDE DEF found, flags, where
<1> QED BY <1>1, <1>2, <1>3 DEF SymbolSets

\* An entry that is not the one added is left as it was.
LEMMA AddAliasElsewhere ==
  ASSUME NEW syms \in SymbolSets, NEW a \in Names, NEW b, NEW n \in Names, n # a
  PROVE  AddAlias(syms, a, b)[n] = syms[n]
BY DEF AddAlias, SymbolSets

\* What is added to an alias depends on the alias and on its base alone.
LEMMA AddAliasLocal ==
  ASSUME NEW s \in SymbolSets, NEW t \in SymbolSets, NEW a \in Names, NEW b \in Names,
         s[a] = t[a], s[b] = t[b]
  PROVE  AddAlias(s, a, b)[a] = AddAlias(t, a, b)[a]
BY DEF AddAlias, SymbolSets

\* Coverage symbols leave the exports a symbol set.
LEMMA WithCoverageType ==
  ASSUME exports \in [Names -> [flags: Flags, targets: SUBSET Targets]]
  PROVE  WithCoverage \in SymbolSets
BY DEF WithCoverage, SymbolSets

\* A base that is no alias itself keeps its entry, and its alias is added once,
\* to the entry that the declarations and the coverage symbols made.
LEMMA AliasAddedOnce ==
  ASSUME exports \in [Names -> [flags: Flags, targets: SUBSET Targets]],
         options.verifyAgainst, NEW k \in DOMAIN AliasSeq,
         NEW a, a = AliasSeq[k][1], NEW b, b = AliasSeq[k][2], b \notin AliasNames
  PROVE  /\ WithAliases[b] = WithCoverage[b]
         /\ WithAliases[a] = AddAlias(WithCoverage, a, b)[a]
<1>1. PICK f : Aliased(Len(AliasSeq), f) /\ WithAliases = f[Len(AliasSeq)]
  BY WithAliasesIs
<1>2. /\ Len(AliasSeq) \in Nat /\ DOMAIN AliasSeq = 1 .. Len(AliasSeq)
      /\ \A i \in DOMAIN AliasSeq : AliasSeq[i][1] \in Names /\ AliasSeq[i][2] \in Names
      /\ \A i, j \in DOMAIN AliasSeq : AliasSeq[i][1] = AliasSeq[j][1] => i = j
  BY ShapeAssumption DEF ShapeAssumption
<1>3. WithCoverage \in SymbolSets
  BY WithCoverageType
<1>4. f[0] = WithCoverage
  BY <1>1, <1>2 DEF Aliased
<1>5. \A i \in 1 .. Len(AliasSeq) :
        f[i] = AddAlias(f[i - 1], AliasSeq[i][1], AliasSeq[i][2])
  BY <1>1, <1>2 DEF Aliased
<1> DEFINE Good(i) ==
             /\ f[i] \in SymbolSets /\ f[i][b] = WithCoverage[b]
             /\ f[i][a] = IF i < k THEN WithCoverage[a]
                          ELSE AddAlias(WithCoverage, a, b)[a]
           Bad == {i \in 0 .. Len(AliasSeq) : ~Good(i)}
<1>6. ASSUME Bad # {} PROVE FALSE
  <2>1. PICK i \in Bad : \A j \in Bad : i <= j
    <3> HIDE DEF Bad
    <3>1. Bad \in SUBSET Nat
      BY <1>2 DEF Bad
    <3> QED BY <1>6, <3>1, LeastNumber
  <2>2. i # 0
    <3>1. Good(0)
      BY <1>2, <1>3, <1>4
    <3> QED BY <2>1, <3>1
  <2>3. i \in 1 .. Len(AliasSeq) /\ i - 1 \in 0 .. Len(AliasSeq) /\ i - 1 \notin Bad
    BY <1>2, <2>1, <2>2
  <2>4. Good(i - 1)
    BY <2>3
  <2>5. PICK x, y : x = AliasSeq[i][1] /\ y = AliasSeq[i][2]
    OBVIOUS
  <2>6. x \in Names /\ y \in Names /\ x \in AliasNames /\ a \in Names /\ b \in Names
    BY <1>2, <2>3, <2>5 DEF AliasNames
  <2>7. f[i] = AddAlias(f[i - 1], x, y) /\ f[i - 1] \in SymbolSets
    BY <1>5, <2>3, <2>4, <2>5
  <2>8. f[i] \in SymbolSets
    BY <2>6, <2>7, AddAliasType
  <2>9. f[i][b] = f[i - 1][b]
    BY <2>6, <2>7, AddAliasElsewhere
  <2>10. CASE i # k
    <3>1. x # a
      BY <1>2, <2>3, <2>5, <2>10
    <3>2. f[i][a] = f[i - 1][a]
      BY <2>6, <2>7, <3>1, AddAliasElsewhere
    <3>3. i - 1 < k <=> i < k
      BY <1>2, <2>3, <2>10
    <3> QED BY <2>1, <2>4, <2>8, <2>9, <3>2, <3>3
  <2>11. CASE i = k
    <3>1. x = a /\ y = b /\ i - 1 < k /\ ~(i < k)
      BY <1>2, <2>3, <2>5, <2>11
    <3>2. f[i - 1][a] = WithCoverage[a] /\ f[i - 1][b] = WithCoverage[b]
      BY <2>4, <3>1
    <3>3. f[i][a] = AddAlias(WithCoverage, a, b)[a]
      BY <1>3, <2>6, <2>7, <3>1, <3>2, AddAliasLocal
    <3> QED BY <2>1, <2>4, <2>8, <2>9, <3>1, <3>3
  <2> QED BY <2>10, <2>11
<1>7. Good(Len(AliasSeq)) /\ ~(Len(AliasSeq) < k)
  BY <1>2, <1>6
<1> QED BY <1>1, <1>7

\* What is written satisfies the property of aliases.
AliasesOf(stub) ==
  \A i \in DOMAIN AliasSeq :
    LET alias == AliasSeq[i][1]
        base  == AliasSeq[i][2]
    IN base \notin AliasNames \cup SwiftNames =>
         /\ stub[base].targets \subseteq stub[alias].targets
         /\ (/\ exports[base].targets # {} /\ exports[alias].targets = {}
             /\ alias \notin SwiftNames \cup UNION {Coverage(t) : t \in Targets})
              => stub[alias] = stub[base]

LEMMA PublishedAliases ==
  ASSUME exports \in [Names -> [flags: Flags, targets: SUBSET Targets]],
         options.verifyAgainst
  PROVE  AliasesOf(Published)
<1> SUFFICES ASSUME NEW k \in DOMAIN AliasSeq,
                    NEW a, a = AliasSeq[k][1], NEW b, b = AliasSeq[k][2],
                    b \notin AliasNames, b \notin SwiftNames
             PROVE  /\ Published[b].targets \subseteq Published[a].targets
                    /\ (/\ exports[b].targets # {} /\ exports[a].targets = {}
                        /\ a \notin SwiftNames \cup UNION {Coverage(t) : t \in Targets})
                         => Published[a] = Published[b]
  BY DEF AliasesOf
<1>1. a \in Names /\ b \in Names
  BY ShapeAssumption DEF ShapeAssumption
<1>2. /\ WithAliases[b] = WithCoverage[b]
      /\ WithAliases[a] = AddAlias(WithCoverage, a, b)[a]
  BY AliasAddedOnce
<1>3. WithCoverage \in SymbolSets
  BY WithCoverageType
<1>4. /\ WithCoverage[b] \in [flags: Flags, targets: SUBSET (Targets \cup Slices)]
      /\ WithCoverage[a] \in [flags: Flags, targets: SUBSET (Targets \cup Slices)]
  BY <1>1, <1>3 DEF SymbolSets
<1> DEFINE Swift(n) == {t \in Targets \cup Slices : n \in SwiftInterface[t]}
<1>5. \A n \in Names : Published[n] =
         [WithAliases[n] EXCEPT !.targets = @ \cup Swift(n)]
  BY DEF Published
<1>6. \A n : n \notin SwiftNames => Swift(n) = {}
  BY DEF SwiftNames
<1> HIDE DEF Swift
<1>7. Published[b] = WithCoverage[b]
  BY <1>1, <1>2, <1>4, <1>5, <1>6
<1>8. AddAlias(WithCoverage, a, b)[a].targets
        = WithCoverage[a].targets \cup (IF WithCoverage[b].targets # {}
                                        THEN WithCoverage[b].targets ELSE Slices)
  BY <1>1, <1>3 DEF AddAlias, SymbolSets
<1>9. AddAlias(WithCoverage, a, b)[a] \in [flags: Flags, targets: SUBSET (Targets \cup Slices)]
  BY <1>1, <1>3, AddAliasType DEF SymbolSets
<1>10. WithCoverage[b].targets \subseteq WithAliases[a].targets
  BY <1>2, <1>8
<1>11. Published[a].targets = WithAliases[a].targets \cup Swift(a)
  <2>1. PICK e \in [flags: Flags, targets: SUBSET (Targets \cup Slices)] :
          e = WithAliases[a]
    BY <1>2, <1>9
  <2>2. Published[a] = [e EXCEPT !.targets = @ \cup Swift(a)]
    BY <1>1, <1>5, <2>1
  <2> QED BY <2>1, <2>2
<1>12. ASSUME exports[b].targets # {}, exports[a].targets = {},
              a \notin SwiftNames, a \notin UNION {Coverage(t) : t \in Targets}
       PROVE  Published[a] = Published[b]
  <2>1. WithCoverage[a].targets = {}
    BY <1>1, <1>12 DEF WithCoverage
  <2>2. WithCoverage[b].targets # {}
    BY <1>1, <1>12 DEF WithCoverage
  <2>3. AddAlias(WithCoverage, a, b)[a] =
          [flags |-> WithCoverage[b].flags, targets |-> WithCoverage[b].targets]
    BY <1>1, <1>3, <2>1, <2>2 DEF AddAlias, SymbolSets
  <2>4. WithAliases[a] = WithCoverage[b]
    BY <1>2, <1>4, <2>3
  <2>5. Published[a] = WithAliases[a]
    BY <1>1, <1>2, <1>5, <1>6, <1>9, <1>12
  <2> QED BY <1>7, <2>4, <2>5
<1> QED BY <1>7, <1>10, <1>11, <1>12

\* A file that was written ends the run and holds what the run published.
StubInv ==
  tbd # <<>> => /\ outcome # "running"
                /\ options.verifyAgainst => AliasesOf(tbd[1])

\* An alias is published wherever its base is, and with exactly the flags and
\* targets of the base when the declarations alone published the base.
THEOREM AliasesFollow == Spec => []AliasFollowsBase
<1>1. Init => StubInv
  BY DEF Init, StubInv
<1>2. TypeInv /\ StubInv /\ [Next]_vars => StubInv'
  <2> SUFFICES ASSUME TypeInv, StubInv, [Next]_vars PROVE StubInv'
    OBVIOUS
  <2>1. exports \in [Names -> [flags: Flags, targets: SUBSET Targets]]
    BY DEF TypeInv, TypeOK
  <2>2. CASE WriteOutput
    <3>1. UNCHANGED <<options, exports>> /\ outcome' # "running"
      BY <2>2 DEF WriteOutput, inputs, symbols
    <3>2. CASE tbd' = <<Published>>
      <4>1. options.verifyAgainst => AliasesOf(Published)
        BY <2>1, PublishedAliases
      <4>2. tbd'[1] = Published
        BY <3>2
      <4> QED BY <3>1, <4>1, <4>2 DEF StubInv, AliasesOf
    <3>3. CASE UNCHANGED tbd
      BY <3>1, <3>3 DEF StubInv, AliasesOf
    <3> QED BY <2>2, <3>2, <3>3 DEF WriteOutput
  <2>3. CASE Running /\ UNCHANGED tbd
    BY <2>3 DEF StubInv, Running
  <2>4. CASE UNCHANGED vars
    BY <2>4 DEF vars, inputs, symbols, ending, StubInv, AliasesOf
  <2>5. ASSUME NEW n \in Names, NEW d \in Visited, VisitDecl(n, d)
        PROVE  Running /\ UNCHANGED tbd
    BY <2>5 DEF VisitDecl, ending
  <2>6. CASE verifySwift \/ setTarget \/ EndFrontend \/ FrontendError
    BY <2>3, <2>6 DEF verifySwift, setTarget, EndFrontend, FrontendError, ending
  <2>7. CASE verifyRemainingSymbols \/ Verdict
    BY <2>3, <2>7 DEF verifyRemainingSymbols, Verdict, ending
  <2> QED BY <2>2, <2>3, <2>4, <2>5, <2>6, <2>7 DEF Next, DriverStep
<1>3. StubInv => AliasFollowsBase
  BY DEF StubInv, AliasesOf, AliasFollowsBase
<1> QED BY <1>1, <1>2, <1>3, TypeInvariant, PTL DEF Spec

=============================================================================
