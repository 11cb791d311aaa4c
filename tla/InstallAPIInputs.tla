-------------------------- MODULE InstallAPIInputs --------------------------
(***************************************************************************)
(* Driver::InstallAPI::run up to the construction of the verifier: the     *)
(* files it reads through one InterfaceFileManager (the reexported         *)
(* libraries, the libraries that clang builds for code coverage, the Swift *)
(* interfaces and the dylib to verify against), and what happens when one  *)
(* of them cannot be read.                                                 *)
(*                                                                         *)
(* InterfaceFileManager::readFile reads and parses a file every time, but  *)
(* hands out the interfaces it kept from the first time.  The environment  *)
(* may overwrite files while the driver runs, as it does in the B&I        *)
(* environment (a run elsewhere is one without an overwritten file: there  *)
(* the manager is not volatile and reads with the size of the first time). *)
(* An interface is a document; the library built for a target is named by  *)
(* the target.                                                             *)
(***************************************************************************)
EXTENDS Naturals, Sequences

CONSTANTS
  Paths,          \* the files named on the command line
  Docs,           \* the interfaces they may hold
  TargetSeq,      \* allTargets
  ReexportedLibraries,    \* paths found for -reexport-l
  ReexportedLibraryPaths, \* paths given to -reexport_library
  ReexportedFrameworks,   \* paths found for -reexport_framework, per target
  SwiftInputs,    \* paths given to -swift-installapi-interface
  VerifyAgainst,  \* the path given to -verify-against
  outputFile,     \* the temporary library of the coverage symbols
  OptionSet,      \* bound: the command lines considered
  MaxOverwrites   \* bound: files overwritten during the run

Targets == {TargetSeq[i] : i \in DOMAIN TargetSeq}
Options == [fileLists: BOOLEAN, coverage: BOOLEAN, verifyAgainst: BOOLEAN]

ASSUME InputsAssumption ==
  /\ ReexportedLibraries \in Seq(Paths) /\ ReexportedLibraryPaths \in Seq(Paths)
  /\ ReexportedFrameworks \in Seq(Paths) /\ SwiftInputs \in Seq(Paths)
  /\ VerifyAgainst \in Paths /\ outputFile \notin Paths
  /\ TargetSeq \in Seq(Targets)
  /\ OptionSet \subseteq Options /\ MaxOverwrites \in Nat

Absent == "absent"    \* no file
Damaged == "damaged"  \* a file that does not parse
None == "none"        \* no entry in the cache
Moved == "moved"      \* an entry whose API was moved out: a null pointer

ASSUME NamesAssumption ==
  {Absent, Damaged, None, Moved} \cap (Docs \cup Targets) = {}

VARIABLES
  options,    \* the command line
  disk,       \* path -> what the file holds
  seen,       \* paths that the FileManager has found
  missing,    \* paths that the FileManager remembers not to exist
  libraries,  \* the cache of the InterfaceFileManager
  step, next, \* where the driver is, index in the current loop
  reexports,  \* reexportedLibraryFiles, in order
  coverage,   \* coverageSymbols: targets, in order
  swift,      \* the Swift interfaces merged so far
  dylib,      \* what is verified against
  errors,     \* an error was reported: DiagnosticsEngine::hasErrorOccurred
  overwrites, \* files overwritten so far
  given       \* history: every path read, with the interface handed out

outside == <<options, disk, overwrites>>
cache   == <<seen, missing, libraries, given>>
vars    == <<outside, cache, step, next, reexports, coverage, swift, dylib, errors>>

Goto(s) == step' = s /\ next' = 1
Fail == errors' = TRUE /\ step' = "failed" /\ UNCHANGED next

-----------------------------------------------------------------------------
(* InterfaceFileManager::readFile *)

\* The FileManager caches both answers: what it has found is found for good, and a
\* missing file stays missing.
getFile(p) ==
  /\ seen' = IF p \notin missing /\ disk[p] # Absent THEN seen \cup {p} ELSE seen
  /\ missing' = IF p \notin seen /\ disk[p] = Absent THEN missing \cup {p} ELSE missing

Mut_ExistsOnly(p) == p \notin missing /\ disk[p] # Absent
Readable(p) == p \notin missing /\ disk[p] \in Docs

\* The file is parsed, but an interface kept from an earlier read wins.
Mut_Reread(p) == disk[p]
Result(p) == IF libraries[p] = None THEN disk[p] ELSE libraries[p]

\* The callers copy the vector of APIs; the one kept stays as it is.
ReadOK(p) ==
  /\ Readable(p) /\ getFile(p)
  /\ libraries' = [libraries EXCEPT ![p] = Result(p)]
  /\ given' = given \cup {<<p, Result(p)>>}

\* The file is unknown to the FileManager, cannot be opened or does not parse.
ReadError(p) ==
  /\ ~Readable(p) /\ getFile(p)
  /\ UNCHANGED <<libraries, given>>

-----------------------------------------------------------------------------
(* The reexported libraries *)

\* The lookups in their order; the frameworks are looked up once per target.
Mut_PathsFirst ==
  LET libs  == Len(ReexportedLibraries)
      paths == libs + Len(ReexportedLibraryPaths)
      fws   == Len(ReexportedFrameworks)
  IN [i \in 1 .. paths + Len(TargetSeq) * fws |->
        CASE i <= paths - libs -> [path |-> ReexportedLibraryPaths[i], searched |-> FALSE]
          [] paths - libs < i /\ i <= paths ->
               [path |-> ReexportedLibraries[i - (paths - libs)], searched |-> TRUE]
          [] OTHER ->
               [path |-> ReexportedFrameworks[((i - paths - 1) % fws) + 1], searched |-> TRUE]]
Lookups ==
  LET libs  == Len(ReexportedLibraries)
      paths == libs + Len(ReexportedLibraryPaths)
      fws   == Len(ReexportedFrameworks)
  IN [i \in 1 .. paths + Len(TargetSeq) * fws |->
        CASE i <= libs -> [path |-> ReexportedLibraries[i], searched |-> TRUE]
          [] libs < i /\ i <= paths ->
               [path |-> ReexportedLibraryPaths[i - libs], searched |-> FALSE]
          [] OTHER ->
               [path |-> ReexportedFrameworks[((i - paths - 1) % fws) + 1], searched |-> TRUE]]

\* An error is reported; the result is not looked at by the callers.
Mut_RetryRead(p) == IF Readable(p) THEN next + 1 ELSE next
NextLookup(p) == next + 1
accumulateReexports(p) ==
  /\ \/ ReadOK(p) /\ reexports' = Append(reexports, Result(p)) /\ UNCHANGED errors
     \/ ReadError(p) /\ errors' = TRUE /\ UNCHANGED reexports
  /\ next' = NextLookup(p) /\ UNCHANGED step

\* findLibrary does not use the cache of the FileManager.
LookUpReexport ==
  /\ step = "reexports" /\ next <= Len(Lookups)
  /\ LET l == Lookups[next] IN
       IF l.searched /\ disk[l.path] = Absent
       THEN Fail /\ UNCHANGED <<cache, reexports>>
       ELSE accumulateReexports(l.path)
  /\ UNCHANGED <<outside, coverage, swift, dylib>>

EndReexports ==
  /\ step = "reexports" /\ next > Len(Lookups)
  /\ Goto("headers")
  /\ UNCHANGED <<outside, cache, reexports, coverage, swift, dylib, errors>>

-----------------------------------------------------------------------------
(* The header files *)

\* After a file list was visited, any error reported so far ends the run.
Mut_ListErrorsOnly == FALSE
EndsAfterFileLists == options.fileLists /\ errors
ReadHeaders ==
  /\ step = "headers"
  /\ \/ ~EndsAfterFileLists /\ Goto("coverage") /\ UNCHANGED errors
     \/ EndsAfterFileLists /\ Fail
     \/ Fail  \* no framework, a bad file list, a header that does not exist
  /\ UNCHANGED <<outside, cache, reexports, coverage, swift, dylib>>

-----------------------------------------------------------------------------
(* The coverage symbols *)

\* clang overwrites the output file for every target; the API is moved out of the
\* vector that the manager keeps, and a null API is skipped.
CoverageTarget ==
  /\ step = "coverage" /\ options.coverage /\ next <= Len(TargetSeq)
  /\ \/ /\ disk' = [disk EXCEPT ![outputFile] = TargetSeq[next]]
        /\ coverage' = IF libraries[outputFile] = None
                       THEN Append(coverage, TargetSeq[next]) ELSE coverage
        /\ libraries' = [libraries EXCEPT ![outputFile] = Moved]
        /\ next' = next + 1
        /\ UNCHANGED <<step, errors>>
     \/ Fail /\ UNCHANGED <<disk, coverage, libraries>>
  /\ UNCHANGED <<options, overwrites, seen, missing, given, reexports, swift, dylib>>

EndCoverage ==
  /\ step = "coverage" /\ (options.coverage => next > Len(TargetSeq))
  /\ Goto("swift")
  /\ UNCHANGED <<outside, cache, reexports, coverage, swift, dylib, errors>>

-----------------------------------------------------------------------------
(* The Swift interfaces and the dylib *)

\* Each interface is read and merged; both may fail.
ReadSwift ==
  /\ step = "swift" /\ next <= Len(SwiftInputs)
  /\ LET p == SwiftInputs[next] IN
       \/ /\ ReadOK(p) /\ swift' = Append(swift, Result(p)) /\ next' = next + 1
          /\ UNCHANGED <<step, errors>>
       \/ (ReadOK(p) \/ ReadError(p)) /\ Fail /\ UNCHANGED swift
  /\ UNCHANGED <<outside, reexports, coverage, dylib>>

\* The alias lists come next; they are not read through the manager.
EndSwift ==
  /\ step = "swift" /\ next > Len(SwiftInputs)
  /\ (Goto("dylib") /\ UNCHANGED errors) \/ Fail
  /\ UNCHANGED <<outside, cache, reexports, coverage, swift, dylib>>

\* The binary info may differ (verifyBinaryInfo).
ReadDylib ==
  /\ step = "dylib" /\ options.verifyAgainst
  /\ \/ /\ ReadOK(VerifyAgainst) /\ dylib' = Result(VerifyAgainst)
        /\ ((Goto("ready") /\ UNCHANGED errors) \/ Fail)
     \/ ReadError(VerifyAgainst) /\ Fail /\ UNCHANGED dylib
  /\ UNCHANGED <<outside, reexports, coverage, swift>>

NoDylib ==
  /\ step = "dylib" /\ ~options.verifyAgainst
  /\ Goto("ready")
  /\ UNCHANGED <<outside, cache, reexports, coverage, swift, dylib, errors>>

-----------------------------------------------------------------------------
\* "Files in B&I env can be overwritten" (InstallAPIDriver.cpp 434).
Overwrite(p) ==
  /\ step \notin {"ready", "failed"} /\ overwrites < MaxOverwrites
  /\ \E content \in Docs \cup {Absent, Damaged} : disk' = [disk EXCEPT ![p] = content]
  /\ overwrites' = overwrites + 1
  /\ UNCHANGED <<options, cache, step, next, reexports, coverage, swift, dylib, errors>>

Init ==
  /\ options \in OptionSet
  /\ \E f \in [Paths -> Docs \cup {Absent, Damaged}] :
       disk = [p \in Paths \cup {outputFile} |-> IF p \in Paths THEN f[p] ELSE Damaged]
  /\ seen = {} /\ missing = {} /\ given = {}
  /\ libraries = [p \in Paths \cup {outputFile} |-> None]
  /\ step = "reexports" /\ next = 1
  /\ reexports = <<>> /\ coverage = <<>> /\ swift = <<>> /\ dylib = None
  /\ errors = FALSE /\ overwrites = 0

DriverStep ==
  \/ LookUpReexport \/ EndReexports \/ ReadHeaders \/ CoverageTarget \/ EndCoverage
  \/ ReadSwift \/ EndSwift \/ ReadDylib \/ NoDylib

Next == DriverStep \/ \E p \in Paths : Overwrite(p)

Spec == Init /\ [][Next]_vars
FairSpec == Spec /\ WF_vars(DriverStep)

-----------------------------------------------------------------------------
(* Properties *)

Contents == Docs \cup Targets
Steps == {"reexports", "headers", "coverage", "swift", "dylib", "ready", "failed"}

\* Files, cache and results have their types.
TypeOK ==
  /\ options \in Options
  /\ disk \in [Paths \cup {outputFile} -> Contents \cup {Absent, Damaged}]
  /\ \A p \in Paths : disk[p] \notin Targets \ Docs
  /\ seen \subseteq Paths /\ missing \subseteq Paths
  /\ libraries \in [Paths \cup {outputFile} -> Contents \cup {None, Moved}]
  /\ step \in Steps /\ next \in Nat \ {0}
  /\ reexports \in Seq(Docs) /\ swift \in Seq(Docs) /\ coverage \in Seq(Targets)
  /\ dylib \in Docs \cup {None}
  /\ errors \in BOOLEAN /\ overwrites \in 0 .. MaxOverwrites
  /\ given \subseteq Paths \X Docs

\* One run has one view of a file: whoever reads the same path again, to merge it,
\* to verify against it or for the next target, gets the interface of the first
\* read, although the file was read again and may have been overwritten.
OneViewPerPath == \A g, h \in given : g[1] = h[1] => g[2] = h[2]

\* With a file list, an error reported before it stops the run.
FileListsStopErrors == options.fileLists /\ step = "ready" => ~errors

\* The n-th reexported interface is what a read of p has handed out.
Shows(n, p) == <<p, reexports[n]>> \in given

\* Past the lookups, a run without a reported error has the interfaces of all the
\* reexported libraries, each once and in order: those found for -reexport-l, those
\* given by their path, and then, for every target, those of the frameworks.  That is
\* what the symbols are looked up in.
ReexportsComplete ==
  step \notin {"reexports", "failed"} /\ ~errors =>
    LET libs  == Len(ReexportedLibraries)
        paths == Len(ReexportedLibraryPaths)
        fws   == Len(ReexportedFrameworks)
    IN /\ Len(reexports) = libs + paths + Len(TargetSeq) * fws
       /\ \A i \in 1 .. libs : Shows(i, ReexportedLibraries[i])
       /\ \A i \in 1 .. paths : Shows(libs + i, ReexportedLibraryPaths[i])
       /\ \A t \in 1 .. Len(TargetSeq), i \in 1 .. fws :
            Shows(libs + paths + (t - 1) * fws + i, ReexportedFrameworks[i])

\* The run ends, whatever is missing, damaged or overwritten meanwhile.
Finishes == <>(step \in {"ready", "failed"})

-----------------------------------------------------------------------------
(* What the source says of itself and the code does not keep *)

\* "When code coverage is enabled we need to generate extra symbols manually"
\* (InstallAPIDriver.cpp 966): for every target, as the stub has them per target.
CoverageForEveryTarget ==
  step = "ready" /\ options.coverage /\ ~errors =>
    {coverage[i] : i \in DOMAIN coverage} = Targets
=============================================================================
