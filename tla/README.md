# Verification of libtapi

TLA+ specifications of the core of libtapi and of the `tapi` tool, checked with
TLC on small instances and proved with TLAPS for every instance. libtapi turns headers and dynamic libraries into text-based stubs
(`.tbd` files), the files the linker reads in place of the libraries. A stub that
is wrong, or that is accepted although it disagrees with the library, breaks
every client at link time or at launch; a stub that is rewritten without need
rebuilds every client. These two promises are what the specifications are about.

Paths below are relative to `src/src/tapi/` unless they begin with `src/`.
`PROJECT.json` holds the exact map from every definition to the lines it models.

## The modules

| module | models | state machine |
|---|---|---|
| `SymbolVerifier` | `lib/Core/SymbolVerifier.cpp`, and `InstallAPI::run` from the construction of the verifier to the exit status | one run of `tapi installapi` |
| `SymbolVerifierProofs` | theorems about `SymbolVerifier` | |
| `InstallAPIInputs` | `InstallAPI::run` up to the verifier, and `InterfaceFileManager::readFile` | the same run, earlier |
| `InstallAPIInputsProofs` | theorems about `InstallAPIInputs` | |
| `OutputFile` | `InterfaceFileManager::writeFile`, `Registry::writeFile`, `raw_fd_ostream` | processes that write one path |
| `OutputFileProofs` | theorems about `OutputFile`, and that it implements `OutputPromise` | |
| `OutputPromise` | what the drivers rely on when they write a file | abstract specification |
| `Stubify` | `lib/Driver/StubDriver.cpp` | runs of `tapi stubify` over one tree |
| `InlineFrameworks` | `inlineFrameworks` and the lookup of reexports, instantiated by `Stubify` | the recursion of one conversion |
| `StubifyProofs` | theorems about `Stubify` and `InlineFrameworks` | |
| `StubifyTreeProofs` | theorems about the names and stubs that `Stubify` leaves of a tree | |
| `StubifyLinksProofs` | and about the links | |
| `StubifyAgainProofs` | and about what is inlined and a second run | |
| `APIRecords` | `readSymbols`, `API::addGlobalFromBinary`, `API2SymbolConverter`, `addInterfaceFileToAPIs` | from a library to its stub, and back |
| `APIRecordsProofs` | theorems about `APIRecords` | |
| `MCSymbolVerifier`, `MCInstallAPIInputs`, `MCOutputFile`, `MCStubify`, `MCAPIRecords` | constants for TLC | |

`InstallAPIInputs` ends where `SymbolVerifier` begins: its step "ready" is the
initial state of the other, its `coverage` is the constant `CoverageAPIs`, its
`reexports` become the constant `Reexports`, its `swift` the constant
`SwiftInterface` and its `dylib` the variable `dylib`. `SymbolVerifier` ends in
the action `WriteOutput`, in which the writing of the stub either happens or
fails: that is `OutputPromise`, which `OutputFile` is shown to implement.
`WriteFile` of `Stubify` relies on the same promise, except that a crash may cut
the file short (`OF_atomic` shows when). `APIRecords` stands between the readers
and both drivers: it yields the records that `SymbolVerifier` calls `dylib`, and
the symbols of the documents that `Stubify` writes.

## Inventory

The components of the repository, the state each keeps, and what makes it hard.
`src/src/llvm` and `src/src/clang` are vendored, nearly all of the repository's
lines; only the places of LLVM and clang that the modelled code depends on
(`raw_fd_ostream`, `clang::FileManager`, `InterfaceFile::inlineLibrary`,
`parseSymbol`, `SymbolSet::addGlobal`) are modelled.

* **installapi driver** (`lib/Driver/InstallAPIDriver.cpp`, `InstallAPI::run`).
  State: the command line, the lists of targets, headers, reexported libraries
  and Swift interfaces, the coverage symbols, the verifier. Operations: read the
  inputs; for each target run the frontend once per header type and argument set;
  visit the remaining symbols; merge and write. Calls the interface file manager,
  the frontend, the verifier and the SDKDB builder. Hard: one of many inputs
  fails; a result that is dropped; files overwritten meanwhile. Correct when a
  stub is written only if nothing failed, and every failure is reported.
* **Symbol verifier** (`lib/Core/SymbolVerifier.cpp`, `include/tapi/Core/SymbolVerifier.h`).
  State: the context (target, pointers to the slice and to the coverage API, the
  state of the frontend), the set of exports, the deferred records of zippered
  libraries, the `verified` bit of every dylib record. Operations: `setTarget`,
  `verify`, `verifyRemainingSymbols`, `verifySwift`, `getExports`. Called back by
  the AST visitor, once per declaration. Hard: a record is verified each time a
  declaration is merged into it, before the later ones are known; a pointer of
  the context may be stale; zippered records are judged long after they were
  seen. Correct when success means agreement of headers and dylib, and the stub
  lists nothing that is not declared and exported.
* **Interface file manager and registry** (`lib/Core/InterfaceFileManager.cpp`,
  `lib/Core/Registry.cpp`). State: the cache of parsed files by path, the files
  themselves. Operations: `readFile`, `writeFile`. Hard: interfaces cached but
  files re-read; temporary file, rename and a stream that flushes afterwards;
  two builds writing the same path. Correct when a run sees one version of each
  file, and the output of a call that does not die is a whole document, untouched, or
  empty after an error in place.
* **API records** (`lib/Core/API.cpp`, `include/tapi/Core/API.h`). State: per
  target the globals, Objective-C interfaces, categories, protocols, enums,
  typedefs. Operations `addGlobal`, `addObjC*`, `findContainer`. Hard: records
  are merged from several declarations, in any order.
  An Objective-C class is one record for up to three symbols, and an ivar hangs
  on its class if that is known already: the order of the symbol table matters.
* **API to symbol conversion** (`lib/Core/API2SymbolConverter.cpp`), a pure
  traversal from records to a symbol set. Correct when the stub has what the
  library exports, and nothing else.
* **Header visitor** (`lib/Frontend/APIVisitor.cpp`) and **Frontend**
  (`lib/Frontend/Frontend.cpp`, `FrontendContext.cpp`). State: the API of one
  frontend run. They parse with clang and call the verifier.
* **Mach-O reader** (`lib/Core/MachOReader.cpp`, `MachODylibReader.cpp`),
  **Objective-C metadata** (`lib/ObjCMetadata`): decoding of binaries, no state;
  `readSymbols` fills the API records in the order of the binary.
* **Text stub readers and writers**, **API JSON**: serialization.
* **Linker interface** (`tools/libtapi/LinkerInterfaceFile.cpp`). State: one
  opened stub as the linker sees it. Operations: choose an architecture, process
  `$ld$` directives, list exports and reexports. Pure, with numeric edges.
* **Stubify driver** (`lib/Driver/StubDriver.cpp`). State: the tree on disk; of a
  run, the symlinks by target, the libraries by name, their original names and
  the files to delete. Operations: scan, convert (with the recursion over
  reexports), write, relink, delete. Hard: write, relink and delete are separate
  calls that fail or die in between; the next run starts from what is left; the
  order of the directory is anybody's. Correct when no name of a library is ever
  lost, and a run that succeeds has mirrored the tree.
* **Library lookup and interface files** (`lib/Core/Utils.cpp`): pure functions
  of paths and of the file system.
* **Directory scanner** (`lib/Driver/DirectoryScanner.cpp`, with `Framework`,
  `HeaderFile`, `FileManager`). State: the frameworks found and their headers.
* **Archive and reexport drivers**: extract, remove and merge architectures.
* **SDKDB** (`lib/SDKDB`, `lib/Driver/SDKDBDriver.cpp`) and its **bitcode**.
  State: databases of APIs by target. Hard: partial databases merged in any order.
* **API verifier** (`lib/APIVerifier`). State: the cache of pairs of declarations
  known to differ. Hard: recursive comparison of cyclic declarations with a cache.
* **Diagnostics** (`lib/Diagnostics`). State: error counts, ignored warnings.
* **Options and configuration**, **file lists and globs**, **API visitors,
  printer and normalizer**, **command-line tools**: no state that outlives a call.

All of it is single-threaded. Concurrency comes from outside: other processes
read and write the same files (parallel builds share outputs, and the source
expects inputs to be overwritten during a run, `InstallAPIDriver.cpp` 434).

### Hazards

`PROJECT.json` lists every hazard found, at its line. The ones the present
modules answer: an Invalid result lost among later results; a record published
before it is complete; a stale pointer to the slice or to the coverage API; a
target without a slice; the order in which deferred records are judged; a failure
that is not reported or not acted on; a file seen in two versions; an output
mixed from two processes, cut short, or touched without need; a name of a library
lost between two calls of `stubify` or by its next run; a recursion without end; a
private library that its stub leaves out; a class or an ivar whose symbols depend
on the order of the symbol table. A hazard without a property has a note: the
code promises nothing there that could be checked, or its component is not
modelled yet.

## SymbolVerifier

### State and code

| variable | code |
|---|---|
| `options` | `TAPIOptions`: the verification mode, `-verify-against`, `-verify-swift` |
| `dylib` | the APIs of the dylib; both platforms of an architecture share one Mach-O file and so one record |
| `step`, `ti`, `pass` | where `InstallAPI::run` is: target loop, loop over frontend runs |
| `api` | the `API` of the frontend run, into which declarations of one symbol are merged |
| `target`, `dylibAPI`, `coverageAPI`, `frontendState` | the fields of `VerifierContext` |
| `verified` | the `verified` bit of the dylib records |
| `exports` | the `SymbolSet` `exports` |
| `ignoredZipperedRecords`, `checkedZippered` | the list of deferred records, and the `verified` bits of its elements |
| `verifiedSwift`, `passedBinary` | the flag of the verifier, the local of `run` |
| `diags` | what was reported, as a set of (severity, kind, name, target) |
| `outcome`, `tbd` | the exit status, the stub |
| `declared` | history only: each record at the moment it was verified |

A declaration is visited in `VisitDecl`, in one step: the merge (`AddGlobal`), the
verification (`verifyImpl`, through `checkVisibility`, `checkAvailability` and
`checkSymbolFlags`) and the update of the state of the frontend. The other
actions are `verifySwift`, `setTarget` (with `lookupAPIs`), `EndFrontend`,
`FrontendError`, `verifyRemainingSymbols` (the whole visit of one architecture),
`Verdict` and `WriteOutput` (with `getExports` and `mergeInterfaces`).

`Settle(result, ds)` is `updateFrontendState` after reporting. `PrivateExternRead`
is a nondeterministic choice for a variable: `shouldIgnorePrivateExternAttr` casts
its declaration to `FunctionDecl`, which is undefined behaviour.

What the records leave out: the type of the symbol (a global, or an Objective-C
instance variable, which takes the same path), its location, its wording in
diagnostics. Obsolete-and-unavailable counts as obsolete since every check tests
that first. Only symbols with a linkage of Internal or Exported are visited; a
dylib symbol that is undefined is not read.

### Properties

* `StubImpliesNoViolation`: no stub after any error, of any target or pass.
* `FailureIsReported`: a failed run has reported an error.
* `ExportsBacked`: whatever is published for a target was declared exported and
  available for that target, and is exported by the dylib for its architecture.
* `SuccessMeansAgreement`: on success headers and dylib agree on every declaration.
* `PedanticAccounts`: on pedantic success no symbol of the dylib is unaccounted.
* `UndeclaredIsUnknown`: an "undeclared" report is never about a symbol that the
  headers declare for that slice or publish for that architecture.
* `LinkerDirectivesDeclared`: `$ld$` symbols are never excused by a lenient mode.
* `AliasFollowsBase`: an alias is in the stub wherever its base is.
* `NoRetraction` (action property): Invalid stays, targets and flags stay.

`PedanticAccounts` is as precise as the code: the slice that is visited for an
architecture is the first one, and an obsolete declaration of any target ends the
loop over the deferred records of its name, so the exemptions say so.

### Runs

| run | instance | checks |
|---|---|---|
| `SV_single` | one target, two flags, all 12 command lines, every dylib record, every pair of declarations | `TypeOK FailureIsReported SuccessMeansAgreement NoRetraction` |
| `SV_zippered` | arm64 and x86_64, each for macOS and Catalyst, pedantic | `StubImpliesNoViolation ExportsBacked PedanticAccounts UndeclaredIsUnknown` |
| `SV_names` | two architectures, three names with an exemption each, the two extreme modes | `SuccessMeansAgreement LinkerDirectivesDeclared AliasFollowsBase` |
| `SV_slices` | crossed targets and slices | refutes `TargetSliceExists` |

Bounds. `MaxVisits` is the number of declarations visited in one frontend run:
two suffice for a merge (first declaration, later declaration), and a third
changes nothing a second does not, since a merge only raises the linkage and
overwrites `inlined`. `SV_zippered` has one visit per run: four targets and a merge
together are left to the theorems. `Passes` is the number of frontend runs per target; a run
starts from an empty API and leaves its traces in the verifier only, as a change
of target does, so one pass and several targets cover the interplay of passes.
`Visited` and `OptionSet` select declarations and command lines: all of them
where there is one target, the exported or hidden, available, withdrawn or
obsolete ones where there are four. Two architectures times two platforms is
the largest shape the code distinguishes: it asks only for macOS and Catalyst
when it decides that a library is zippered. `Reexports` and `CoverageAPIs` of
`SV_names` hold for arm64 only, so that a context left at the wrong target shows;
that is also the only shape of `CoverageAPIs` that the driver can produce when
there are several targets (see the finding of `IN_coverage`).

That the loops over targets and passes advance is the shape of a range-based `for`
and no property here, so the runs assume no fairness. Deadlock is not checked in any run: the tool ends.

## InstallAPIInputs

The cache (`libraries`) maps each path to the interface first read from it; the
file on `disk` is parsed at every read, because of the "overwritten" comment, but
the cached interface is handed out (`Result`). `seen` and `missing` are what
`clang::FileManager` remembers (`getFile`): a path that it has found is never looked
up again, nor is one that it has not found. `Moved` marks the interface of the coverage library, which
the driver moves out of the vector the cache owns. One action per read:
`LookUpReexport` (with `accumulateReexports`), `CoverageTarget`, `ReadSwift`,
`ReadDylib`; the scan of headers, the alias lists and the comparison of the binary
info succeed or fail. `Overwrite` is the environment: at any moment of the run a
file is replaced, damaged or removed. The source expects that in the B&I
environment, and makes the manager volatile there, so that the size of a file is
read anew with its text. Elsewhere the size of the first read is used again; there
nothing is expected to change, and a run without `Overwrite` is such a run.

* `OneViewPerPath`: every reader of a path, in the whole run, gets the same interface.
* `FileListsStopErrors`: with a file list an earlier error stops the run.
* `ReexportsComplete`: without a reported error every reexported library has its
  interface, the one that reading its path has handed out, once and in the order of
  the lookups (libraries, library paths, and for every target the frameworks).
* `Finishes`: the run ends; `WF_vars(DriverStep)`, for the driver is a sequential
  program that waits for nothing. A file that cannot be read must not be read forever.

`IN_reads` has two paths that play all the roles (the dylib is also a reexported
library, the framework also a Swift input, so the same path is read up to four
times), two frameworks per target, two interfaces, two targets, every option, and
two overwrites: a file must change between two reads, and once more to change back. `IN_coverage`
overwrites nothing: its finding needs no interference.

## OutputFile and OutputPromise

A document stands for an interface in a format; its text is a sequence of pieces,
one per `write(2)`. A file is an index into `data`, so that a process may hold a
file open that another has renamed or replaced. One run of a process is
`Begin`, `shouldWrite`, then either `writeFileWithoutTemporary` (truncate in
place) or `createUniqueFile`, then `flush_nonempty` per full buffer, `EndOfText`,
`rename`, and `closeStream`, the destructor of the stream, which flushes what is
still buffered and aborts the process when the stream has seen an error. `NoText` is the
error of `Registry::writeFile` on the stream: no writer takes the interface in the
format (a v1 stub of a library that is not safe for application extensions), or the
writer fails. `installapi` and `archive` do not ask `canWrite` first, so the path may
have been truncated by then, and a temporary file stays behind. `Crash`
may happen at every step. `Faults` says which calls may fail.

* `EqualFileUntouched`: a file with an equal interface keeps its identity and content.
* `NoTemporaryAfterSuccess`: success leaves no temporary file.
* `QuietFileIsWhole`, `NeverMixed`: two processes never mix their documents.
* `ImplementsPromise`: with one writer, a call that returns success has written the
  whole document; one that returns an error has left the path as it was or, when it
  had opened the path to write in place, empty; and only a process that dies may leave
  anything else, at a path it has opened. The mapping observes the path when a call
  begins and when it has ended (`Observed`), and the path is opened when it names the
  file of the stream (`Opened`): from the start in place, after the rename otherwise.
* `Finishes`: every call ends; `WF` of each writer: the calls block on nothing but
  the file system.

`OF_single` runs one process twice with every fault; two runs are what it takes to
find the leftovers of the first. `OF_writers` runs two processes, twice each, with
crashes and documents of one and three pieces: a short document is buffered
entirely at the rename, a long one partly. `OF_atomic` has one process and no fault.
A damaged existing file is assumed to lack part of the interface, so it is never
taken for equal.

## Stubify and InlineFrameworks

### State and code

The tree outlives a run: `disk` maps every path that may exist to what is there
(nothing, a library, a text stub with its documents, a stub cut short, something
damaged, a foreign file, or a symbolic link), `dirs` are the directories. The
other variables are those of one run and are forgotten when it ends or dies.

| variable | code |
|---|---|
| `disk`, `dirs` | the file system below the input |
| `opts`, `reexports` | the command line; what each library reexports |
| `todo` | the entries `recursive_directory_iterator` has not come to, in any order |
| `symlinks`, `dylibs`, `originalNames`, `toDelete` | the locals of `stubifyDirectory` |
| `left`, `current`, `links`, `link` | the loops over `dylibs` and over the links of one library |
| `dir` | the directory to remove next, after a file in it was deleted |
| `stack` | the calls of `inlineFrameworks` in progress: the library, its reexports still to visit, its documents so far |
| `first`, `after`, `cut`, `abandoned` | history: the tree at first, the tree after the last success, the stubs cut short, the directories whose removal was cut off |

One action per call that changes or may fail: the scan of an entry (`ScanLink`,
`ScanFile`, `ScanPrivate`, `ScanOther`, `ScanError`), `Convert`, the steps of
`inlineFrameworks`, `WriteFile`, `RemoveLink`, `CreateLink`, `Delete`, and
`RemoveDirectory`, which takes the directories of a deleted file one by one,
upwards, and ends at the first that cannot be removed, for whatever reason; for one
file `ReadInput` and `DeleteInput`. `Crash` may happen at each of them, and
`Begin` starts the tool again over what is left, with the same command line.

A path is a directory, a name and an extension, so that `Tbd` is
`replace_extension`, and a path through a link to a directory (`Versions/Current`)
is another name of the same file (`Alias`, `Real`). `Target` is `realpath`: it
follows `MaxLinks` links, and a path that needs more is a cycle. `WriteFile` takes
from `OutputPromise` that the file is whole or untouched, unless the process dies
(the driver has asked `canWrite` before, lines 263 and 485, so no error comes after
the file was opened);
it writes through a link that leads somewhere else than to a stub (`Written`),
which is what `shouldWrite` and the rename do.

### Properties

* `NamesKept`: at every moment each name that a library had at first, its file and
  all links to it, leads to the library, or its `.tbd` twin leads to a whole stub
  of it. This is why the inputs are deleted last.
* `Mirrored`: after a run that succeeds every name has its twin, also when the run
  takes up what a failed or killed one left.
* `Idempotent`: a run that succeeds after another one that did changes nothing.
* `TextWins`: a stub in the tree is preferred to its library in any scan order.
* `NothingDangles`: no public link leads nowhere.
* `Pruned`: at every moment an emptied directory still has its turn in the deletion in
  progress, or its removal was cut off by an error or a crash (`abandoned`). The code
  does not come back to it: a later run has no file to delete there.
* `SelfContained`: a stub written with its private reexports inlined has all of
  them, and those of its documents, among its documents.
* `OverflowMeansCycle`: the recursion without a visited set runs out of stack only
  on a cycle of private libraries.

What the properties exempt is what the code cannot keep, and each exemption is in
the comment of the property:

* names whose stub a crash cut short (`cut`, in `NamesKept` and `Mirrored`): the next
  run prefers the stub, which still parses, to the library it came from;
* names deleted as private, and links whose way goes through one (`DeletedLinks`,
  `Unprotected`): the file at the end is protected only while the private link is
  there. The same goes for a way through an old `.tbd` link that is not the twin it
  should be and is replaced by it (`RenewedLinks`); and a private link that one run
  skips as too long may be deleted by the next;
* for a moment, a link to a link (`NamesKept`): a deletion that fails between the two
  leaves the first without the second, and the next run takes the second's twin away
  before it makes it again;
* an old link to a stub (`OldStubLinks`), which nobody renews, on a way that becomes
  longer than the system follows.

### Runs

| run | instance | checks |
|---|---|---|
| `ST_tree` | a library with a link and perhaps a stub, a private library or one that cannot be converted; a framework whose link goes through `Versions/Current`; links to links, public and private, and old links to stubs; three libraries that reexport each other; one file. Two runs, every option and fault, a crash at every step | `TypeOK TextWins NamesKept Mirrored NothingDangles Idempotent Pruned SelfContained OverflowMeansCycle` |
| `ST_mirror` | a link that differs from its target in the extension only, one run, no fault | refutes `Mirrored` |

Bounds. `MaxRuns` is 2: a run that fails or dies and one that follows it; the second
run sees every tree the first can leave, and a third would start from the same
kinds of trees. `MaxLinks` is 2, the longest chain an SDK has (the top of a
framework to `Versions/Current` to `Versions/A`). `MaxDepth` is 4, one frame for
each library: every chain without a repetition fits, so that an overflow is a
cycle; the proof needs no more of it. The graphs have a direct and an indirect
path to the same library, a cycle of private libraries, and a private library that
reexports the public one. The trees are tidy (`TidyTree`): one library or
link per name, no link with the name of its target (`ST_mirror` has one); the hazards
at lines 458 and 529 say what happens otherwise. Those that inline are placed
(`PlacedTree`): each embedded library is where its install name points. Links to directories are fixed
(`Alias`), so none is in a private place, where a run would delete it.

There is no liveness property, so no fairness is assumed: the loops are over finite
maps and sets, and a recursion that does not end is an overflow of the stack.

The temporary file that a killed run leaves when it was about to replace a stub
(`OutputFile`) is not part of the tree here. Its name ends in `.tmp`, and it is cut
short or whole; the scan of the next run would read it like any other file.

## APIRecords

`AddSwift` and `ReadSymbol` are `readSymbols`: first the Swift symbols of the
exports trie, then the symbol table, in any order. What the table says of a symbol
is `TableLinkage`: a symbol that it calls exported and the trie does not list is
left out. So is a symbol that only the trie lists, as in a library whose table was
stripped, unless it is a Swift symbol: the workaround of lines 342-347 is for these
alone. `addGlobalFromBinary` hangs a symbol on a global, on one of the three
linkages of an interface, or on the ivars of the interface or of a category.
`Convert` is `API2SymbolConverter`, `ReadText` is `addInterfaceFileToAPIs`, after
which `Convert` may follow again. A symbol has its kind and its name; of its flags
the model keeps what the linkage says. `early` is history: the ivars that were read
while their class was not known.

* `StubIsComplete`: every symbol that the trie lists is in the stub, except an ivar in
  `early` and a symbol that the table does not list and that is not Swift's
  (`TrieOnly`).
* `NothingInvented`: the stub has nothing else, except the nameless remains of an
  ivar in `early`, and the exception type of an exported class that is hidden or
  undefined itself (`hasExceptionAttribute` only asks whether there is a linkage).
* `IvarsFound`: the lookup that verification uses finds every ivar that was read,
  unless its class came later.
* `RoundTrip` (action property): reading the stub and writing it again changes
  nothing, unless the stub has an ivar without its class.

`AR_stub` has two classes, each symbol of the first exported, hidden, missing or
stripped from the table (or its exception type undefined), one ivar each, and plain
symbols: reexported, exported without an entry in the trie, undefined, local, stripped,
and Swift symbols in the table or not; the table in every order. Two classes are what it takes to confuse their categories. One target: the
records of two targets are separate objects.

## What is proved

Thirty-six theorems, each for every value of the constants that meets the named
assumptions. TLC evaluates the assumptions in every run.

### The verifier

`SymbolVerifierProofs` proves, for every set of names and flags, every sequence of
targets and slices, any number of passes and visits and any declarations:

| theorem | statement |
|---|---|
| `TypeCorrect` | `Spec => []TypeOK` |
| `VerdictSound` | `Spec => []StubImpliesNoViolation` |
| `FailureReported` | `Spec => []FailureIsReported` |
| `ExportsAreBacked` | `Spec => []ExportsBacked` |
| `NeverRetracts` | `Spec => NoRetraction` |
| `AgreementOnSuccess` | `Spec => []SuccessMeansAgreement` |
| `UndeclaredReportsAreTrue` | `Spec => []UndeclaredIsUnknown` |
| `DirectivesAreDeclared` | `Spec => []LinkerDirectivesDeclared` |
| `PedanticSuccessAccounts` | `Spec => []PedanticAccounts` |
| `AliasesFollow` | `Spec => []AliasFollowsBase` |

Assumptions. `ShapeAssumption` gives the constants their types (a
linker directive is a symbol name, and the aliases are distinct: they are the keys of
a map).
`BinaryInfoAssumption` is what `verifyBinaryInfo` establishes before the verifier
exists: equal sets of platforms and equal sets of architectures (and not: a slice
for every target). `BoundAssumption` says that the bounds select among the
declarations and options there are.

Argument. `verifyImpl` is summed up once: whatever it does is an `Effect`
(`VerifyEffect`): it settles a report whose result is Invalid exactly when the
report holds an error, publishes the record only if it is exported, available and
backed by the slice of the context, and defers it otherwise. The invariants:

* `TypeInv` adds to `TypeOK` that inside a frontend run the target is one of the
  targets: `AddSymbol` and `DeferZippered` record it.
* `VerdictInv`: while the driver runs there is no stub, an error has been reported
  exactly when the frontend is Invalid or the binary did not pass, and the step
  that writes is reached only when neither holds. Neither `StubImpliesNoViolation`
  nor `FailureIsReported` is inductive without this equivalence: one needs each
  direction of it.
* `ContextInv`: with a dylib, the slice of the context is the one of the target.
  `ExportsBacked` needs it, because `verifyImpl` reads the slice by the pointer.
* `AgreementInv`: every record verified agrees, or an Invalid result was settled;
  with `VerdictInv` it gives `SuccessMeansAgreement`.
* `HistoryInv` says what a mark (`setVerified`) in the dylib stands for, in both
  directions. Every declaration of a symbol the slice holds has marked it, unless a
  reexport took it (`DeclaredMarked`); and each mark is the Swift interface's or has
  a declaration of that slice that is exempt, published, refused or deferred
  (`MarksExplained`), where a deferred obsolete record has a declaration behind it
  (`DeferredDeclared`). The first direction needs that a run whose target has no
  slice ends in the assertion before it reads a header (`SliceInv`), the second that
  no merged record has an unknown linkage (`LinkageKnown`).
* `UndeclaredInv`: a symbol is reported as undeclared only after the last frontend
  run; with the first direction it gives `UndeclaredIsUnknown`.
* `RemainingInv`: as long as the binary passes, no slice already examined holds a
  symbol that fails it. It is inductive because later examinations only add to
  `checkedZippered`, which can excuse a symbol but never accuse one
  (`ViolationsShrink`); with the second direction it gives
  `LinkerDirectivesDeclared` and, since a pedantic run that passes has reported no
  deferred record, `PedanticAccounts`.

`AliasesFollow` is about the result of a recursive function over the alias map. The
prover has no induction over data, so a least counterexample takes its place; since
the keys are distinct each entry is written once, and what was written for an alias,
with what its base had, is still there at the end.

### The inputs

`InstallAPIInputsProofs`, for any paths, interfaces, targets, sequences of inputs,
options and any number of overwritten files:

| theorem | statement |
|---|---|
| `TypeCorrect` | `Spec => []TypeOK` |
| `ViewIsStable` | `Spec => []OneViewPerPath` |
| `ListsStopErrors` | `Spec => []FileListsStopErrors` |
| `NoReexportLost` | `Spec => []ReexportsComplete` |

`InputsAssumption` gives the constants their types; `NamesAssumption` keeps the
markers for "no file" and "no entry" apart from the interfaces. `TypeInv` adds to
`TypeOK` that the files of the command line never hold the library clang built for
a target. `CacheInv` says that what was handed out for a path is what the cache
still holds for it: with `TypeInv` no entry of such a path is ever moved out.
`LookupInv`: as long as no error was reported each lookup has added one interface,
and the n-th is what reading the path of the n-th lookup handed out. `Lookups` has
`Asked` of them (`LookupsLength`); which path each has is `LibraryLookups` and
`FrameworkLookups`, where the frameworks of the t-th target are found with a
remainder (`PlaceInRow`). `ListInv` is `FileListsStopErrors` for all later steps.

### The output file

`OutputFileProofs`, for any processes, documents of any length, number of runs,
faults and files at first:

| theorem | statement |
|---|---|
| `TypeCorrect` | `Spec => []TypeOK` |
| `TemporaryIsGone` | `Spec => []NoTemporaryAfterSuccess` |
| `ReadersSeeOneDocument` | `Spec => []NeverMixed`, if `write(2)` does not fail and the first file is whole |
| `LastWriterWins` | `Spec => []QuietFileIsWhole` |
| `KeepsPromise` | `Spec => ImplementsPromise`, for one process |
| `EqualFileSurvives` | `Spec => []EqualFileUntouched`, for one process |

The hypotheses of three of them are real: a failed write leaves a hole in a file
that was renamed already (`OF_atomic` shows the order), and a second process may
replace the file between the two observations of the first. `LastWriterWins` needs
neither, so it says more than the run `OF_writers`, which has no fault but crashes.
`WritersAssumption` and `DocsAssumption` say there is a process and a document, and
no text is empty; `FilesAssumption` says there is at most one file at first.

Argument. `RunInv` ties "running" to the place of the process. `TempInv` follows the
temporary file: none before it is opened, none at the close of a stream without a
failed rename. `PhaseInv` says how far the stream is at each place (at most one
piece is still buffered at the rename). `StreamInv` is the heart: as long as it is
`Calm`, which means that there is one process or none has written in place, open
streams have files of their own and each file holds exactly what its stream was
given (`Written`), unless a write failed. It is not true otherwise, because writing
in place truncates the file another process has just renamed to the path. From it
`CloseWhole`: a stream closed without an error has written the whole document. On
top of these, `PathInv` (somebody has still to finish, or somebody owns the path)
gives `LastWriterWins`, and `ObservedInv` (for one process: the path is as it was
found until it is opened in place or renamed to) gives the two facts of the refinement, that initial states
map to initial states (`PromiseInit`) and steps to steps or stutters (`PromiseStep`).

### Stubify

`StubifyProofs`, for any tree, links, graph of reexports, command line, faults and
number of runs:

| theorem | statement |
|---|---|
| `TypeCorrect` | `Spec => []TypeOK` |
| `StubsAreSelfContained` | `Spec => []SelfContained` |
| `OverflowTakesCycle` | `Spec => []OverflowMeansCycle` |

`TreeAssumption` gives the constants their shape (each path has its twin among the
paths, an alias of an alias is none), `InputsAssumption` types the inputs,
`StubsAssumption` says that a stub which is there at first came from the tool, and
`DepthAssumption` that the process has stack for a chain of all libraries.

The inductive invariant is `Inv`. `FilesOK`: the documents of every stub
on disk are closed under private reexports; it holds of the stubs this run writes
because it holds of what they are made from. `MapsOK`: the same of the stubs in
`dylibs`. `StackOK`: the calls in progress form a path of private reexports, and in
each of them whatever reexport is no longer to be visited is among the documents or
is the library of the next call; when the outermost call has nothing left, that is
`SelfContained`. `OverflowTakesCycle` is the pigeonhole principle: more calls than
libraries repeat one, and the calls between are a cycle. `Target` is a recursive
function; that it stays within the paths is proved by a least counterexample
(`ChainExists`, `TargetFacts`), since induction is out of the prover's reach.

`StubifyTreeProofs` and `StubifyLinksProofs`, for any tidy tree, options, faults,
crashes and number of runs:

| theorem | statement |
|---|---|
| `TextStubsWin` | `TidyInputs` implies `Spec => []TextWins` |
| `NoNameIsLost` | `TidyInputs` implies `Spec => []NamesKept` |
| `EveryNameIsMirrored` | `TidyInputs` implies `Spec => []Mirrored` |
| `NothingEmptyIsLeft` | `TidyInputs` implies `Spec => []Pruned` |
| `NoLinkDangles` | `TidyInputs` implies `Spec => []NothingDangles` |

`TidyInputs` is the one hypothesis: the input is a tree as the tool expects it
(`TidyTree`). Text stubs and the links to them are the files with the extension
`.tbd`; no two libraries or links differ in the extension only; a stub next to a
library is that library's, and there is no link in place of a stub nor a stub in
place of a link. TLC evaluates it for the inputs of `ST_tree`, and the tree of
`ST_mirror`, which refutes `Mirrored`, is the one that violates it.

Argument. `Layout` says what may have become of each file: an input is what it was or
gone; no link takes the place of a library's stub and no stub that of a link's twin
(`TreeOK`); what the scan recorded is true of the tree at first (`RecordsOK`); what is
converted has its stub and nothing else (`CurrentOK`); what was recorded is there until
the deletions begin (`PresentOK`). Tidiness is what makes it inductive: a link with
the name of its target would be relinked over the stub. On top of it:

* `TextOK` (for `TextStubsWin`): stubs that were scanned, and those not yet
  converted, are the interfaces recorded.
* `StoodIn` (for `NoNameIsLost` and `EveryNameIsMirrored`). `KeptOK`: a link is there
  or its twin is, and a library that is gone, itself or at the end of a link, has its
  stub. `ScannedOK`: what the scan came to is in its maps. `ProgressOK`: each library
  recorded is still to be converted, being converted, or done with all its links.
  `MirrorOK`: when the deletions begin all have been stood in for. `FileOK`: of a
  single file only the file itself is deleted. A run that takes up what a failed one
  left starts from `KeptOK`, which speaks of the tree alone.
* `RemovalOK` (for `NothingEmptyIsLeft`): a directory is about to be removed only while
  the deletions go on, and with one whose removal was cut off all those above it count
  as cut off. A step of `RemoveDirectory` that finds its directory not empty may end
  there, for what is above holds that directory, which has files or is excused.
* `FirstRunOK` (for `NoLinkDangles`), about the first run: the inputs are untouched
  before the deletions (`StartOK`), every link that leads to something is recorded or
  marked (`SeenOK`), a link on disk is an old one or a twin (`NewLinksOK`), what is
  marked as an input is one (`InputsOK`), with all links to it (`MarkedOK`); when the
  deletions begin every link has its twin (`TwinsOK`); and what has gone had a reason
  (`GoneOK`). At the end a link that leads nowhere is then one of three. Its way meets
  no twin: it is as it was, and its end was deleted (`OldWay`). It meets some: from the
  last one on, the way follows that of an original (`WayOverTwins`). Or it is longer
  than the system follows (`EndlessWay`), where an old link is needed as well.

Facts about ways (`TheChain`, `LastOfThem`) are about a recursive function; again a
least counterexample takes the place of induction.

The proofs changed three properties, each change forced by a tree that TLC then
confirmed (`Chains` in `MCStubify`). A link to a link is not safe by itself: when a
deletion fails between the two, the next run first removes the twin of the second one,
and for that moment the first leads nowhere. A public link through a private one
loses its target. And an old link to a stub, which is never renewed, may be on a way
that becomes longer than the system follows once a twin on it is made again.

`StubifyAgainProofs`, for any tidy tree, options, faults, crashes and number of runs:

| theorem | statement |
|---|---|
| `SecondRunChangesNothing` | `TidyInputs` and `PlacedInputs` imply `Spec => []Idempotent` |
| `SuccessLeavesNothingToInline` | `TidyInputs` and `PlacedInputs` imply `Spec => []AllSettled` |
| `StubsAreExact` | `TidyInputs` implies `Spec => []Exact` |

`PlacedInputs` concerns only `--inline-private-frameworks`, and of the libraries only
those that some library would embed (`PlacedTree`): each is where its install name
points, in a file that is not a link, and no other library is in that place. TLC
evaluates it for the inputs of `ST_tree`. Without it `Idempotent` is false: let libfoo
embed libbar, and libbaz be the file in libbar's place. The stub of libfoo is written
before that of libbaz has what libbaz embeds; the next run takes that stub for
libbar's, and libfoo gets more documents. TLC finds this run when it is given the tree.

Argument.

* What is inlined. `Needs` is the least set with the private reexports of a library that
  is closed under private reexports, the intersection of all that are; `Gathered` adds
  the documents that stubs hold (`Held`). `GatherFrame` gives each call in progress a
  lower and an upper bound: its documents are among what the library gathers, and each
  reexport is to be visited, is the library of the next call, or has left all that it
  gathers (`GatherStep`). So the outermost call returns `Gathered` itself (`GatherOK`),
  which is `StubsAreExact`. `SelfContained` only says that the set is closed, and would
  be true of stubs that grow with every run.
* Why it is a fixed point. With `PlaceOK`, the state's form of `PlacedInputs`, what
  `Held` has for an embedded library is what the stub in its place holds (`HeldFacts`).
  A step replaces that by what it would have gathered anyway, or less (`HeldGrows`), so
  documents to which inlining adds nothing stay so (`StaysFull`, `StaysSettled`).
  `SettledOK`: in a run, each name recorded is still to be converted or has such a stub;
  at the end all have. `AgainSettled`: from then on a stub that is to be written is there
  already (`FixedPoint`, `NothingWritten`).
* What is marked for deletion. With `--delete-input` the inputs are gone when a run
  succeeds (`MarkOK`), so a later one has no originals and marks no input
  (`AgainMarks`). It is why the scan sets `originalNames` for libraries only and not
  for stubs. The private files that are left are those that a recorded link leads to
  (`SweptOK`).
* Which private files stay. A link with a `Lasting` way to the file must be there in
  every later run. `ProtectOK`: in a run, a private file that a link was recorded for,
  and that is not `Unprotected`, has such a way, also at the moment when a twin is taken
  away and not yet there again (`Mended`). `GuardOK`: the next run comes across it in the
  scan. `AgainLinks`: what it relinks is a link that has its twin.
* `SameOK`, the goal: each file is what it was, or gone and exempt, or a twin that is being
  made again; at the end of a run `MirrorOK` excludes the last. For a single file
  `FileAgain` says the same: the stub is what the file would be converted to, whether the
  file is a library or that stub itself (`WrittenRepeats`), or the file is gone and no run
  succeeds again.

The proof changed `Idempotent`, which was false as it stood, and TLC confirmed each
case with a tree that is now among `Chains`: an old `.tbd` link that is replaced by the
twin of its link (`RenewedLinks`) may have been the only way to a private file; and a
private link that a run skipped, because its way was longer than the system follows, is
deleted by the next one if the deletions have made its way shorter.

### The API records

`APIRecordsProofs`, for any names, classes, ivars, listings and order of the table:

| theorem | statement |
|---|---|
| `TypeCorrect` | `Spec => []TypeOK` |
| `IvarsAreFound` | `Spec => []IvarsFound` |
| `Completeness` | `Spec => []StubIsComplete` |
| `Soundness` | `Spec => []NothingInvented` |
| `ReadingBackIsExact` | `Spec => RoundTrip` |

`NamesAssumption` keeps the empty class name apart; `LibrariesAssumption` types the
libraries and says what a linker guarantees: no ivar without a class name, and what
the trie lists is not hidden in the table. The invariant `Match` gives, for every
symbol, what the records hold as a function of what has been read: the linkage of a
global or of a part of a class, and whether an ivar is on its class or on a
category, which depends on `early`. At the conversion everything has been read.
`ReadingBackIsExact` needs the shape that every stub has, written or read (`StubOK`: no
symbol is both exported and undefined, the exception type comes with its class), and
that what is converted after `ReadText` is exactly what the stub says (`RoundInv`).

### Only model-checked

* `Finishes` of `OutputFile` and of `InstallAPIInputs`: liveness is out of the prover's
  reach. They are the only properties of the passing runs that no theorem states.
* Runs that expect a violation refute statements of the repository; there is nothing
  to prove.


## Findings

Four runs refute what a comment or the documentation says:

* `SV_slices`: "A matching target slice should always exist" (`SymbolVerifier.cpp`
  410): the check before it compares platforms and architectures separately.
* `OF_atomic`: the "atomic" rename happens before the stream is flushed.
* `IN_coverage`: only the first target has coverage symbols; the cached vector of
  the library was moved from.
* `ST_mirror`: a link with the name of its target makes `stubify` replace the stub
  by a link to itself, and with `--delete-input` delete the library too.

Other places where the code does less than its comments suggest are part of the
models, and the properties are stated with them: the coverage symbols of the last
target excuse those of every target (`verifyRemainingSymbols`), a hidden variable
may pass as a `__private_extern__` function (`PrivateExternRead`), a reexported
library that cannot be read is reported and the run goes on
(`accumulateReexports`), an ivar that the symbol table lists ahead of its class
loses its class (`early`), a symbol that only the exports trie lists is dropped unless
it is Swift's (`TrieOnly`), an error may leave the output empty (`NoText`), a directory
whose removal was cut off stays for good (`abandoned`), a stub cut short that parses is taken for whole (`cut`).

## Not modelled yet, and the plan

In this order, the most consequential first:

1. `verifyImpl` for Objective-C interfaces (the mask of class, metaclass and EH
   symbols) and autozippered libraries (`autoZippered`, whose missing slice returns
   early), as actions beside `VisitDecl`.
2. `BinaryInfo`: `verifyBinaryInfo` and `compareLibraries` as operators against a
   reference definition, which would turn `BinaryInfoAssumption` into a theorem.
3. `LinkerInterface`: choice of architecture, `$ld$` directives, `parseVersion32`.
4. `DirectoryScanner` and the archive driver.
5. `SDKDB` merging; `NonEquivalentDecls` of the structural comparison.
6. Proofs: `PlacedInputs` weakened to trees where the place of an embedded library is a
   link to it, with the twins of such links in `HeldFacts`.

Left out for good: the wording of diagnostics and their target banners, dSYM
locations, serialization (a round trip through text or bitcode), the traversals of
clang's AST, command-line parsing. Of what the modules cover, these details are
abstracted: symbols with external linkage and the undefined symbols of a text
dylib in `SymbolVerifier`; the copy of the availability into the record of the
dylib; `canIgnoreFrontendError`, a failed frontend run whose error the driver
ignores because it has no results, which leaves no trace in the verifier and so is
an `EndFrontend` after no visit; the flags of symbols other than reexported and
undefined, and the declarations of headers, in `APIRecords`; further search paths,
an output path, absolute links and the shared-cache flag in `Stubify`, whose
`findLibrary` looks into the input only.
