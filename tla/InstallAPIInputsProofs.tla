----------------------- MODULE InstallAPIInputsProofs -----------------------
(***************************************************************************)
(* Theorems about InstallAPIInputs, for any files, interfaces, targets and *)
(* lists of inputs, and any number of overwritten files.                   *)
(***************************************************************************)
EXTENDS InstallAPIInputs, Integers, TLAPS

(***************************************************************************)
(* Constants                                                               *)
(***************************************************************************)

\* How many lookups there are.
Asked == Len(ReexportedLibraries) + Len(ReexportedLibraryPaths)
           + Len(TargetSeq) * Len(ReexportedFrameworks)

\* Any number of times no framework is no lookup.
LEMMA ZeroTimes == \A a \in Nat : a * 0 = 0
OBVIOUS

\* The product of two numbers is a number.
LEMMA ProductIsNat == \A a, b \in Nat : a * b \in Nat
OBVIOUS

\* A multiple of f that is less than f away from zero is zero.
LEMMA SmallMultiple ==
  ASSUME NEW d \in Int, NEW f \in Nat \ {0}, NEW e \in Int, -f < e, e < f, d * f = e
  PROVE  d = 0
<1>1. CASE d >= 1
  <2>1. d * f >= f
    BY <1>1
  <2> QED BY <2>1
<1>2. CASE d <= -1
  <2>1. d * f <= -f
    BY <1>2
  <2> QED BY <2>1
<1> QED BY <1>1, <1>2

\* Division with a remainder.
LEMMA DivisionByNat ==
  ASSUME NEW k \in Nat, NEW f \in Nat \ {0}
  PROVE  \E q \in Int, s \in 0 .. f - 1 : k = q * f + s /\ k % f = s
<1>1. (k \div f) \in Int /\ k % f \in 0 .. f - 1 /\ k = (k \div f) * f + (k % f)
  OBVIOUS
<1> QED BY <1>1

\* The place in a row of f of the r-th item of the a-th row.
LEMMA PlaceInRow ==
  ASSUME NEW a \in Nat, NEW f \in Nat \ {0}, NEW r \in 0 .. f - 1
  PROVE  (a * f + r) % f = r
<1> DEFINE k == a * f + r
<1>1. k \in Nat
  OBVIOUS
<1> HIDE DEF k
<1>2. PICK q \in Int, s \in 0 .. f - 1 : k = q * f + s /\ k % f = s
  BY <1>1, DivisionByNat
<1>3. (q - a) * f = r - s
  BY <1>2 DEF k
<1>4. q - a = 0
  BY <1>3, SmallMultiple
<1>5. r = s
  BY <1>3, <1>4
<1> QED BY <1>2, <1>5 DEF k

\* There is one lookup per library, path, and framework of a target.
LEMMA LookupsLength ==
  /\ Asked \in Nat
  /\ Lookups \in [1 .. Asked -> [path: Paths, searched: BOOLEAN]] /\ Len(Lookups) = Asked
<1> DEFINE libs == Len(ReexportedLibraries)
           paths == libs + Len(ReexportedLibraryPaths)
           fws == Len(ReexportedFrameworks)
           total == paths + Len(TargetSeq) * fws
           lookup(i) ==
             CASE i <= libs -> [path |-> ReexportedLibraries[i], searched |-> TRUE]
               [] libs < i /\ i <= paths ->
                    [path |-> ReexportedLibraryPaths[i - libs], searched |-> FALSE]
               [] OTHER ->
                    [path |-> ReexportedFrameworks[((i - paths - 1) % fws) + 1],
                     searched |-> TRUE]
<1>1. /\ libs \in Nat /\ paths \in Nat /\ fws \in Nat /\ Len(TargetSeq) \in Nat
      /\ Len(ReexportedLibraryPaths) \in Nat
  BY InputsAssumption DEF InputsAssumption
<1>2. Len(TargetSeq) * fws \in Nat
  BY <1>1, ProductIsNat
<1>3. total \in Nat
  BY <1>1, <1>2
<1>4. ASSUME NEW i \in 1 .. total
      PROVE  lookup(i) \in [path: Paths, searched: BOOLEAN]
  <2>1. CASE i <= libs
    <3>1. ReexportedLibraries[i] \in Paths
      BY <1>1, <2>1, InputsAssumption DEF InputsAssumption
    <3> QED BY <2>1, <3>1
  <2>2. CASE libs < i /\ i <= paths
    <3>1. i - libs \in 1 .. Len(ReexportedLibraryPaths)
      BY <1>1, <2>2
    <3>2. ReexportedLibraryPaths[i - libs] \in Paths
      BY <3>1, InputsAssumption DEF InputsAssumption
    <3> QED BY <1>1, <2>2, <3>2
  <2>3. CASE paths < i
    <3>1. fws # 0
      BY <1>1, <1>3, <2>3, ZeroTimes
    <3> DEFINE k == i - paths - 1
    <3>2. k \in Nat
      BY <1>1, <1>3, <2>3
    <3> HIDE DEF k
    <3>3. (k % fws) + 1 \in 1 .. fws
      BY <1>1, <3>1, <3>2
    <3>4. ReexportedFrameworks[(k % fws) + 1] \in Paths
      BY <3>3, InputsAssumption DEF InputsAssumption
    <3> QED BY <1>1, <2>3, <3>4 DEF k
  <2> QED BY <1>1, <1>3, <2>1, <2>2, <2>3
<1>5. Lookups = [i \in 1 .. total |-> lookup(i)]
  BY DEF Lookups
<1> HIDE DEF lookup, total
<1>6. Lookups \in [1 .. total -> [path: Paths, searched: BOOLEAN]] /\ Len(Lookups) = total
  BY <1>3, <1>4, <1>5
<1> QED BY <1>3, <1>6 DEF Asked, total

\* The lookups of the libraries come first, then those of the library paths.
LEMMA LibraryLookups ==
  /\ \A i \in 1 .. Len(ReexportedLibraries) :
       i \in 1 .. Asked /\ Lookups[i].path = ReexportedLibraries[i]
  /\ \A i \in 1 .. Len(ReexportedLibraryPaths) :
       /\ Len(ReexportedLibraries) + i \in 1 .. Asked
       /\ Lookups[Len(ReexportedLibraries) + i].path = ReexportedLibraryPaths[i]
<1> DEFINE libs == Len(ReexportedLibraries)
           paths == libs + Len(ReexportedLibraryPaths)
<1>1. libs \in Nat /\ Len(ReexportedLibraryPaths) \in Nat /\ Len(ReexportedFrameworks) \in Nat
      /\ Len(TargetSeq) \in Nat
  BY InputsAssumption DEF InputsAssumption
<1>2. Asked >= paths /\ Asked \in Nat
  BY <1>1, ProductIsNat DEF Asked
<1>3. DOMAIN Lookups = 1 .. Asked
  BY LookupsLength
<1>4. ASSUME NEW i \in 1 .. libs
      PROVE  i \in 1 .. Asked /\ Lookups[i].path = ReexportedLibraries[i]
  <2>1. i \in 1 .. Asked
    BY <1>1, <1>2
  <2> QED BY <1>3, <2>1 DEF Lookups
<1>5. ASSUME NEW i \in 1 .. Len(ReexportedLibraryPaths)
      PROVE  libs + i \in 1 .. Asked /\ Lookups[libs + i].path = ReexportedLibraryPaths[i]
  <2>1. libs + i \in 1 .. Asked /\ ~(libs + i <= libs) /\ libs < libs + i
        /\ libs + i <= paths /\ libs + i - libs = i
    BY <1>1, <1>2
  <2> QED BY <1>3, <2>1 DEF Lookups
<1> QED BY <1>4, <1>5

\* The lookups of the frameworks follow, all of them for every target.
LEMMA FrameworkLookups ==
  ASSUME NEW t \in 1 .. Len(TargetSeq), NEW i \in 1 .. Len(ReexportedFrameworks)
  PROVE  LET n == Len(ReexportedLibraries) + Len(ReexportedLibraryPaths)
                    + (t - 1) * Len(ReexportedFrameworks) + i
         IN n \in 1 .. Asked /\ Lookups[n].path = ReexportedFrameworks[i]
<1> DEFINE libs == Len(ReexportedLibraries)
           paths == libs + Len(ReexportedLibraryPaths)
           fws == Len(ReexportedFrameworks)
           before == (t - 1) * fws
           n == paths + before + i
<1>1. libs \in Nat /\ paths \in Nat /\ fws \in Nat \ {0} /\ Len(TargetSeq) \in Nat
      /\ t - 1 \in Nat /\ i \in 1 .. fws /\ paths >= libs
  BY InputsAssumption DEF InputsAssumption
<1>2. before \in Nat
  BY <1>1, ProductIsNat
<1>3. before + fws <= Len(TargetSeq) * fws
  <2>1. PICK more \in Nat : Len(TargetSeq) = t + more
    <3>1. Len(TargetSeq) - t \in Nat /\ Len(TargetSeq) = t + (Len(TargetSeq) - t)
      BY <1>1
    <3> QED BY <3>1
  <2>2. Len(TargetSeq) * fws = before + fws + more * fws
    BY <1>1, <2>1
  <2>3. more * fws \in Nat
    BY <1>1, ProductIsNat
  <2>4. before \in Nat
    BY <1>2
  <2> HIDE DEF before
  <2> QED BY <1>1, <2>2, <2>3, <2>4
<1>4. Asked = paths + Len(TargetSeq) * fws
  BY DEF Asked
<1>5. Len(TargetSeq) * fws \in Nat
  BY <1>1, ProductIsNat
<1>6. (before + (i - 1)) % fws = i - 1
  BY <1>1, PlaceInRow
<1> DEFINE total == Len(TargetSeq) * fws
<1>7. n \in 1 .. Asked /\ n > paths /\ n - paths - 1 = before + (i - 1)
  <2>1. total \in Nat /\ before + fws <= total /\ Asked = paths + total
    BY <1>3, <1>4, <1>5
  <2> HIDE DEF total, before, paths, fws
  <2> QED BY <1>1, <1>2, <2>1
<1>8. n \in DOMAIN Lookups
  BY <1>7, LookupsLength
<1>9. ((n - paths - 1) % fws) + 1 = i
  <2>1. (n - paths - 1) % fws = i - 1
    BY <1>6, <1>7
  <2> HIDE DEF n, paths, fws
  <2> QED BY <1>1, <2>1
<1>10. ~(n <= libs) /\ ~(libs < n /\ n <= paths)
  <2> HIDE DEF n, paths, libs
  <2> QED BY <1>1, <1>7
<1>11. Lookups[n] = [path |-> ReexportedFrameworks[((n - paths - 1) % fws) + 1],
                     searched |-> TRUE]
  <2> HIDE DEF n
  <2> QED BY <1>8, <1>10 DEF Lookups
<1>12. Lookups[n].path = ReexportedFrameworks[i]
  BY <1>9, <1>11
<1> QED BY <1>7, <1>12

\* Every lookup has a path of the command line.
LEMMA LookupPath ==
  ASSUME NEW i \in Nat \ {0}, i <= Len(Lookups)
  PROVE  Lookups[i].path \in Paths /\ Lookups[i].searched \in BOOLEAN
<1>1. i \in 1 .. Asked
  BY LookupsLength
<1>2. Lookups[i] \in [path: Paths, searched: BOOLEAN]
  BY <1>1, LookupsLength
<1> QED BY <1>2

\* The paths of the Swift interfaces are files of the command line.
LEMMA SwiftPath ==
  ASSUME NEW i \in Nat \ {0}, i <= Len(SwiftInputs)
  PROVE  SwiftInputs[i] \in Paths
BY InputsAssumption DEF InputsAssumption

\* The targets of the coverage loop are targets.
LEMMA CoveragePath ==
  ASSUME NEW i \in Nat \ {0}, i <= Len(TargetSeq)
  PROVE  TargetSeq[i] \in Targets
BY InputsAssumption DEF InputsAssumption

(***************************************************************************)
(* Types                                                                   *)
(***************************************************************************)

\* Besides the types: files of the command line and what is kept of them are
\* interfaces of their own, never a library that clang built for a target.
TypeInv ==
  /\ TypeOK
  /\ \A p \in Paths : disk[p] \in Docs \cup {Absent, Damaged}
  /\ \A p \in Paths : libraries[p] \in Docs \cup {None}

\* What readFile hands out for a path of the command line is an interface.
LEMMA ReadType ==
  ASSUME TypeInv, NEW p \in Paths, ReadOK(p)
  PROVE  /\ Result(p) \in Docs
         /\ libraries' \in [Paths \cup {outputFile} -> Contents \cup {None, Moved}]
         /\ \A q \in Paths : libraries'[q] \in Docs \cup {None}
         /\ seen' \subseteq Paths /\ missing' \subseteq Paths /\ given' \subseteq Paths \X Docs
<1>1. Result(p) \in Docs
  BY DEF TypeInv, ReadOK, Readable, Result
<1>2. seen' \subseteq Paths /\ missing' \subseteq Paths
  BY DEF TypeInv, TypeOK, ReadOK, getFile
<1> QED BY <1>1, <1>2 DEF TypeInv, TypeOK, ReadOK, Contents

\* A failed read changes the FileManager only.
LEMMA ReadErrorType ==
  ASSUME TypeInv, NEW p \in Paths, ReadError(p)
  PROVE  seen' \subseteq Paths /\ missing' \subseteq Paths /\ UNCHANGED <<libraries, given>>
BY DEF TypeInv, TypeOK, ReadError, getFile

\* The initial state has its types.
LEMMA InitType == Init => TypeInv
<1> SUFFICES ASSUME Init PROVE TypeInv
  OBVIOUS
<1>1. options \in Options
  BY InputsAssumption DEF Init, InputsAssumption
<1>2. PICK f \in [Paths -> Docs \cup {Absent, Damaged}] :
        disk = [p \in Paths \cup {outputFile} |-> IF p \in Paths THEN f[p] ELSE Damaged]
  BY DEF Init
<1>3. /\ disk \in [Paths \cup {outputFile} -> Contents \cup {Absent, Damaged}]
      /\ \A p \in Paths : disk[p] \in Docs \cup {Absent, Damaged}
  BY <1>2 DEF Contents
<1>4. \A p \in Paths : disk[p] \notin Targets \ Docs
  BY <1>3, NamesAssumption DEF NamesAssumption
<1>5. /\ libraries \in [Paths \cup {outputFile} -> Contents \cup {None, Moved}]
      /\ \A p \in Paths : libraries[p] \in Docs \cup {None}
  BY DEF Init
<1>6. overwrites \in 0 .. MaxOverwrites
  BY InputsAssumption DEF Init, InputsAssumption
<1>7. /\ seen \subseteq Paths /\ missing \subseteq Paths /\ given \subseteq Paths \X Docs
      /\ reexports \in Seq(Docs) /\ swift \in Seq(Docs) /\ coverage \in Seq(Targets)
  BY DEF Init
<1>8. /\ step = "reexports" /\ next = 1 /\ errors = FALSE
      /\ dylib \in Docs \cup {None}
  BY Zenon DEF Init
<1>9. step \in Steps /\ next \in Nat \ {0}
  BY <1>8 DEF Steps
<1>10. TypeOK
  BY <1>1, <1>3, <1>4, <1>5, <1>6, <1>7, <1>8, <1>9, Zenon DEF TypeOK
<1> QED BY <1>3, <1>5, <1>10 DEF TypeInv

\* A lookup of a reexported library keeps the types.
LEMMA ReexportType == ASSUME TypeInv, LookUpReexport PROVE TypeInv'
<1> DEFINE l == Lookups[next]
<1>1. l.path \in Paths
  BY LookupPath DEF TypeInv, TypeOK, LookUpReexport
<1>2. UNCHANGED <<options, disk, overwrites, coverage, swift, dylib>>
  BY DEF LookUpReexport, outside
<1> HIDE DEF l
<1>3. CASE Fail /\ UNCHANGED <<cache, reexports>>
  BY <1>2, <1>3 DEF TypeInv, TypeOK, Fail, cache, Steps
<1>4. CASE accumulateReexports(l.path)
  <2>1. UNCHANGED step /\ next' = next + 1
    BY <1>4 DEF accumulateReexports, NextLookup
  <2>2. CASE /\ ReadOK(l.path) /\ reexports' = Append(reexports, Result(l.path))
             /\ UNCHANGED errors
    <3>1. reexports' \in Seq(Docs)
      BY <1>1, <2>2, ReadType DEF TypeInv, TypeOK
    <3>2. next' \in Nat \ {0}
      BY <2>1 DEF TypeInv, TypeOK
    <3> QED BY <1>1, <1>2, <2>1, <2>2, <3>1, <3>2, ReadType DEF TypeInv, TypeOK, Contents
  <2>3. CASE ReadError(l.path) /\ errors' = TRUE /\ UNCHANGED reexports
    BY <1>1, <1>2, <2>1, <2>3, ReadErrorType DEF TypeInv, TypeOK
  <2> QED BY <1>4, <2>2, <2>3 DEF accumulateReexports
<1> QED BY <1>3, <1>4 DEF LookUpReexport, l

\* A target of the coverage loop keeps the types.
LEMMA CoverageType == ASSUME TypeInv, CoverageTarget PROVE TypeInv'
<1>1. TargetSeq[next] \in Targets /\ outputFile \notin Paths
  BY CoveragePath, InputsAssumption DEF TypeInv, TypeOK, CoverageTarget, InputsAssumption
<1>2. UNCHANGED <<options, overwrites, seen, missing, given, reexports, swift, dylib>>
  BY DEF CoverageTarget
<1>3. CASE Fail /\ UNCHANGED <<disk, coverage, libraries>>
  BY <1>2, <1>3 DEF TypeInv, TypeOK, Fail, Steps
<1>4. CASE ~(Fail /\ UNCHANGED <<disk, coverage, libraries>>)
  <2>1. /\ disk' = [disk EXCEPT ![outputFile] = TargetSeq[next]]
        /\ coverage' = IF libraries[outputFile] = None
                       THEN Append(coverage, TargetSeq[next]) ELSE coverage
        /\ libraries' = [libraries EXCEPT ![outputFile] = Moved]
        /\ next' = next + 1 /\ UNCHANGED <<step, errors>>
    BY <1>4 DEF CoverageTarget
  <2>2. coverage' \in Seq(Targets)
    BY <1>1, <2>1 DEF TypeInv, TypeOK
  <2>3. /\ disk' \in [Paths \cup {outputFile} -> Contents \cup {Absent, Damaged}]
        /\ \A p \in Paths : disk'[p] = disk[p]
    BY <1>1, <2>1 DEF TypeInv, TypeOK, Contents
  <2>4. /\ libraries' \in [Paths \cup {outputFile} -> Contents \cup {None, Moved}]
        /\ \A p \in Paths : libraries'[p] = libraries[p]
    BY <1>1, <2>1 DEF TypeInv, TypeOK
  <2> QED BY <1>2, <2>1, <2>2, <2>3, <2>4 DEF TypeInv, TypeOK
<1> QED BY <1>3, <1>4

\* A Swift interface keeps the types.
LEMMA SwiftType == ASSUME TypeInv, ReadSwift PROVE TypeInv'
<1> DEFINE p == SwiftInputs[next]
<1>1. p \in Paths
  BY SwiftPath DEF TypeInv, TypeOK, ReadSwift
<1>2. UNCHANGED <<options, disk, overwrites, reexports, coverage, dylib>>
  BY DEF ReadSwift, outside
<1> HIDE DEF p
<1>3. CASE /\ ReadOK(p) /\ swift' = Append(swift, Result(p)) /\ next' = next + 1
           /\ UNCHANGED <<step, errors>>
  <2>1. swift' \in Seq(Docs)
    BY <1>1, <1>3, ReadType DEF TypeInv, TypeOK
  <2>2. next' \in Nat \ {0}
    BY <1>3 DEF TypeInv, TypeOK
  <2> QED BY <1>1, <1>2, <1>3, <2>1, <2>2, ReadType DEF TypeInv, TypeOK, Contents
<1>4. CASE (ReadOK(p) \/ ReadError(p)) /\ Fail /\ UNCHANGED swift
  BY <1>1, <1>2, <1>4, ReadType, ReadErrorType DEF TypeInv, TypeOK, Fail, Steps
<1> QED BY <1>3, <1>4 DEF ReadSwift, p

\* Reading the dylib keeps the types.
LEMMA DylibType == ASSUME TypeInv, ReadDylib PROVE TypeInv'
<1>1. VerifyAgainst \in Paths
  BY InputsAssumption DEF InputsAssumption
<1>2. UNCHANGED <<options, disk, overwrites, reexports, coverage, swift>>
  BY DEF ReadDylib, outside
<1>3. CASE /\ ReadOK(VerifyAgainst) /\ dylib' = Result(VerifyAgainst)
           /\ ((Goto("ready") /\ UNCHANGED errors) \/ Fail)
  <2>1. dylib' \in Docs
    BY <1>1, <1>3, ReadType
  <2>2. step' \in Steps /\ next' \in Nat \ {0} /\ errors' \in BOOLEAN
    <3>1. CASE Goto("ready") /\ UNCHANGED errors
      BY <3>1 DEF TypeInv, TypeOK, Goto, Steps
    <3>2. CASE Fail
      BY <3>2 DEF TypeInv, TypeOK, Fail, Steps
    <3> QED BY <1>3, <3>1, <3>2
  <2> QED BY <1>1, <1>2, <1>3, <2>1, <2>2, ReadType DEF TypeInv, TypeOK, Contents
<1>4. CASE ReadError(VerifyAgainst) /\ Fail /\ UNCHANGED dylib
  BY <1>1, <1>2, <1>4, ReadErrorType DEF TypeInv, TypeOK, Fail, Steps
<1> QED BY <1>3, <1>4 DEF ReadDylib

\* The environment writes interfaces or damages files.
LEMMA OverwriteType == ASSUME TypeInv, NEW p \in Paths, Overwrite(p) PROVE TypeInv'
<1>1. PICK content \in Docs \cup {Absent, Damaged} : disk' = [disk EXCEPT ![p] = content]
  BY DEF Overwrite
<1>2. /\ disk' \in [Paths \cup {outputFile} -> Contents \cup {Absent, Damaged}]
      /\ \A q \in Paths : disk'[q] \in Docs \cup {Absent, Damaged}
  BY <1>1 DEF TypeInv, TypeOK, Contents
<1>3. \A q \in Paths : disk'[q] \notin Targets \ Docs
  BY <1>2, NamesAssumption DEF NamesAssumption
<1>4. overwrites' \in 0 .. MaxOverwrites
  BY InputsAssumption DEF InputsAssumption, TypeInv, TypeOK, Overwrite
<1> QED BY <1>2, <1>3, <1>4 DEF TypeInv, TypeOK, Overwrite, cache

\* The steps that read no file keep the types.
LEMMA OtherTypes ==
  ASSUME TypeInv, EndReexports \/ ReadHeaders \/ EndCoverage \/ EndSwift \/ NoDylib
                    \/ UNCHANGED vars
  PROVE  TypeInv'
<1>1. UNCHANGED <<outside, cache, reexports, coverage, swift, dylib>>
  BY DEF EndReexports, ReadHeaders, EndCoverage, EndSwift, NoDylib, vars
<1>2. ASSUME NEW s \in Steps, Goto(s), UNCHANGED errors
      PROVE  TypeInv'
  BY <1>1, <1>2 DEF TypeInv, TypeOK, outside, cache, Goto, Fail
<1>3. CASE Fail
  BY <1>1, <1>3 DEF TypeInv, TypeOK, outside, cache, Fail, Steps
<1>4. CASE UNCHANGED <<step, next, errors>>
  BY <1>1, <1>4 DEF TypeInv, TypeOK, outside, cache
<1>5. CASE \E s \in Steps : Goto(s) /\ UNCHANGED errors
  BY <1>1, <1>2, <1>5
<1> QED BY <1>3, <1>4, <1>5 DEF EndReexports, ReadHeaders, EndCoverage, EndSwift, NoDylib,
  vars, Steps

\* The types are invariant.
LEMMA TypeInvariant == Spec => []TypeInv
<1>1. TypeInv /\ [Next]_vars => TypeInv'
  BY ReexportType, CoverageType, SwiftType, DylibType, OverwriteType, OtherTypes
  DEF Next, DriverStep
<1> QED BY <1>1, InitType, PTL DEF Spec

\* Every variable of the driver and of its cache holds a value of its type, and
\* what was handed out for a path of the command line is one of its interfaces.
THEOREM TypeCorrect == Spec => []TypeOK
<1>1. TypeInv => TypeOK
  BY DEF TypeInv
<1> QED BY <1>1, TypeInvariant, PTL

(***************************************************************************)
(* One view of each file                                                   *)
(***************************************************************************)

\* What was handed out for a path is what the cache still holds for it.
CacheInv == \A g \in given : libraries[g[1]] = g[2]

\* Reading a file hands out what the cache holds, now and later.
LEMMA ReadKeepsView ==
  ASSUME TypeInv, CacheInv, NEW p \in Paths, ReadOK(p)
  PROVE  CacheInv'
<1>1. Result(p) \in Docs /\ given \subseteq Paths \X Docs
  BY ReadType DEF TypeInv, TypeOK
<1>2. libraries' = [libraries EXCEPT ![p] = Result(p)] /\ given' = given \cup {<<p, Result(p)>>}
  BY DEF ReadOK
<1>3. libraries'[p] = Result(p)
  BY <1>2 DEF TypeInv, TypeOK
<1>4. ASSUME NEW g \in given
      PROVE  libraries'[g[1]] = g[2]
  <2>1. g[1] \in Paths /\ g[2] \in Docs /\ libraries[g[1]] = g[2]
    BY <1>1 DEF CacheInv
  <2>2. CASE g[1] = p
    <3>1. libraries[p] # None
      BY <2>1, <2>2, NamesAssumption DEF NamesAssumption
    <3>2. Result(p) = libraries[p]
      BY <3>1 DEF Result
    <3> QED BY <1>3, <2>1, <2>2, <3>2
  <2>3. CASE g[1] # p
    BY <1>2, <2>1, <2>3 DEF TypeInv, TypeOK
  <2> QED BY <2>2, <2>3
<1>5. ASSUME NEW g \in given'
      PROVE  libraries'[g[1]] = g[2]
  <2>1. CASE g \in given
    BY <1>4, <2>1
  <2>2. CASE g = <<p, Result(p)>>
    BY <1>3, <2>2
  <2> QED BY <1>2, <2>1, <2>2
<1> QED BY <1>5 DEF CacheInv

\* No step hands out anything but what the cache holds: the libraries built for
\* coverage go through the cache too, under a path of their own.
LEMMA CacheInvariant == Spec => []CacheInv
<1>1. Init => CacheInv
  BY DEF Init, CacheInv
<1>2. TypeInv /\ CacheInv /\ [Next]_vars => CacheInv'
  <2> SUFFICES ASSUME TypeInv, CacheInv, [Next]_vars
               PROVE  CacheInv'
    OBVIOUS
  <2>1. ASSUME UNCHANGED <<libraries, given>>
        PROVE  CacheInv'
    BY <2>1 DEF CacheInv
  <2>2. ASSUME NEW p \in Paths, ReadError(p)
        PROVE  CacheInv'
    BY <2>1, <2>2 DEF ReadError
  <2>3. CASE LookUpReexport
    <3>1. Lookups[next].path \in Paths
      BY <2>3, LookupPath DEF TypeInv, TypeOK, LookUpReexport
    <3>2. CASE UNCHANGED cache
      BY <2>1, <3>2 DEF cache
    <3>3. CASE ReadOK(Lookups[next].path) \/ ReadError(Lookups[next].path)
      BY <2>2, <3>1, <3>3, ReadKeepsView
    <3> QED BY <2>3, <3>2, <3>3 DEF LookUpReexport, accumulateReexports
  <2>4. CASE CoverageTarget
    <3>1. CASE libraries' = [libraries EXCEPT ![outputFile] = Moved] /\ UNCHANGED given
      <4>1. \A g \in given : g[1] \in Paths /\ g[1] # outputFile
        BY InputsAssumption DEF InputsAssumption, TypeInv, TypeOK
      <4>2. \A p \in Paths : p # outputFile => libraries'[p] = libraries[p]
        BY <3>1 DEF TypeInv, TypeOK
      <4> QED BY <3>1, <4>1, <4>2 DEF CacheInv
    <3>2. CASE UNCHANGED <<libraries, given>>
      BY <2>1, <3>2
    <3> QED BY <2>4, <3>1, <3>2 DEF CoverageTarget
  <2>5. CASE ReadSwift
    <3>1. SwiftInputs[next] \in Paths
      BY <2>5, SwiftPath DEF TypeInv, TypeOK, ReadSwift
    <3> QED BY <2>2, <2>5, <3>1, ReadKeepsView DEF ReadSwift
  <2>6. CASE ReadDylib
    <3>1. VerifyAgainst \in Paths
      BY InputsAssumption DEF InputsAssumption
    <3> QED BY <2>2, <2>6, <3>1, ReadKeepsView DEF ReadDylib
  <2>7. CASE \/ EndReexports \/ ReadHeaders \/ EndCoverage \/ EndSwift \/ NoDylib
             \/ UNCHANGED vars \/ \E p \in Paths : Overwrite(p)
    BY <2>1, <2>7 DEF EndReexports, ReadHeaders, EndCoverage, EndSwift, NoDylib, vars,
       Overwrite, cache
  <2> QED BY <2>3, <2>4, <2>5, <2>6, <2>7 DEF Next, DriverStep
<1> QED BY <1>1, <1>2, TypeInvariant, PTL DEF Spec

\* However often a path is read, and whatever is written to it meanwhile, the run
\* works with one interface for it (readFile and its cache).
THEOREM ViewIsStable == Spec => []OneViewPerPath
<1>1. CacheInv => OneViewPerPath
  BY DEF CacheInv, OneViewPerPath
<1> QED BY <1>1, CacheInvariant, PTL

(***************************************************************************)
(* Errors                                                                  *)
(***************************************************************************)

\* Errors are looked at after the file lists; what is reported later ends the run.
ListInv ==
  options.fileLists /\ step \in {"coverage", "swift", "dylib", "ready"} => ~errors

\* With a file list, no run gets to the verifier after an error.
THEOREM ListsStopErrors == Spec => []FileListsStopErrors
<1>1. Init => ListInv
  BY Zenon DEF Init, ListInv
<1>2. ListInv /\ [Next]_vars => ListInv'
  <2> SUFFICES ASSUME ListInv, [Next]_vars
               PROVE  ListInv'
    OBVIOUS
  <2>1. UNCHANGED options
    BY DEF Next, DriverStep, LookUpReexport, EndReexports, ReadHeaders, CoverageTarget,
       EndCoverage, ReadSwift, EndSwift, ReadDylib, NoDylib, Overwrite, outside, vars
  <2>2. CASE step' \notin {"coverage", "swift", "dylib", "ready"}
    BY <2>2 DEF ListInv
  <2>3. CASE step \in {"coverage", "swift", "dylib", "ready"} /\ UNCHANGED errors
    BY <2>1, <2>3 DEF ListInv
  <2>4. CASE Fail
    BY <2>2, <2>4 DEF Fail
  <2>5. CASE LookUpReexport \/ EndReexports
    <3>1. step' \in {"reexports", "headers", "failed"}
      BY <2>5 DEF LookUpReexport, EndReexports, accumulateReexports, Fail, Goto
    <3> QED BY <2>2, <3>1
  <2>6. CASE ReadHeaders /\ ~Fail
    BY <2>1, <2>6, Zenon DEF ReadHeaders, EndsAfterFileLists, ListInv
  <2>7. CASE UNCHANGED <<step, errors>>
    BY <2>1, <2>7, Zenon DEF ListInv
  <2>8. CASE CoverageTarget /\ ~Fail
    BY <2>7, <2>8 DEF CoverageTarget
  <2>9. CASE ReadSwift /\ ~Fail
    BY <2>7, <2>9 DEF ReadSwift
  <2>10. CASE (EndCoverage \/ EndSwift \/ ReadDylib \/ NoDylib) /\ ~Fail
    BY <2>3, <2>10 DEF EndCoverage, EndSwift, ReadDylib, NoDylib
  <2>11. CASE (\E p \in Paths : Overwrite(p)) \/ UNCHANGED vars
    BY <2>7, <2>11 DEF Overwrite, vars
  <2> QED BY <2>4, <2>5, <2>6, <2>8, <2>9, <2>10, <2>11 DEF Next, DriverStep
<1>3. ListInv => FileListsStopErrors
  BY Zenon DEF ListInv, FileListsStopErrors
<1> QED BY <1>1, <1>2, <1>3, PTL DEF Spec

\* As long as no error was reported, each lookup has added one interface, and the
\* n-th one is what its read handed out.
LookupInv ==
  /\ step = "reexports" => next <= Asked + 1
  /\ step = "reexports" /\ ~errors => Len(reexports) = next - 1
  /\ step \notin {"reexports", "failed"} /\ ~errors => Len(reexports) = Asked
  /\ ~errors => \A n \in 1 .. Len(reexports) : Shows(n, Lookups[n].path)

\* What was handed out stays recorded.
LEMMA ShownStays ==
  ASSUME UNCHANGED <<reexports, errors>>, given \subseteq given', LookupInv
  PROVE  ~errors' => \A n \in 1 .. Len(reexports') : Shows(n, Lookups[n].path)'
BY DEF LookupInv, Shows

\* Every step adds to what was handed out.
LEMMA GivenGrows == [Next]_vars => given \subseteq given'
<1>1. \A p : ReadOK(p) \/ ReadError(p) => given \subseteq given'
  BY DEF ReadOK, ReadError
<1>2. UNCHANGED cache => given \subseteq given'
  BY DEF cache
<1>3. LookUpReexport => given \subseteq given'
  BY <1>1, <1>2 DEF LookUpReexport, accumulateReexports
<1>4. CoverageTarget => given \subseteq given'
  BY DEF CoverageTarget
<1>5. ReadSwift \/ ReadDylib => given \subseteq given'
  BY <1>1 DEF ReadSwift, ReadDylib
<1>6. EndReexports \/ ReadHeaders \/ EndCoverage \/ EndSwift \/ NoDylib
        \/ (\E p \in Paths : Overwrite(p)) \/ UNCHANGED vars => given \subseteq given'
  BY <1>2 DEF EndReexports, ReadHeaders, EndCoverage, EndSwift, NoDylib, Overwrite, vars
<1> QED BY <1>3, <1>4, <1>5, <1>6 DEF Next, DriverStep

\* A lookup that reports no error adds its interface.
LEMMA LookupCounts ==
  ASSUME TypeInv, LookupInv, LookUpReexport
  PROVE  LookupInv'
<1> DEFINE l == Lookups[next]
<1>1. next \in Nat \ {0} /\ step = "reexports" /\ next <= Asked /\ Asked \in Nat
  BY LookupsLength DEF TypeInv, TypeOK, LookUpReexport
<1> HIDE DEF l
<1>2. CASE Fail
  BY <1>2 DEF Fail, LookupInv
<1>3. CASE accumulateReexports(l.path)
  <2>1. step' = "reexports" /\ next' = next + 1
    BY <1>1, <1>3 DEF accumulateReexports, NextLookup
  <2>2. CASE errors' = TRUE
    BY <1>1, <2>1, <2>2 DEF LookupInv
  <2>3. CASE /\ ReadOK(l.path) /\ reexports' = Append(reexports, Result(l.path))
             /\ UNCHANGED errors
    <3>1. l.path \in Paths
      BY <1>1, LookupPath, LookupsLength DEF l
    <3>2. /\ Len(reexports') = Len(reexports) + 1 /\ Len(reexports) \in Nat
          /\ reexports'[Len(reexports) + 1] = Result(l.path)
          /\ \A n \in 1 .. Len(reexports) : reexports'[n] = reexports[n]
      BY <2>3, <3>1, ReadType DEF TypeInv, TypeOK
    <3>3. ~errors' => Len(reexports) = next - 1
      BY <1>1, <2>3 DEF LookupInv
    <3>4. given' = given \cup {<<l.path, Result(l.path)>>}
      BY <2>3 DEF ReadOK
    <3>5. ASSUME ~errors', NEW n \in 1 .. Len(reexports')
          PROVE  Shows(n, Lookups[n].path)'
      <4>1. CASE n = next
        <5>1. Lookups[n].path = l.path /\ reexports'[n] = Result(l.path)
          BY <1>1, <3>2, <3>3, <3>5, <4>1 DEF l
        <5> QED BY <3>4, <5>1 DEF Shows
      <4>2. CASE n # next
        <5>1. n \in 1 .. Len(reexports)
          BY <1>1, <3>2, <3>3, <3>5, <4>2
        <5>2. <<Lookups[n].path, reexports[n]>> \in given
          BY <2>3, <3>5, <5>1 DEF LookupInv, Shows
        <5> QED BY <3>2, <3>4, <5>1, <5>2 DEF Shows
      <4> QED BY <4>1, <4>2
    <3>6. next' <= Asked + 1
      BY <1>1, <2>1
    <3>7. ~errors' => Len(reexports') = next' - 1
      BY <1>1, <2>1, <3>2, <3>3
    <3> QED BY <2>1, <3>5, <3>6, <3>7 DEF LookupInv
  <2> QED BY <1>3, <2>2, <2>3 DEF accumulateReexports
<1> QED BY <1>2, <1>3 DEF LookUpReexport, l

\* Past the lookups, the interfaces are those of the libraries, in their order.
LEMMA AllShown == LookupInv => ReexportsComplete
<1> SUFFICES ASSUME LookupInv, step \notin {"reexports", "failed"}, ~errors
             PROVE  LET libs  == Len(ReexportedLibraries)
                        paths == Len(ReexportedLibraryPaths)
                        fws   == Len(ReexportedFrameworks)
                    IN /\ Len(reexports) = libs + paths + Len(TargetSeq) * fws
                       /\ \A i \in 1 .. libs : Shows(i, ReexportedLibraries[i])
                       /\ \A i \in 1 .. paths : Shows(libs + i, ReexportedLibraryPaths[i])
                       /\ \A t \in 1 .. Len(TargetSeq), i \in 1 .. fws :
                            Shows(libs + paths + (t - 1) * fws + i, ReexportedFrameworks[i])
  BY DEF ReexportsComplete
<1> DEFINE libs == Len(ReexportedLibraries)
           paths == Len(ReexportedLibraryPaths)
           fws == Len(ReexportedFrameworks)
<1>1. Len(reexports) = Asked
  BY DEF LookupInv
<1>2. \A n \in 1 .. Asked : Shows(n, Lookups[n].path)
  BY <1>1 DEF LookupInv
<1>3. Len(reexports) = libs + paths + Len(TargetSeq) * fws
  BY <1>1 DEF Asked
<1>4. \A i \in 1 .. libs : Shows(i, ReexportedLibraries[i])
  BY <1>2, LibraryLookups
<1>5. \A i \in 1 .. paths : Shows(libs + i, ReexportedLibraryPaths[i])
  BY <1>2, LibraryLookups
<1>6. ASSUME NEW t \in 1 .. Len(TargetSeq), NEW i \in 1 .. fws
      PROVE  Shows(libs + paths + (t - 1) * fws + i, ReexportedFrameworks[i])
  <2> DEFINE n == libs + paths + (t - 1) * fws + i
  <2>1. n \in 1 .. Asked /\ Lookups[n].path = ReexportedFrameworks[i]
    BY FrameworkLookups
  <2> HIDE DEF n
  <2>2. Shows(n, ReexportedFrameworks[i])
    BY <1>2, <2>1
  <2> QED BY <2>2 DEF n
<1> QED BY <1>3, <1>4, <1>5, <1>6

\* Without a reported error, no reexported library is missing from the run, and its
\* interfaces are those of the libraries, in the order of the command line.
THEOREM NoReexportLost == Spec => []ReexportsComplete
<1>1. Init => LookupInv
  BY LookupsLength DEF Init, LookupInv
<1>2. TypeInv /\ LookupInv /\ [Next]_vars => LookupInv'
  <2> SUFFICES ASSUME TypeInv, LookupInv, [Next]_vars
               PROVE  LookupInv'
    OBVIOUS
  <2>1. CASE LookUpReexport
    BY <2>1, LookupCounts
  <2>2. ASSUME UNCHANGED <<reexports, errors>>
        PROVE  ~errors' => \A n \in 1 .. Len(reexports') : Shows(n, Lookups[n].path)'
    BY <2>2, GivenGrows, ShownStays
  <2>3. CASE EndReexports
    <3>1. next > Asked /\ Asked \in Nat /\ next \in Nat /\ step = "reexports"
      BY <2>3, LookupsLength DEF EndReexports, TypeInv, TypeOK
    <3>2. ~errors => Len(reexports) = Asked
      BY <3>1 DEF LookupInv
    <3>3. step' = "headers" /\ UNCHANGED <<errors, reexports>>
      BY <2>3 DEF EndReexports, Goto
    <3> QED BY <2>2, <3>2, <3>3 DEF LookupInv
  <2>4. CASE UNCHANGED <<step, next, errors, reexports>>
    BY <2>2, <2>4 DEF LookupInv
  <2>5. CASE /\ step \notin {"reexports", "failed"} /\ step' # "reexports"
             /\ UNCHANGED reexports /\ errors' = errors
    BY <2>2, <2>5 DEF LookupInv
  <2>6. CASE Fail
    BY <2>6 DEF LookupInv, Fail
  <2>7. CASE (ReadHeaders \/ CoverageTarget \/ EndCoverage \/ ReadSwift \/ EndSwift
               \/ ReadDylib \/ NoDylib) /\ ~Fail
    BY <2>5, <2>7 DEF ReadHeaders, CoverageTarget, EndCoverage, ReadSwift, EndSwift,
       ReadDylib, NoDylib, Goto
  <2>8. CASE (\E p \in Paths : Overwrite(p)) \/ UNCHANGED vars
    BY <2>4, <2>8 DEF Overwrite, vars
  <2> QED BY <2>1, <2>3, <2>6, <2>7, <2>8 DEF Next, DriverStep
<1> QED BY <1>1, <1>2, AllShown, TypeInvariant, PTL DEF Spec
=============================================================================
