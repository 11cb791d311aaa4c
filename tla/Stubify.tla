------------------------------ MODULE Stubify ------------------------------
(***************************************************************************)
(* tapi stubify (StubDriver.cpp): a directory is scanned, a text stub is   *)
(* written next to every dynamic library, the symbolic links that name a   *)
(* library get a twin that names its stub, and the inputs are deleted      *)
(* last; or a single library is converted.                                 *)
(*                                                                         *)
(* The tree on disk outlives a run: a run may fail at any call, the        *)
(* process may die at any step, and the tool may be run again.             *)
(***************************************************************************)
EXTENDS Naturals, Sequences, FiniteSets

CONSTANTS
  Dirs,         \* the directories of the input, links to directories among them
  Above,        \* directory -> itself and the directories of the input that it is in
  Alias,        \* directory -> what a link to a directory stands for, or itself
  PrivateDirs,  \* the locations isPrivatePath calls private
  Paths,        \* the files that may exist: <<directory, name, extension>>
  Libs, LibPath,            \* the libraries; where their install names point
  Kept, Writable, MaxDepth, \* see InlineFrameworks
  Inputs,       \* [disk, opts, reexports] records: what the tool may be run on
  Faults,       \* bound: the calls that may fail, and "crash"
  MaxRuns,      \* bound: times the tool is run
  MaxLinks,     \* bound: symbolic links on the way to a file
  None

\* TAPI_INTERNAL::replace_extension
Stem(p) == <<p[1], p[2]>>
StubOf(stem) == <<stem[1], stem[2], "tbd">>
Tbd(p) == StubOf(Stem(p))
Stems == {Stem(p) : p \in Paths}

Absent == [is |-> "absent"]
Damaged == [is |-> "damaged"]       \* taken for a text stub, but does not parse
Other == [is |-> "other"]           \* nothing the tool reads: an empty file
Dylib(l) == [is |-> "dylib", lib |-> l]
Text(l, docs) == [is |-> "text", lib |-> l, docs |-> docs]
Part(l) == [is |-> "part", lib |-> l, docs |-> {}] \* a stub cut short that still parses
Link(p) == [is |-> "link", to |-> p]
Nodes == {Absent, Damaged, Other} \cup {Dylib(l) : l \in Libs} \cup {Part(l) : l \in Libs}
           \cup {Text(l, docs) : l \in Libs, docs \in SUBSET Libs} \cup {Link(p) : p \in Paths}
Textual == {"text", "part"}
Interface == Textual \cup {"dylib"}

ASSUME TreeAssumption ==
  /\ Above \in [Dirs -> SUBSET Dirs]
  /\ \A d \in Dirs : d \in Above[d] /\ \A e \in Above[d] : Above[e] \subseteq Above[d]
  /\ \A d \in Dirs : Above[d] = {d} \/ \E e \in Above[d] \ {d} : Above[e] = Above[d] \ {d}
  /\ Alias \in [Dirs -> Dirs] /\ \A d \in Dirs : Alias[Alias[d]] = Alias[d]
  /\ \A p \in Paths : /\ p = <<p[1], p[2], p[3]>> /\ p[1] \in Dirs
                      /\ Tbd(p) \in Paths /\ <<Alias[p[1]], p[2], p[3]>> \in Paths
  /\ LibPath \in [Libs -> Paths] /\ Kept \subseteq Libs /\ Writable \subseteq Libs
  /\ MaxLinks \in Nat /\ MaxRuns \in Nat /\ MaxDepth \in Nat \ {0}
  /\ None \notin Paths \cup Stems \cup Libs \cup Dirs
ASSUME InputsAssumption ==
  \A i \in Inputs : /\ i.disk \in [Paths -> Nodes]
                    /\ \A p \in Paths : i.disk[p] # Absent => Alias[p[1]] = p[1]
                    /\ i.reexports \in [Libs -> SUBSET Libs]
                    /\ i.opts \in [file : Paths \cup {None}, deleteInput : BOOLEAN,
                                   deletePrivate : BOOLEAN, inline : BOOLEAN]
\* A stub that is there at first came from the tool: what its documents reexport
\* is among them.
ASSUME StubsAssumption ==
  \A i \in Inputs : \A p \in Paths : i.disk[p].is \in Textual =>
    \A l \in i.disk[p].docs : i.reexports[l] \ Kept \subseteq i.disk[p].docs

\* The process has stack for every chain of libraries without a repetition.
ASSUME DepthAssumption == IsFiniteSet(Libs) /\ Cardinality(Libs) <= MaxDepth

VARIABLES
  disk, dirs,      \* every file, and the directories there are
  opts, reexports, \* the command line; library -> what it reexports
  pc, runs,
  todo,            \* entries the scan has not come to
  dir,             \* the directory to remove next, after a file of it was deleted
  symlinks, dylibs, originalNames, toDelete, \* as in stubifyDirectory
  left,            \* libraries to convert
  current, stack,  \* the one being converted; see InlineFrameworks
  links, link,     \* its links to recreate; the one being recreated
  first, after,    \* history: the files at first, those after the last run that
  cut, abandoned   \* succeeded, the stems a write of which was cut short, and the
                   \* directories whose removal was

tree   == <<disk, dirs>>
input  == <<opts, reexports>>
scan   == <<symlinks, dylibs, originalNames>>
history == <<first, after, cut, abandoned>>
vars == <<tree, input, pc, runs, todo, dir, scan, toDelete, left, current, stack, links, link, history>>

-----------------------------------------------------------------------------
(* The file system *)

Real(p) == [p EXCEPT ![1] = Alias[@]]
Hop(d, p) == LET node == d[Real(p)] IN IF node.is = "link" THEN node.to ELSE Real(p)
Target(d, p) == LET hop[k \in 0 .. MaxLinks] == IF k = 0 THEN p ELSE Hop(d, hop[k - 1])
                IN Real(hop[MaxLinks])
Loops(d, p) == d[Target(d, p)].is = "link"
Contents(d, p) == IF Loops(d, p) THEN Absent ELSE d[Target(d, p)]
Exists(d, p) == Contents(d, p) # Absent

\* A directory that holds neither a file nor another directory; the one it is in.
Empty(d) == (\A p \in Paths : p[1] = d => disk[p] = Absent) /\ \A b \in dirs \ {d} : d \notin Above[b]
Mut_OneLevel(d) == None
ParentPath(d) == IF Above[d] = {d} THEN None
                 ELSE CHOOSE e \in Above[d] \ {d} : Above[e] = Above[d] \ {d}

Private(p) == p[1] \in PrivateDirs
Fault(call) == call \in Faults

\* findLibrary: the stub is preferred; the search path is the tree itself.
LibFile(l) == IF Exists(disk, Tbd(LibPath[l])) THEN Contents(disk, Tbd(LibPath[l]))
              ELSE Contents(disk, LibPath[l])
Found == {l \in Libs : LibFile(l).is \in Interface}
Held == [l \in Libs |-> IF LibFile(l).is \in Textual THEN LibFile(l).docs ELSE {}]

Inl == INSTANCE InlineFrameworks WITH found <- Found, held <- Held

-----------------------------------------------------------------------------
(* A run begins *)

Ended == {"done", "failed", "crashed", "overflow"}

Fresh ==
  /\ current' = None /\ stack' = <<>> /\ link' = None /\ dir' = None
  /\ symlinks' = {} /\ toDelete' = {} /\ left' = {} /\ links' = {}
  /\ dylibs' = [s \in Stems |-> Absent]
  /\ originalNames' = [s \in Stems |-> None]

Begin ==
  /\ pc \in {"idle"} \cup Ended /\ runs < MaxRuns
  /\ runs' = runs + 1
  /\ pc' = IF opts.file = None THEN "scan" ELSE "read"
  /\ todo' = IF opts.file = None THEN {p \in Paths : disk[p] # Absent} ELSE {}
  /\ Fresh
  /\ after' = IF pc = "done" THEN disk ELSE after
  /\ UNCHANGED <<tree, input, first, cut, abandoned>>

Fail == pc' = "failed"

-----------------------------------------------------------------------------
(* stubifyDirectory: the scan, in the order of the directory *)

ScanPrivate(p) ==
  /\ opts.deletePrivate /\ Private(p)
  /\ disk[p].is = "link" => ~Loops(disk, p)
  /\ toDelete' = toDelete \cup {<<p, FALSE>>}
  /\ UNCHANGED <<pc, scan>>

\* A link is recorded under the file that it leads to; a cycle of links is skipped,
\* and so is a link to nothing.
ScanLink(p) ==
  /\ disk[p].is = "link"
  /\ ~(opts.deletePrivate /\ Private(p)) \/ Loops(disk, p)
  /\ symlinks' = IF Exists(disk, p)
                 THEN symlinks \cup {[target |-> Target(disk, p), src |-> p, to |-> disk[p].to]}
                 ELSE symlinks
  /\ UNCHANGED <<pc, dylibs, originalNames, toDelete>>

\* A text stub takes the place of a dynamic library of the same name, and is never
\* replaced by one.
Mut_LastWins(p) == TRUE
Takes(p) == disk[p].is \in Textual \/ dylibs[Stem(p)] = Absent
Mut_AnyOriginal(p) == TRUE
Original(p) == disk[p].is = "dylib"
ScanFile(p) ==
  /\ disk[p].is \in Interface
  /\ ~(opts.deletePrivate /\ Private(p))
  /\ originalNames' = IF Original(p) THEN [originalNames EXCEPT ![Stem(p)] = p]
                      ELSE originalNames
  /\ dylibs' = IF Takes(p) THEN [dylibs EXCEPT ![Stem(p)] = disk[p]] ELSE dylibs
  /\ UNCHANGED <<pc, symlinks, toDelete>>

ScanOther(p) ==
  /\ disk[p].is = "other"
  /\ ~(opts.deletePrivate /\ Private(p))
  /\ UNCHANGED <<pc, scan, toDelete>>

ScanError(p) ==
  /\ disk[p].is = "damaged" \/ Fault("read")
  /\ ~(opts.deletePrivate /\ Private(p))
  /\ Fail
  /\ UNCHANGED <<scan, toDelete>>

Scan ==
  /\ pc = "scan"
  /\ \E p \in todo :
       /\ ScanPrivate(p) \/ ScanLink(p) \/ ScanFile(p) \/ ScanOther(p) \/ ScanError(p)
       /\ todo' = todo \ {p}
  /\ UNCHANGED <<tree, input, runs, dir, left, current, stack, links, link, history>>

Scanned ==
  /\ pc = "scan" /\ todo = {}
  /\ pc' = "next"
  /\ left' = {s \in Stems : dylibs[s] # Absent}
  /\ UNCHANGED <<tree, input, runs, todo, dir, scan, toDelete, current, stack, links, link, history>>

-----------------------------------------------------------------------------
(* Converting one library, in the order of the names *)

CallInline(l, docs) ==
  /\ stack' = <<[lib |-> l, todo |-> reexports[l], docs |-> docs]>>
  /\ pc' = IF opts.inline THEN "inline" ELSE "write"

Docs(node) == IF node.is \in Textual THEN node.docs ELSE {}

Convert ==
  /\ pc = "next"
  /\ \E s \in left :
       /\ current' = s
       /\ left' = left \ {s}
       /\ IF dylibs[s].lib \in Writable
          THEN CallInline(dylibs[s].lib, Docs(dylibs[s]))
          ELSE Fail /\ UNCHANGED stack
  /\ UNCHANGED <<tree, input, runs, todo, dir, scan, toDelete, links, link, history>>

inlineFrameworks ==
  /\ Inl!Step \/ (pc = "inline" /\ Fault("read") /\ Inl!Followed # {} /\ Fail /\ UNCHANGED stack)
  /\ UNCHANGED <<tree, input, runs, todo, dir, scan, toDelete, left, current, links, link, history>>

\* InterfaceFileManager::writeFile, as OutputPromise has it.  A parsed stub that
\* differs is replaced; anything else is written where the path leads, through a
\* link, and so is the replacement when no temporary file can be made.
stub == Text(stack[1].lib, stack[1].docs)
output == StubOf(current)
Written == {Target(disk, output)}
             \cup (IF Contents(disk, output).is \in Textual \cup {"other"} THEN {output} ELSE {})

AfterWrite ==
  IF opts.file # None
  THEN /\ pc' = IF opts.deleteInput THEN "deleteInput" ELSE "done"
       /\ UNCHANGED <<links, toDelete>>
  ELSE /\ pc' = "relink"
       /\ links' = {s \in symlinks : s.target = originalNames[current]}
       /\ toDelete' = toDelete \cup (IF opts.deleteInput /\ originalNames[current] # None
                                    THEN {<<originalNames[current], TRUE>>} ELSE {})

Mut_GoesOn == AfterWrite
WriteFailed == Fail /\ UNCHANGED <<links, toDelete>>
WriteFile ==
  /\ pc = "write"
  /\ \/ /\ IF Contents(disk, output) = stub THEN UNCHANGED disk
           ELSE \E p \in Written : disk' = [disk EXCEPT ![p] = stub]
        /\ AfterWrite
        /\ UNCHANGED cut
     \/ Fault("write") /\ WriteFailed /\ UNCHANGED <<disk, cut>>
     \/ /\ Fault("cut")
        /\ Contents(disk, output) # stub
        /\ \E p \in Written, node \in {Part(stack[1].lib), Damaged, Other} :
             /\ disk' = [disk EXCEPT ![p] = node]
             /\ cut' = cut \cup {Stem(p)}
        /\ pc' = "crashed"
        /\ UNCHANGED <<links, toDelete>>
  /\ UNCHANGED <<dirs, input, runs, todo, dir, scan, left, current, stack, link, first, after, abandoned>>

\* Each link to the original name: remove its twin if there is one, then create it.
RemoveLink ==
  /\ pc = "relink" /\ links # {}
  /\ \/ \E s \in links :
          /\ disk' = [disk EXCEPT ![Tbd(s.src)] = Absent]
          /\ link' = s /\ links' = links \ {s}
          /\ pc' = "link"
     \/ Fault("remove") /\ Fail /\ UNCHANGED <<disk, links, link>>
  /\ UNCHANGED <<dirs, input, runs, todo, dir, scan, toDelete, left, current, stack, history>>

Mut_TwinOfOriginal == link.to
Mut_NoExtension == <<link.to[1], link.to[2], "none">>
TwinTarget == Tbd(link.to)
CreateLink ==
  /\ pc = "link"
  /\ \/ /\ disk' = [disk EXCEPT ![Tbd(link.src)] = Link(TwinTarget)]
        /\ toDelete' = IF opts.deleteInput THEN toDelete \cup {<<link.src, TRUE>>} ELSE toDelete
        /\ pc' = "relink"
     \/ Fault("link") /\ Fail /\ UNCHANGED <<disk, toDelete>>
  /\ UNCHANGED <<dirs, input, runs, todo, dir, scan, left, current, stack, links, link, history>>

Converted ==
  /\ pc = "relink" /\ links = {}
  /\ pc' = "next"
  /\ UNCHANGED <<tree, input, runs, todo, dir, scan, toDelete, left, current, stack, links, link, history>>

-----------------------------------------------------------------------------
(* The deletions, once everything is written *)

AllConverted ==
  /\ pc = "next" /\ left = {}
  /\ pc' = "delete"
  /\ UNCHANGED <<tree, input, runs, todo, dir, scan, toDelete, left, current, stack, links, link, history>>

\* A private file that some link leads to is left alone.
Mut_Unprotected(p, isInput) == FALSE
Protected(p, isInput) == ~isInput /\ \E s \in symlinks : s.target = p

Delete ==
  /\ pc = "delete" /\ dir = None
  /\ \E d \in toDelete :
       \/ /\ toDelete' = toDelete \ {d}
          /\ IF Protected(d[1], d[2]) THEN UNCHANGED <<disk, dir>>
             ELSE disk' = [disk EXCEPT ![d[1]] = Absent] /\ dir' = d[1][1]
          /\ UNCHANGED pc
       \/ /\ Fault("remove") /\ ~Protected(d[1], d[2])
          /\ Fail /\ UNCHANGED <<disk, dir, toDelete>>
  /\ UNCHANGED <<dirs, input, runs, todo, scan, left, current, stack, links, link, history>>

\* The directory of the deleted file, then those it is in, until one is not empty
\* or the input is left; an error of sys::fs::remove ends this without a word.
Remaining == IF dir = None THEN {} ELSE Above[dir]
RemoveDirectory ==
  /\ pc = "delete" /\ dir # None
  /\ \/ Empty(dir) /\ dirs' = dirs \ {dir} /\ dir' = ParentPath(dir) /\ UNCHANGED abandoned
     \/ ~Empty(dir) /\ dir' = None /\ UNCHANGED <<dirs, abandoned>>
     \/ Fault("rmdir") /\ dir' = None /\ abandoned' = abandoned \cup Remaining /\ UNCHANGED dirs
  /\ UNCHANGED <<disk, input, pc, runs, todo, scan, toDelete, left, current, stack, links, link,
                 first, after, cut>>

Deleted ==
  /\ pc = "delete" /\ toDelete = {} /\ dir = None
  /\ pc' = "done"
  /\ UNCHANGED <<tree, input, runs, todo, dir, scan, toDelete, left, current, stack, links, link, history>>

-----------------------------------------------------------------------------
(* stubifyDynamicLibrary: one file, written next to it *)

ReadInput ==
  /\ pc = "read"
  /\ LET node == Contents(disk, opts.file) IN
       /\ current' = Stem(Target(disk, opts.file))
       /\ originalNames' = [originalNames EXCEPT ![current'] = Target(disk, opts.file)]
       /\ IF node.is \in Interface /\ node.lib \in Writable
          THEN CallInline(node.lib, Docs(node)) \/ (Fault("read") /\ Fail /\ UNCHANGED stack)
          ELSE Fail /\ UNCHANGED stack
  /\ UNCHANGED <<tree, input, runs, todo, dir, symlinks, dylibs, toDelete, left, links, link, history>>

DeleteInput ==
  /\ pc = "deleteInput"
  /\ \/ disk' = [disk EXCEPT ![originalNames[current]] = Absent] /\ pc' = "done"
     \/ Fault("remove") /\ Fail /\ UNCHANGED disk
  /\ UNCHANGED <<dirs, input, runs, todo, dir, scan, toDelete, left, current, stack, links, link, history>>

-----------------------------------------------------------------------------
Crash ==
  /\ Fault("crash") /\ pc \notin {"idle"} \cup Ended
  /\ pc' = "crashed"
  /\ todo' = {} /\ Fresh
  /\ abandoned' = abandoned \cup Remaining
  /\ UNCHANGED <<tree, input, runs, first, after, cut>>

Init ==
  /\ \E i \in Inputs : disk = i.disk /\ opts = i.opts /\ reexports = i.reexports
  /\ dirs = Dirs
  /\ pc = "idle" /\ runs = 0
  /\ todo = {} /\ symlinks = {} /\ toDelete = {} /\ left = {} /\ links = {}
  /\ dylibs = [s \in Stems |-> Absent] /\ originalNames = [s \in Stems |-> None]
  /\ current = None /\ stack = <<>> /\ link = None /\ dir = None
  /\ first = disk /\ after = None /\ cut = {} /\ abandoned = {}

Step ==
  \/ Scan \/ Scanned \/ Convert \/ inlineFrameworks \/ WriteFile \/ RemoveLink \/ CreateLink
  \/ Converted \/ AllConverted \/ Delete \/ RemoveDirectory \/ Deleted
  \/ ReadInput \/ DeleteInput

Next == Begin \/ Step \/ Crash
Spec == Init /\ [][Next]_vars

-----------------------------------------------------------------------------
(* Properties *)

Frames == [lib : Libs, todo : SUBSET Libs, docs : SUBSET Libs]
Symlinks == [target : Paths, src : Paths, to : Paths]

\* The tree holds files of the kinds that the tool tells apart, and the maps of a
\* run are keyed as in stubifyDirectory; a library being converted has a frame.
TypeOK ==
  /\ disk \in [Paths -> Nodes] /\ dirs \subseteq Dirs
  /\ reexports \in [Libs -> SUBSET Libs]
  /\ pc \in {"idle", "scan", "next", "inline", "write", "relink", "link", "delete", "read",
             "deleteInput"} \cup Ended
  /\ runs \in 0 .. MaxRuns
  /\ todo \subseteq Paths /\ symlinks \subseteq Symlinks /\ links \subseteq symlinks
  /\ dylibs \in [Stems -> Nodes] /\ originalNames \in [Stems -> Paths \cup {None}]
  /\ toDelete \subseteq Paths \X BOOLEAN /\ left \subseteq Stems
  /\ current \in Stems \cup {None} /\ stack \in Seq(Frames)
  /\ pc \in {"inline", "write"} => stack # <<>> /\ current \in Stems
  /\ pc = "link" => link \in symlinks
  /\ dir \in Dirs \cup {None} /\ abandoned \subseteq Dirs

\* What the tool expects of a tree, and a tree like FooSo in MCStubify is not: text
\* stubs and the links to them are the files with the extension .tbd, and of the
\* libraries and the links to them no two differ in the extension only.  An old stub is
\* not a link where a library needs a file, nor a file where a link needs a link, and
\* is of the library that it is next to.
IsTbd(p) == p[3] = "tbd"
TidyTree(d) ==
  /\ \A p \in Paths :
       /\ d[p].is # "part" /\ (d[p].is = "text" => IsTbd(p)) /\ (d[p].is = "dylib" => ~IsTbd(p))
       /\ d[p].is = "link" => (IsTbd(d[p].to) <=> IsTbd(p))
       /\ d[p].is = "dylib" => /\ d[Tbd(p)].is # "link"
                               /\ d[Tbd(p)].is = "text" => d[Tbd(p)].lib = d[p].lib
       /\ d[p].is = "link" /\ ~IsTbd(p) => d[Tbd(p)].is # "text"
  /\ \A p, q \in {r \in Paths : d[r].is \in {"dylib", "link"} /\ ~IsTbd(r)} :
       Stem(p) = Stem(q) => p = q

\* And of the private libraries that it embeds: each is where its install name points,
\* in a file that is not a link, and no other library is there by another extension.
Place(l) == Real(LibPath[l])
Embedded(graph) == UNION {graph[l] \ Kept : l \in Libs}
PlacedTree(d, graph) ==
  \A l \in Embedded(graph) : \A p \in Paths : Stem(p) = Stem(Place(l)) =>
    d[p].is # "link" /\ (d[p].is \in Interface => d[p].lib = l)

\* Whatever the order of the directory, the interface recorded for a name is that
\* of its text stub, if it has one: what an earlier run wrote, or somebody edited,
\* is not replaced by what the dynamic library says (lines 456-476).
TextWins ==
  pc = "next" =>
    \A s \in Stems : LET p == StubOf(s) IN
      disk[p].is \in Textual /\ s \in left /\ ~(opts.deletePrivate /\ Private(p))
        => dylibs[s] = disk[p]

\* The names at first of a dynamic library, its file and the links to it, that the
\* command line does not delete as private; without those of a library whose stub was
\* once cut short, as in the next run such a stub may pass for the whole one.
Hops(d, p) == LET hop[k \in 0 .. MaxLinks] == IF k = 0 THEN p ELSE Hop(d, hop[k - 1])
              IN {Real(hop[k]) : k \in 0 .. MaxLinks}
Spared(p) == opts.deletePrivate => \A q \in Hops(first, p) : ~Private(q)
Names == {p \in Paths : /\ first[p] # Absent
                        /\ Contents(first, p).is = "dylib" /\ Spared(p)
                        /\ Stem(Target(first, p)) \notin cut
                        /\ opts.file # None => p = Target(first, opts.file)}
Whole(p, l) == Contents(disk, p).is = "text" /\ Contents(disk, p).lib = l

\* No name is lost: at every moment, whatever call fails or wherever the process
\* dies, each name of a library leads to the library, or its .tbd twin leads to a
\* whole stub of it, unless a write of the stub was cut short (cut).  The inputs are
\* deleted last for this.  Of a link to a link only
\* the latter is as safe: when a deletion failed between the two, the next run takes
\* the twin of the latter away before it recreates it.
NamesKept ==
  \A p \in Names : LET l == Contents(first, p).lib IN
    \/ Contents(disk, p) = Dylib(l) \/ Whole(Tbd(p), l)
    \/ \E q \in Hops(first, p) \ {p} : first[q].is = "link" /\ Contents(disk, q) = Dylib(l)

\* After a run that succeeds, be it the first or one that takes up what a failed
\* run left, every name has its .tbd twin, and the twin leads to a whole stub, unless
\* a write of the stub was cut short (cut):
\* "create the same symlinks as the ones that pointed to the original library"
\* (line 291).
Mirrored ==
  pc = "done" => \A p \in Names : Whole(Tbd(p), Contents(first, p).lib)

\* A run of the whole directory that succeeds at once leaves no link to nothing,
\* unless it was one before, or what is missing is a link that was deleted as private
\* or the twin that it would have, or the way goes on along an old .tbd link and has
\* become longer than the system follows.
DeletedLinks == {q \in Paths : opts.deletePrivate /\ Private(q) /\ first[q].is = "link"}
OldStubLinks == {q \in Paths : IsTbd(q) /\ first[q].is = "link" /\ disk[q] = first[q]}
NothingDangles ==
  pc = "done" /\ runs = 1 /\ opts.file = None =>
    \A p \in Paths : disk[p].is = "link" /\ ~Exists(disk, p) =>
      \/ first[p].is = "link" /\ ~Exists(first, p)
      \/ Target(disk, p) \in DeletedLinks \cup {Tbd(q) : q \in DeletedLinks}
      \/ Loops(disk, p) /\ Hops(disk, p) \cap OldStubLinks # {}

\* Once a run has succeeded, another one that does changes nothing: the stubs of
\* the first are not taken for originals and deleted.  But a private file is only spared
\* as long as a link leads to it, and on the way to it the first run deletes the private
\* links and replaces the old .tbd links that are not the twin they should be; and a
\* private link that the first run skipped, because its way was too long, may have become
\* shorter by what was deleted.
RenewedLinks == {Tbd(q) : q \in {r \in Paths : /\ first[r].is = "link" /\ ~IsTbd(r)
                                               /\ first[Tbd(r)].is = "link"
                                               /\ first[Tbd(r)] # Link(Tbd(first[r].to))}}
Unprotected(p) ==
  /\ opts.deletePrivate /\ Private(p)
  /\ \E q \in Paths : /\ first[q].is = "link" /\ Target(first, q) = p
                      /\ Hops(first, q) \cap (DeletedLinks \cup RenewedLinks) # {}
Idempotent == pc = "done" /\ after # None =>
  \A p \in Paths :
    disk[p] = after[p] \/ (disk[p] = Absent /\ (Unprotected(p) \/ p \in DeletedLinks))

\* A directory whose last file is deleted goes too, with those above it that it leaves
\* empty (lines 549-564): at every moment, a directory without files still has its turn,
\* or one in it does, or had it when the process died or sys::fs::remove failed.  But for
\* those in which a directory was empty before.
HasFiles(d, in) == \/ \E p \in Paths : d \in Above[p[1]] /\ in[p] # Absent
                   \/ \E a \in Dirs : Alias[a] # a /\ d \in Above[a]
Pruned == opts.file = None =>
  \A d \in dirs \ (Remaining \cup abandoned) :
    (\A b \in Dirs : d \in Above[b] => HasFiles(b, first)) => HasFiles(d, disk)

\* The stub written for a library with private reexports is self-contained, whatever
\* the other files hold by then: libraries, or stubs of this or an earlier run.
SelfContained == opts.inline => Inl!SelfContained

\* The recursion only runs out of stack when private libraries reexport each other
\* in a cycle: public umbrellas that do so are harmless.
OverflowMeansCycle == Inl!OverflowMeansCycle
=============================================================================
