----------------------------- MODULE OutputFile -----------------------------
(***************************************************************************)
(* Writing a text stub: InterfaceFileManager::writeFile and shouldWrite,   *)
(* Registry::writeFile, and the buffered raw_fd_ostream they write with.   *)
(*                                                                         *)
(* Several processes (Writers) may write the same output path, and one may *)
(* write it again and again; each call is one run.  A file is identified   *)
(* by its place in `data`, so that a name can be moved to another file     *)
(* while a process still holds the old one open.  A document stands for an *)
(* interface in one file format; its text is cut into the pieces that the  *)
(* stream hands to write(2), one buffer at a time.                         *)
(***************************************************************************)
EXTENDS Naturals, Sequences

CONSTANTS
  Docs,       \* the documents
  Size,       \* document -> number of pieces of its text
  Writers,    \* the processes
  MaxRuns,    \* bound: runs of each process
  Faults,     \* bound: the calls that may fail, and "crash"
  FirstFiles  \* what the output path may hold at first (a set of 0/1-sequences
              \* of contents: none when it does not exist)

Calls == {"read", "create", "open", "document", "write", "rename", "crash"}

ASSUME WritersAssumption == Writers # {}
ASSUME DocsAssumption == Docs # {} /\ Size \in [Docs -> Nat \ {0}]
ASSUME BoundAssumption == MaxRuns \in Nat /\ Faults \subseteq Calls

Piece(d, i) == [doc |-> d, part |-> i]
Hole == [part |-> 0]
Text(d) == [i \in 1 .. Size[d] |-> Piece(d, i)]

\* Any sequence of pieces: files that were cut short, overwritten or mixed.
Pieces == {Hole} \cup UNION {{Piece(d, i) : i \in 1 .. Size[d]} : d \in Docs}

\* At first there is at most one file.
ASSUME FilesAssumption ==
  \A files \in FirstFiles : files \in Seq(Seq(Pieces)) /\ Len(files) \in {0, 1}

VARIABLES
  path,     \* the file that the output path names, 0 for none
  data,     \* the contents of every file there has been
  temps,    \* the temporary files that still have their name
  inPlace,  \* history: some run has written without a temporary file
  pc, doc,  \* per process: where it is, what it writes
  runs,     \* how many runs it has begun
  fd,       \* the file its stream writes to
  put, off, \* pieces handed to write(2), and how many of them it took
  bad,      \* the stream has seen an error (has_error)
  failed,   \* Registry::writeFile returns an error
  outcome,  \* how the last run ended
  before    \* history: what the path held when the run began

disk   == <<path, data, temps, inPlace>>
stream == <<fd, put, off, bad>>
vars   == <<disk, pc, doc, runs, stream, failed, outcome, before>>

Content == IF path = 0 THEN <<>> ELSE <<data[path]>>
Whole(c) == \E d \in Docs : c = Text(d)

\* write(2) at an offset: past the end it leaves a hole.
WriteAt(content, at, piece) ==
  [i \in 1 .. (IF at > Len(content) THEN at ELSE Len(content)) |->
     IF i = at THEN piece ELSE IF i <= Len(content) THEN content[i] ELSE Hole]

Goto(w, l) == pc' = [pc EXCEPT ![w] = l]
Finish(w, result) ==
  Goto(w, "idle") /\ outcome' = [outcome EXCEPT ![w] = result]
Fault(call) == call \in Faults

-----------------------------------------------------------------------------
(* A driver calls writeFile; one output path per process and run *)

Begin(w) ==
  /\ pc[w] = "idle" /\ runs[w] < MaxRuns
  /\ \E d \in Docs : doc' = [doc EXCEPT ![w] = d]
  /\ runs' = [runs EXCEPT ![w] = @ + 1]
  /\ before' = [before EXCEPT ![w] = Content]
  /\ outcome' = [outcome EXCEPT ![w] = "running"]
  /\ fd' = [fd EXCEPT ![w] = 0] /\ put' = [put EXCEPT ![w] = 0]
  /\ off' = [off EXCEPT ![w] = 0] /\ bad' = [bad EXCEPT ![w] = FALSE]
  /\ failed' = [failed EXCEPT ![w] = FALSE]
  /\ Goto(w, "check")
  /\ UNCHANGED disk

\* The existing file decides: no file, or one that does not parse, is written in
\* place; an equal interface is kept; any other is replaced.  A damaged file may
\* parse as some interface, but not as the document.
Mut_NeverSkip(w) ==
  CASE path = 0 -> {"new"}
    [] path # 0 /\ (data[path] = <<>> \/ Whole(data[path])) -> {"replace"}
    [] OTHER -> {"new", "replace"}
WriteAction(w) ==
  CASE path = 0 -> {"new"}
    [] path # 0 /\ data[path] = Text(doc[w]) -> {"skip"}
    [] path # 0 /\ data[path] # Text(doc[w]) /\ (data[path] = <<>> \/ Whole(data[path])) ->
         {"replace"}
    [] OTHER -> {"new", "replace"}

shouldWrite(w) ==
  /\ pc[w] = "check"
  /\ \E action \in WriteAction(w) \cup (IF Fault("read") THEN {"new"} ELSE {}) :
       IF action = "skip" THEN Finish(w, "success")
       ELSE Goto(w, action) /\ UNCHANGED outcome
  /\ UNCHANGED <<disk, doc, runs, stream, failed, before>>

\* createUniqueFile; when it fails the file is written in place.
Mut_StartOver == "check"
AfterCreateFailure == "new"

Mut_NameOnly == Len(data) + 2
Mut_FixedTemporary == IF temps = {} THEN Len(data) + 1 ELSE CHOOSE t \in temps : TRUE
TemporaryFile == Len(data) + 1

createUniqueFile(w) ==
  /\ pc[w] = "replace"
  /\ \/ /\ data' = IF TemporaryFile \in DOMAIN data
                   THEN [data EXCEPT ![TemporaryFile] = <<>>] ELSE Append(data, <<>>)
        /\ temps' = temps \cup {TemporaryFile}
        /\ fd' = [fd EXCEPT ![w] = TemporaryFile]
        /\ Goto(w, "write")
     \/ /\ Fault("create")
        /\ Goto(w, AfterCreateFailure)
        /\ UNCHANGED <<data, temps, fd>>
  /\ UNCHANGED <<path, inPlace, doc, runs, put, off, bad, failed, outcome, before>>

\* writeFileWithoutTemporary opens the path itself and truncates it.  The error of
\* a failed open is ignored: the stream has no descriptor, and its destructor ends
\* the process.
writeFileWithoutTemporary(w) ==
  /\ pc[w] = "new"
  /\ \/ /\ IF path = 0
           THEN data' = Append(data, <<>>) /\ path' = Len(data) + 1
           ELSE data' = [data EXCEPT ![path] = <<>>] /\ UNCHANGED path
        /\ fd' = [fd EXCEPT ![w] = path']
        /\ inPlace' = TRUE
        /\ Goto(w, "write")
        /\ UNCHANGED outcome
     \/ /\ Fault("open")
        /\ Finish(w, "aborted")
        /\ UNCHANGED <<path, data, fd, inPlace>>
  /\ UNCHANGED <<temps, doc, runs, put, off, bad, failed, before>>

-----------------------------------------------------------------------------
(* The stream *)

\* One piece goes to write(2), or the error is remembered and the piece lost.
WritePiece(w) ==
  /\ put' = [put EXCEPT ![w] = @ + 1]
  /\ \/ /\ data' = [data EXCEPT ![fd[w]] = WriteAt(@, off[w] + 1, Piece(doc[w], put[w] + 1))]
        /\ off' = [off EXCEPT ![w] = @ + 1]
        /\ UNCHANGED bad
     \/ /\ Fault("write")
        /\ bad' = [bad EXCEPT ![w] = TRUE]
        /\ UNCHANGED <<data, off>>

\* No writer takes the interface in this file format (a v1 stub has to be safe for
\* application extensions, and not every driver asks canWrite first), or making its
\* text fails: an error before a single piece is in the stream.  A path that was
\* opened in place stays empty, a temporary file stays behind.
NoText(w) ==
  /\ pc[w] = "write" /\ put[w] = 0 /\ Fault("document")
  /\ failed' = [failed EXCEPT ![w] = TRUE]
  /\ Finish(w, "failed")
  /\ UNCHANGED <<disk, doc, runs, stream, before>>

\* The buffer is full: flush_nonempty.
flush_nonempty(w) ==
  /\ pc[w] = "write" /\ put[w] < Size[doc[w]]
  /\ WritePiece(w)
  /\ UNCHANGED <<path, temps, inPlace, pc, doc, runs, fd, failed, outcome, before>>

\* The whole document is in the stream; its last piece may still be in the buffer.
Mut_AnyTime(w) == put[w] <= Size[doc[w]]
Buffered(w) == put[w] + 1 >= Size[doc[w]]
EndOfText(w) ==
  /\ pc[w] = "write" /\ Buffered(w)
  /\ Goto(w, IF fd[w] \in temps THEN "rename" ELSE "close")
  /\ UNCHANGED <<disk, doc, runs, stream, failed, outcome, before>>

\* rename(tmpPath, path), while the stream is still open; an error leaves the
\* temporary file behind.
Mut_CopiedTemporary(w) == temps
Renamed(w) == temps \ {fd[w]}
rename(w) ==
  /\ pc[w] = "rename"
  /\ \/ path' = fd[w] /\ temps' = Renamed(w) /\ UNCHANGED failed
     \/ Fault("rename") /\ failed' = [failed EXCEPT ![w] = TRUE] /\ UNCHANGED <<path, temps>>
  /\ Goto(w, "close")
  /\ UNCHANGED <<data, inPlace, doc, runs, stream, outcome, before>>

\* The destructor of the stream flushes the buffer and closes the file; an error
\* seen by the stream is fatal, even though the result is already decided.
Mut_ErrorIgnored(w) == IF failed[w] THEN "failed" ELSE "success"
Result(w) ==
  CASE bad'[w] -> "aborted"
    [] ~bad'[w] /\ failed[w] -> "failed"
    [] OTHER -> "success"

closeStream(w) ==
  /\ pc[w] = "close"
  /\ IF put[w] < Size[doc[w]] THEN WritePiece(w) ELSE UNCHANGED <<put, data, off, bad>>
  /\ Finish(w, Result(w))
  /\ UNCHANGED <<path, temps, inPlace, doc, runs, fd, failed, before>>

\* The process is killed, or the machine goes down.
Crash(w) ==
  /\ Fault("crash") /\ pc[w] # "idle"
  /\ Finish(w, "crashed")
  /\ UNCHANGED <<disk, doc, runs, stream, failed, before>>

-----------------------------------------------------------------------------
Init ==
  /\ data \in FirstFiles /\ path = Len(data)
  /\ temps = {} /\ inPlace = FALSE
  /\ pc = [w \in Writers |-> "idle"] /\ doc \in [Writers -> Docs]
  /\ runs = [w \in Writers |-> 0]
  /\ fd = [w \in Writers |-> 0] /\ put = [w \in Writers |-> 0]
  /\ off = [w \in Writers |-> 0] /\ bad = [w \in Writers |-> FALSE]
  /\ failed = [w \in Writers |-> FALSE] /\ outcome = [w \in Writers |-> "none"]
  /\ before = [w \in Writers |-> <<>>]

WriterStep(w) ==
  \/ shouldWrite(w) \/ createUniqueFile(w) \/ writeFileWithoutTemporary(w)
  \/ NoText(w) \/ flush_nonempty(w) \/ EndOfText(w) \/ rename(w) \/ closeStream(w)

Next == \E w \in Writers : Begin(w) \/ WriterStep(w) \/ Crash(w)

Spec == Init /\ [][Next]_vars
FairSpec == Spec /\ \A w \in Writers : WF_vars(WriterStep(w))

-----------------------------------------------------------------------------
(* Properties *)

\* Files, streams and processes have their types, and a stream that is written
\* has an open file of the disk.
TypeOK ==
  /\ data \in Seq(Seq(Pieces)) /\ path \in 0 .. Len(data)
  /\ temps \subseteq DOMAIN data /\ inPlace \in BOOLEAN
  /\ pc \in [Writers -> {"idle", "check", "new", "replace", "write", "rename", "close"}]
  /\ doc \in [Writers -> Docs]
  /\ runs \in [Writers -> 0 .. MaxRuns]
  /\ fd \in [Writers -> 0 .. Len(data)]
  /\ put \in [Writers -> Nat] /\ off \in [Writers -> Nat]
  /\ \A w \in Writers :
       /\ put[w] \in 0 .. Size[doc[w]] /\ off[w] \in 0 .. put[w]
       /\ pc[w] \in {"write", "rename", "close"} => fd[w] # 0
  /\ bad \in [Writers -> BOOLEAN] /\ failed \in [Writers -> BOOLEAN]
  /\ outcome \in [Writers ->
       {"none", "running", "success", "failed", "aborted", "crashed"}]

\* A file that already holds an equal interface is not touched by the run that
\* finds it (its modification time survives): same file, same content, unless it
\* could not be read and was written in place.  (For a single writer.)
EqualFileUntouched ==
  \A w \in Writers :
    before[w] = <<Text(doc[w])>> /\ outcome[w] # "none" /\ ~inPlace =>
      fd[w] = 0 /\ Content = before[w]

\* A run that succeeds leaves no temporary file of its own behind.
NoTemporaryAfterSuccess ==
  \A w \in Writers : outcome[w] = "success" => fd[w] \notin temps

\* Once every run has succeeded, and none had to write in place, the output is
\* the whole document of one of the processes: never a mix of two.
QuietFileIsWhole ==
  ~inPlace /\ (\A w \in Writers : outcome[w] = "success") =>
    \E w \in Writers : Content = <<Text(doc[w])>>

\* Without writing in place, whoever reads the path at any moment finds the
\* beginning of one document, whatever the processes are doing.
NeverMixed ==
  ~inPlace /\ path # 0 =>
    \E d \in Docs :
      /\ Len(data[path]) <= Size[d]
      /\ \A i \in DOMAIN data[path] : data[path][i] = Piece(d, i)

\* Every run ends: the fallback from the temporary file is taken once.
Finishes == \A w \in Writers : (outcome[w] = "running") ~> (outcome[w] # "running")

\* With one writer, the calls keep the promise of OutputPromise: what the path
\* holds is observed when a run begins and when it has ended, and the path is
\* opened once it names the file of the stream.
Writer == CHOOSE w \in Writers : TRUE
Observed == IF outcome[Writer] = "running" THEN before[Writer] ELSE Content
OneText(d) == <<Text(d)>>
AnyContent == {<<>>} \cup [1 .. 1 -> Seq(Pieces)]

Opened == path # 0 /\ fd[Writer] = path

Promise == INSTANCE OutputPromise WITH
  Text <- OneText, Contents <- AnyContent, Empty <- <<<<>>>>,
  file <- Observed, want <- doc[Writer], opened <- Opened, outcome <- outcome[Writer]

\* What every driver may rely on: a call that returns success has put the whole
\* document at the path; one that returns an error has left the path alone, or
\* empty when it had opened it to write in place; a process that dies leaves
\* anything else only at a path it had opened (writeFile and its callers).
ImplementsPromise == Promise!Spec

-----------------------------------------------------------------------------
(* What the source says of itself and the code does not keep *)

\* "attempts to write the file in a temporary location then atomically rename it
\* to the final destination" (Registry.cpp 156): the path would hold a whole
\* document at every moment, as long as no run writes in place.
ReplacedAtomically == ~inPlace /\ path # 0 => Whole(data[path])
=============================================================================
