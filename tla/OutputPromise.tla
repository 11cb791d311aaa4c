--------------------------- MODULE OutputPromise ---------------------------
(***************************************************************************)
(* What the drivers may rely on when they write an output file             *)
(* (InterfaceFileManager::writeFile and its result).  As long as a call    *)
(* has not opened the path itself it leaves what is there.  A call that    *)
(* returns success has put the whole document at the path, one that        *)
(* returns an error after it opened the path has left it empty, and only a *)
(* process that dies (a fatal error, a crash) may leave anything else.     *)
(***************************************************************************)
EXTENDS Sequences

CONSTANTS
  Docs,      \* the documents
  Text(_),   \* the text of a document, as written to a file
  Empty,     \* an empty file
  Contents   \* what the path may hold, none when it names no file

VARIABLES
  file,      \* what the path held when the call began, then what it left
  want,      \* the document of the last call
  opened,    \* the call writes to the file that the path names
  outcome    \* "none", "running", or how the last call ended

vars == <<file, want, opened, outcome>>

Init == file \in Contents /\ want \in Docs /\ opened = FALSE /\ outcome = "none"

Begin == /\ outcome # "running" /\ outcome' = "running"
         /\ want' \in Docs /\ opened' = FALSE /\ UNCHANGED file

Open == outcome = "running" /\ opened' = TRUE /\ UNCHANGED <<file, want, outcome>>

\* A call ends in one of some ways; what it has not opened is as it was.
End(results, contents) ==
  /\ outcome = "running" /\ outcome' \in results
  /\ file' \in contents /\ (opened \/ file' = file)
  /\ UNCHANGED <<want, opened>>

Succeed == End({"success"}, {Text(want)})
Fail    == End({"failed"}, {IF opened THEN Empty ELSE file})
Die     == End({"aborted", "crashed"}, Contents)

Next == Begin \/ Open \/ Succeed \/ Fail \/ Die

Spec == Init /\ [][Next]_vars
=============================================================================
