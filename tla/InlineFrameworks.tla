-------------------------- MODULE InlineFrameworks --------------------------
(***************************************************************************)
(* inlineFrameworks (StubDriver.cpp): the private libraries that a library *)
(* reexports become documents of its stub.  The function calls itself for  *)
(* each of them, without a record of the libraries it has been through;    *)
(* the frames of that recursion are the variable `stack`.                  *)
(*                                                                         *)
(* What the search paths hold (reexports, found, held) belongs to the      *)
(* caller; this module only reads it.                                      *)
(***************************************************************************)
EXTENDS Naturals, Sequences

CONSTANTS
  Libs,      \* the libraries, by install name
  Kept,      \* those left as reexports: isPublicDylib, or the name starts with "@"
  Writable,  \* those that the output format can express (Registry::canWrite)
  MaxDepth   \* frames that the process has stack for

VARIABLES
  reexports, \* library -> the libraries it reexports
  found,     \* the libraries that can be found and read
  held,      \* library -> the documents its file holds already
  pc,        \* "inline", and where that ends: "write", "failed" or "overflow"
  stack      \* the calls in progress, the outermost first

Frame(l) == [lib |-> l, todo |-> reexports[l], docs |-> held[l]]
top == stack[Len(stack)]
Done(l) == [stack EXCEPT ![Len(stack)].todo = @ \ {l}]
Private(l) == reexports[l] \ Kept
Closed(docs) == \A l \in docs : Private(l) \subseteq docs

-----------------------------------------------------------------------------
(* One reexport of the innermost call *)

Mut_AnyReexport == top.todo
Followed == top.todo \ Kept

\* It is public, or its name starts with "@": it is left as a reexport.
Skip ==
  /\ pc = "inline"
  /\ \E l \in top.todo \ Followed : stack' = Done(l)
  /\ UNCHANGED pc

\* It is looked up and read; its own reexports come first.
Descend ==
  /\ pc = "inline" /\ Len(stack) < MaxDepth
  /\ \E l \in Followed \cap found : stack' = Append(Done(l), Frame(l))
  /\ UNCHANGED pc

\* findAndGetReexportedLibrary returns null: no such file, or it cannot be read.
CannotFind ==
  /\ pc = "inline"
  /\ Followed \ found # {}
  /\ pc' = "failed" /\ UNCHANGED stack

\* One more call than the process has stack for.
Overflow ==
  /\ pc = "inline" /\ Len(stack) = MaxDepth
  /\ Followed \cap found # {}
  /\ pc' = "overflow" /\ UNCHANGED stack

(* The innermost call returns *)

\* dylib->inlineLibrary(reexportedDylib, overwriteFramework): its documents move
\* up, then it becomes one itself; a document that is there already stays.
Mut_OwnDocument == {top.lib}
MovedUp == top.docs \cup {top.lib}
inlineLibrary ==
  /\ pc = "inline" /\ Len(stack) > 1 /\ top.todo = {}
  /\ top.lib \in Writable
  /\ stack' = [SubSeq(stack, 1, Len(stack) - 1) EXCEPT ![Len(stack) - 1].docs = @ \cup MovedUp]
  /\ UNCHANGED pc

CannotConvert ==
  /\ pc = "inline" /\ Len(stack) > 1 /\ top.todo = {}
  /\ top.lib \notin Writable
  /\ pc' = "failed" /\ UNCHANGED stack

Return ==
  /\ pc = "inline" /\ Len(stack) = 1 /\ top.todo = {}
  /\ pc' = "write" /\ UNCHANGED stack

Step == Skip \/ Descend \/ CannotFind \/ Overflow \/ inlineLibrary \/ CannotConvert \/ Return

-----------------------------------------------------------------------------
(* Properties *)

\* The calls in progress follow private reexports, from the library being converted.
StackIsPath ==
  \A i \in 1 .. Len(stack) - 1 : stack[i + 1].lib \in Private(stack[i].lib)

\* The stub that comes out is self-contained: a linker that reads it finds every
\* private library that it or one of its documents reexports (inlineFrameworks
\* exists for nothing else).
SelfContained ==
  pc = "write" /\ stack # <<>> =>
    /\ Private(stack[1].lib) \subseteq stack[1].docs
    /\ Closed(stack[1].docs)

\* The recursion only runs out of stack when private libraries reexport each other
\* in a cycle: public umbrellas that do so are harmless.
OverflowMeansCycle ==
  pc = "overflow" =>
    \E cycle \in SUBSET Libs \ {{}} : \A l \in cycle : Private(l) \cap cycle # {}
=============================================================================
