---------------------------- MODULE StubifyProofs ----------------------------
(* Proofs about Stubify, for any tree, any graph of reexports, any faults  *)
(* and any number of runs.                                                 *)
EXTENDS Stubify, FiniteSetTheorems, WellFoundedInduction, TLAPS

-----------------------------------------------------------------------------
(* Following links *)

\* What the kind of a file says about it.
LEMMA NodeFacts ==
  ASSUME NEW n \in Nodes
  PROVE  /\ n.is \in Textual => n.lib \in Libs /\ n.docs \in SUBSET Libs
         /\ n.is \in Interface => n.lib \in Libs /\ n # Absent
         /\ n.is = "link" => n.to \in Paths
<1>1. CASE n = Absent
  BY <1>1 DEF Absent, Textual, Interface
<1>2. CASE n = Damaged
  BY <1>2 DEF Damaged, Textual, Interface
<1>3. CASE n = Other
  BY <1>3 DEF Other, Textual, Interface
<1>4. CASE \E l \in Libs : n = Dylib(l)
  BY <1>4 DEF Dylib, Absent, Textual, Interface
<1>5. CASE \E l \in Libs : n = Part(l)
  BY <1>5 DEF Part, Absent, Textual, Interface
<1>6. CASE \E l \in Libs, docs \in SUBSET Libs : n = Text(l, docs)
  BY <1>6 DEF Text, Absent, Textual, Interface
<1>7. CASE \E p \in Paths : n = Link(p)
  BY <1>7 DEF Link, Textual, Interface
<1> QED BY <1>1, <1>2, <1>3, <1>4, <1>5, <1>6, <1>7 DEF Nodes

LEMMA KindsOfNodes ==
  /\ Absent \in Nodes /\ Damaged \in Nodes /\ Other \in Nodes
  /\ \A l \in Libs : Part(l) \in Nodes /\ \A docs \in SUBSET Libs : Text(l, docs) \in Nodes
  /\ \A p \in Paths : Link(p) \in Nodes
BY DEF Nodes

LEMMA PathFacts ==
  ASSUME NEW p \in Paths
  PROVE  Real(p) \in Paths /\ Tbd(p) \in Paths /\ Stem(p) \in Stems
<1>1. p = <<p[1], p[2], p[3]>> /\ <<Alias[p[1]], p[2], p[3]>> \in Paths /\ Tbd(p) \in Paths
  BY TreeAssumption
<1>2. Real(p) = <<Alias[p[1]], p[2], p[3]>>
  BY <1>1 DEF Real
<1> QED BY <1>1, <1>2 DEF Stems

LEMMA HopFacts ==
  ASSUME NEW d \in [Paths -> Nodes], NEW p \in Paths
  PROVE  Hop(d, p) \in Paths
<1>1. Real(p) \in Paths /\ d[Real(p)] \in Nodes
  BY PathFacts
<1> QED BY <1>1, NodeFacts DEF Hop

\* Every nonempty set of naturals has a least element.
LEMMA Least ==
  ASSUME NEW T \in SUBSET Nat, T # {}
  PROVE  \E x \in T : \A y \in T : x <= y
<1> DEFINE R == {ss \in Nat \X Nat : ss[1] < ss[2]}
<1>1. IsWellFoundedOn(R, Nat)
  BY NatLessThanWellFounded DEF OpToRel
<1>2. \A x \in T, y \in T : y < x => <<y, x>> \in R
  OBVIOUS
<1> HIDE DEF R
<1>3. PICK x \in T : \A y \in T : ~(<<y, x>> \in R)
  BY <1>1, WFMin
<1>4. ASSUME NEW y \in T PROVE x <= y
  <2>1. ~(y < x)
    BY <1>2, <1>3
  <2> QED BY <2>1
<1> QED BY <1>3, <1>4

\* Following n links from p, as the recursive functions of Target and Hops do.
Chain(d, p, n, f) == f = [k \in 0 .. n |-> IF k = 0 THEN p ELSE Hop(d, f[k - 1])]

LEMMA ChainExists ==
  ASSUME NEW d, NEW p
  PROVE  \A n \in Nat : \E f : Chain(d, p, n, f)
<1> DEFINE Bad == {n \in Nat : ~\E f : Chain(d, p, n, f)}
<1>1. ASSUME Bad # {} PROVE FALSE
  <2>1. PICK n \in Bad : \A m \in Bad : n <= m
    <3> HIDE DEF Bad
    <3>1. Bad \in SUBSET Nat
      BY DEF Bad
    <3> QED BY <1>1, <3>1, Least
  <2>2. CASE n = 0
    <3>1. Chain(d, p, 0, [k \in 0 .. 0 |-> p])
      BY DEF Chain
    <3> QED BY <2>1, <2>2, <3>1
  <2>3. CASE n # 0
    <3>1. n - 1 \in Nat /\ n - 1 \notin Bad
      BY <2>1, <2>3
    <3>2. PICK f : Chain(d, p, n - 1, f)
      BY <3>1
    <3> DEFINE g == [k \in 0 .. n |-> IF k = n THEN Hop(d, f[n - 1]) ELSE f[k]]
    <3>3. \A k \in 0 .. n : g[k] = IF k = 0 THEN p ELSE Hop(d, g[k - 1])
      BY <3>1, <3>2, <2>1, <2>3 DEF Chain
    <3>4. Chain(d, p, n, g)
      BY <3>3 DEF Chain
    <3> QED BY <3>4, <2>1
  <2> QED BY <2>2, <2>3
<1> QED BY <1>1

LEMMA ChainStays ==
  ASSUME NEW d \in [Paths -> Nodes], NEW p \in Paths, NEW n \in Nat, NEW f, Chain(d, p, n, f)
  PROVE  \A k \in 0 .. n : f[k] \in Paths
<1> DEFINE Bad == {k \in 0 .. n : f[k] \notin Paths}
<1>1. ASSUME Bad # {} PROVE FALSE
  <2>1. PICK k \in Bad : \A m \in Bad : k <= m
    <3> HIDE DEF Bad
    <3>1. Bad \in SUBSET Nat
      BY DEF Bad
    <3> QED BY <1>1, <3>1, Least
  <2>2. k # 0 /\ f[k] = Hop(d, f[k - 1])
    BY <2>1 DEF Chain
  <2>3. k - 1 \in 0 .. n /\ k - 1 \notin Bad
    BY <2>1, <2>2
  <2> QED BY <2>1, <2>2, <2>3, HopFacts
<1> QED BY <1>1

LEMMA TargetFacts ==
  ASSUME NEW d \in [Paths -> Nodes], NEW p \in Paths
  PROVE  /\ Target(d, p) \in Paths
         /\ Contents(d, p) \in Nodes
         /\ Contents(d, p) # Absent => Contents(d, p) = d[Target(d, p)]
<1> DEFINE hop == CHOOSE f : f = [k \in 0 .. MaxLinks |-> IF k = 0 THEN p ELSE Hop(d, f[k - 1])]
<1>1. MaxLinks \in Nat
  BY TreeAssumption
<1>2. Chain(d, p, MaxLinks, hop)
  <2>1. \E f : f = [k \in 0 .. MaxLinks |-> IF k = 0 THEN p ELSE Hop(d, f[k - 1])]
    <3>1. PICK f : Chain(d, p, MaxLinks, f)
      BY <1>1, ChainExists
    <3>2. f = [k \in 0 .. MaxLinks |-> IF k = 0 THEN p ELSE Hop(d, f[k - 1])]
      BY <3>1 DEF Chain
    <3> QED BY <3>2
  <2> QED BY <2>1 DEF Chain
<1>3. Target(d, p) = Real(hop[MaxLinks])
  BY DEF Target
<1> HIDE DEF hop
<1>4. hop[MaxLinks] \in Paths
  BY <1>1, <1>2, ChainStays
<1>5. Target(d, p) \in Paths
  BY <1>3, <1>4, PathFacts
<1> QED BY <1>5, KindsOfNodes DEF Contents

-----------------------------------------------------------------------------
(* The frames of inlineFrameworks, over any graph of reexports *)

ClosedIn(graph, docs) == \A l \in docs : graph[l] \ Kept \subseteq docs

\* What a private reexport of a call in progress has become: it is still to be done,
\* a document already, or the library of the next call.
FrameOK(graph, s, i) ==
  /\ s[i].todo \subseteq graph[s[i].lib]
  /\ ClosedIn(graph, s[i].docs)
  /\ i < Len(s) => s[i + 1].lib \in graph[s[i].lib] \ Kept
  /\ \A l \in graph[s[i].lib] \ Kept :
       l \in s[i].todo \/ l \in s[i].docs \/ (i < Len(s) /\ l = s[i + 1].lib)
FramesOK(graph, s) == \A i \in 1 .. Len(s) : FrameOK(graph, s, i)

LEMMA FirstFrame ==
  ASSUME NEW graph \in [Libs -> SUBSET Libs], NEW l \in Libs,
         NEW docs \in SUBSET Libs, ClosedIn(graph, docs)
  PROVE  LET s == <<[lib |-> l, todo |-> graph[l], docs |-> docs]>> IN
         s \in Seq(Frames) /\ Len(s) = 1 /\ FramesOK(graph, s)
<1> DEFINE s == <<[lib |-> l, todo |-> graph[l], docs |-> docs]>>
<1>1. s \in Seq(Frames) /\ Len(s) = 1
  BY DEF Frames
<1>2. s[1].lib = l /\ s[1].todo = graph[l] /\ s[1].docs = docs
  OBVIOUS
<1>3. FramesOK(graph, s)
  <2> HIDE DEF s
  <2> QED BY <1>1, <1>2 DEF FramesOK, FrameOK
<1> QED BY <1>1, <1>3

LEMMA SetTop ==
  ASSUME NEW s \in Seq(Frames), s # <<>>, NEW f \in Frames
  PROVE  /\ [s EXCEPT ![Len(s)] = f] \in Seq(Frames)
         /\ Len([s EXCEPT ![Len(s)] = f]) = Len(s)
         /\ \A i \in 1 .. Len(s) : [s EXCEPT ![Len(s)] = f][i] = IF i = Len(s) THEN f ELSE s[i]
OBVIOUS

\* The innermost call with other reexports to do, or with other documents.
WithTodo(s, todos) == [s EXCEPT ![Len(s)].todo = todos]
WithDocs(s, docs) == [s EXCEPT ![Len(s)].docs = docs]

LEMMA SetTodo ==
  ASSUME NEW s \in Seq(Frames), s # <<>>, NEW todos \in SUBSET Libs
  PROVE  /\ WithTodo(s, todos) \in Seq(Frames) /\ Len(WithTodo(s, todos)) = Len(s)
         /\ \A i \in 1 .. Len(s) :
              /\ WithTodo(s, todos)[i].lib = s[i].lib
              /\ WithTodo(s, todos)[i].docs = s[i].docs
              /\ WithTodo(s, todos)[i].todo = IF i = Len(s) THEN todos ELSE s[i].todo
<1> DEFINE f == [s[Len(s)] EXCEPT !.todo = todos]
           t == [s EXCEPT ![Len(s)] = f]
<1>1. s[Len(s)] \in Frames
  OBVIOUS
<1>2. f \in Frames /\ f.lib = s[Len(s)].lib /\ f.docs = s[Len(s)].docs /\ f.todo = todos
  BY <1>1 DEF Frames
<1>3. WithTodo(s, todos) = t
  BY DEF WithTodo
<1> HIDE DEF f
<1>4. t \in Seq(Frames) /\ Len(t) = Len(s) /\ \A i \in 1 .. Len(s) : t[i] = IF i = Len(s) THEN f ELSE s[i]
  BY <1>2, SetTop
<1> HIDE DEF t
<1> QED BY <1>2, <1>3, <1>4

LEMMA SetDocs ==
  ASSUME NEW s \in Seq(Frames), s # <<>>, NEW docs \in SUBSET Libs
  PROVE  /\ WithDocs(s, docs) \in Seq(Frames) /\ Len(WithDocs(s, docs)) = Len(s)
         /\ \A i \in 1 .. Len(s) :
              /\ WithDocs(s, docs)[i].lib = s[i].lib
              /\ WithDocs(s, docs)[i].todo = s[i].todo
              /\ WithDocs(s, docs)[i].docs = IF i = Len(s) THEN docs ELSE s[i].docs
<1> DEFINE f == [s[Len(s)] EXCEPT !.docs = docs]
           t == [s EXCEPT ![Len(s)] = f]
<1>1. s[Len(s)] \in Frames
  OBVIOUS
<1>2. f \in Frames /\ f.lib = s[Len(s)].lib /\ f.todo = s[Len(s)].todo /\ f.docs = docs
  BY <1>1 DEF Frames
<1>3. WithDocs(s, docs) = t
  BY DEF WithDocs
<1> HIDE DEF f
<1>4. t \in Seq(Frames) /\ Len(t) = Len(s) /\ \A i \in 1 .. Len(s) : t[i] = IF i = Len(s) THEN f ELSE s[i]
  BY <1>2, SetTop
<1> HIDE DEF t
<1> QED BY <1>2, <1>3, <1>4

\* A public reexport of the innermost call is left as it is.
LEMMA SkipFrame ==
  ASSUME NEW graph \in [Libs -> SUBSET Libs], NEW s \in Seq(Frames), s # <<>>, FramesOK(graph, s),
         NEW l \in s[Len(s)].todo, l \in Kept
  PROVE  LET t == WithTodo(s, s[Len(s)].todo \ {l}) IN
         t \in Seq(Frames) /\ Len(t) = Len(s) /\ FramesOK(graph, t)
<1> DEFINE rest == s[Len(s)].todo \ {l}
           r == WithTodo(s, rest)
<1>1. Len(s) \in Nat \ {0} /\ rest \in SUBSET Libs
  <2>1. s[Len(s)] \in Frames /\ Len(s) \in Nat \ {0}
    OBVIOUS
  <2> QED BY <2>1 DEF Frames
<1>2. /\ r \in Seq(Frames) /\ Len(r) = Len(s)
      /\ \A i \in 1 .. Len(s) : /\ r[i].lib = s[i].lib /\ r[i].docs = s[i].docs
                                /\ r[i].todo = IF i = Len(s) THEN rest ELSE s[i].todo
  <2> HIDE DEF rest
  <2> QED BY <1>1, SetTodo
<1> HIDE DEF r
<1>3. ASSUME NEW i \in 1 .. Len(s) PROVE FrameOK(graph, r, i)
  <2>1. FrameOK(graph, s, i) /\ r[i].lib = s[i].lib /\ r[i].docs = s[i].docs
    BY <1>1, <1>2 DEF FramesOK
  <2>2. CASE i < Len(s)
    <3>1. r[i].todo = s[i].todo /\ r[i + 1].lib = s[i + 1].lib
      BY <1>1, <1>2, <2>2
    <3> QED BY <3>1, <2>1, <2>2, <1>2 DEF FrameOK
  <2>3. CASE i = Len(s)
    <3>1. r[i].todo = rest
      BY <1>1, <1>2, <2>3
    <3> QED BY <3>1, <2>1, <2>3, <1>1, <1>2 DEF FrameOK
  <2> QED BY <1>1, <2>2, <2>3
<1> QED BY <1>2, <1>3 DEF FramesOK, r

\* A private one is the library of a call of its own.
LEMMA DescendFrame ==
  ASSUME NEW graph \in [Libs -> SUBSET Libs], NEW s \in Seq(Frames), s # <<>>, FramesOK(graph, s),
         NEW l \in s[Len(s)].todo, l \notin Kept, NEW docs \in SUBSET Libs, ClosedIn(graph, docs)
  PROVE  LET t == Append(WithTodo(s, s[Len(s)].todo \ {l}),
                         [lib |-> l, todo |-> graph[l], docs |-> docs]) IN
         t \in Seq(Frames) /\ Len(t) = Len(s) + 1 /\ FramesOK(graph, t)
<1> DEFINE rest == s[Len(s)].todo \ {l}
           u == WithTodo(s, rest)
           f == [lib |-> l, todo |-> graph[l], docs |-> docs]
           t == Append(u, f)
<1>1. Len(s) \in Nat \ {0} /\ rest \in SUBSET Libs /\ l \in Libs
  <2>1. s[Len(s)] \in Frames /\ Len(s) \in Nat \ {0}
    OBVIOUS
  <2> QED BY <2>1 DEF Frames
<1>2. /\ u \in Seq(Frames) /\ Len(u) = Len(s)
      /\ \A i \in 1 .. Len(s) : /\ u[i].lib = s[i].lib /\ u[i].docs = s[i].docs
                                /\ u[i].todo = IF i = Len(s) THEN rest ELSE s[i].todo
  <2> HIDE DEF rest
  <2> QED BY <1>1, SetTodo
<1>3. f \in Frames /\ f.lib = l /\ f.todo = graph[l] /\ f.docs = docs
  BY <1>1 DEF Frames
<1>4. /\ t \in Seq(Frames) /\ Len(t) = Len(s) + 1 /\ t[Len(s) + 1] = f
      /\ \A i \in 1 .. Len(s) : t[i] = u[i]
  <2> HIDE DEF u, f
  <2> QED BY <1>1, <1>2, <1>3
<1> HIDE DEF t, u, f
<1>5. ASSUME NEW i \in 1 .. Len(s) + 1 PROVE FrameOK(graph, t, i)
  <2>1. CASE i = Len(s) + 1
    BY <2>1, <1>1, <1>3, <1>4 DEF FrameOK
  <2>2. CASE i = Len(s)
    <3>1. /\ FrameOK(graph, s, i) /\ i + 1 \in 1 .. Len(t) /\ t[i + 1].lib = l
          /\ t[i].lib = s[i].lib /\ t[i].docs = s[i].docs /\ t[i].todo = rest
      BY <2>2, <1>1, <1>2, <1>3, <1>4 DEF FramesOK
    <3>2. l \in graph[s[i].lib] \ Kept
      BY <3>1, <2>2 DEF FrameOK
    <3> QED BY <3>1, <3>2, <2>2, <1>1, <1>4 DEF FrameOK
  <2>3. CASE i < Len(s)
    <3>1. /\ FrameOK(graph, s, i) /\ i + 1 \in 1 .. Len(s) /\ t[i + 1].lib = s[i + 1].lib
          /\ t[i].lib = s[i].lib /\ t[i].docs = s[i].docs /\ t[i].todo = s[i].todo
      BY <2>3, <1>1, <1>2, <1>4 DEF FramesOK
    <3> QED BY <3>1, <2>3, <1>1, <1>4 DEF FrameOK
  <2> QED BY <1>1, <2>1, <2>2, <2>3
<1> QED BY <1>4, <1>5 DEF FramesOK, t, u, f

\* A call that returns leaves its library and its documents with its caller.
LEMMA ReturnFrame ==
  ASSUME NEW graph \in [Libs -> SUBSET Libs], NEW s \in Seq(Frames), FramesOK(graph, s),
         Len(s) > 1, s[Len(s)].todo = {}
  PROVE  LET t == WithDocs(SubSeq(s, 1, Len(s) - 1),
                           s[Len(s) - 1].docs \cup (s[Len(s)].docs \cup {s[Len(s)].lib})) IN
         t \in Seq(Frames) /\ Len(t) = Len(s) - 1 /\ FramesOK(graph, t)
<1> DEFINE n == Len(s) - 1
           u == SubSeq(s, 1, n)
           docs == s[n].docs \cup (s[n + 1].docs \cup {s[n + 1].lib})
           r == WithDocs(u, docs)
<1>1. n \in Nat \ {0} /\ Len(s) = n + 1 /\ s[n] \in Frames /\ s[n + 1] \in Frames
  OBVIOUS
<1>2. u \in Seq(Frames) /\ Len(u) = n /\ u # <<>> /\ \A i \in 1 .. n : u[i] = s[i]
  <2> HIDE DEF n
  <2> QED BY <1>1
<1>3. docs \in SUBSET Libs
  BY <1>1 DEF Frames
<1>4. /\ r \in Seq(Frames) /\ Len(r) = n
      /\ \A i \in 1 .. n : /\ r[i].lib = s[i].lib /\ r[i].todo = s[i].todo
                           /\ r[i].docs = IF i = n THEN docs ELSE s[i].docs
  <2> HIDE DEF n, u, docs
  <2> QED BY <1>2, <1>3, SetDocs
<1>5. FrameOK(graph, s, n) /\ FrameOK(graph, s, n + 1)
  BY <1>1 DEF FramesOK
<1>6. graph[s[n + 1].lib] \ Kept \subseteq s[n + 1].docs
  BY <1>1, <1>5 DEF FrameOK
<1>7. ClosedIn(graph, docs)
  <2> SUFFICES ASSUME NEW l \in docs PROVE graph[l] \ Kept \subseteq docs
    BY DEF ClosedIn
  <2>1. ClosedIn(graph, s[n].docs) /\ ClosedIn(graph, s[n + 1].docs)
    BY <1>5 DEF FrameOK
  <2> QED BY <2>1, <1>6 DEF ClosedIn
<1> HIDE DEF n, u, r
<1>8. ASSUME NEW i \in 1 .. n PROVE FrameOK(graph, r, i)
  <2>1. CASE i = n
    <3>1. r[i].lib = s[n].lib /\ r[i].todo = s[n].todo /\ r[i].docs = docs
      BY <2>1, <1>1, <1>4
    <3>2. \A l \in graph[s[n].lib] \ Kept : l \in s[n].todo \/ l \in docs
      BY <1>1, <1>5 DEF FrameOK
    <3>3. s[n].todo \subseteq graph[s[n].lib]
      BY <1>5 DEF FrameOK
    <3> QED BY <3>1, <3>2, <3>3, <2>1, <1>1, <1>4, <1>7 DEF FrameOK
  <2>2. CASE i < n
    <3>1. /\ FrameOK(graph, s, i) /\ i + 1 \in 1 .. n /\ r[i + 1].lib = s[i + 1].lib
          /\ r[i].lib = s[i].lib /\ r[i].docs = s[i].docs /\ r[i].todo = s[i].todo
      BY <2>2, <1>1, <1>4 DEF FramesOK
    <3> QED BY <3>1, <2>2, <1>1, <1>4 DEF FrameOK
  <2> QED BY <1>1, <2>1, <2>2
<1> QED BY <1>1, <1>4, <1>8 DEF FramesOK, n, u, r

-----------------------------------------------------------------------------
(* The inductive invariant *)

Options == [file : Paths \cup {None}, deleteInput : BOOLEAN,
            deletePrivate : BOOLEAN, inline : BOOLEAN]

\* Every stub there is, and every one the scan recorded, holds what its documents need.
FilesOK == \A p \in Paths : disk[p].is \in Textual => ClosedIn(reexports, disk[p].docs)
MapsOK ==
  /\ \A s \in Stems : /\ dylibs[s] # Absent => dylibs[s].is \in Interface
                      /\ dylibs[s].is \in Textual => ClosedIn(reexports, dylibs[s].docs)
  /\ \A s \in left : dylibs[s] # Absent
  /\ pc = "read" => opts.file \in Paths
StackOK ==
  /\ FramesOK(reexports, stack)
  /\ pc = "write" /\ opts.inline => Len(stack) = 1 /\ stack[1].todo = {}
  /\ pc = "overflow" => Len(stack) = MaxDepth /\ stack[Len(stack)].todo \ Kept # {}
Inv == TypeOK /\ opts \in Options /\ FilesOK /\ MapsOK /\ StackOK

\* What a path leads to.
LEMMA ContentsOK ==
  ASSUME Inv, NEW p \in Paths
  PROVE  /\ Target(disk, p) \in Paths /\ Contents(disk, p) \in Nodes
         /\ Contents(disk, p).is \in Textual => ClosedIn(reexports, Contents(disk, p).docs)
<1>1. disk \in [Paths -> Nodes] /\ FilesOK
  BY DEF Inv, TypeOK
<1>2. /\ Target(disk, p) \in Paths /\ Contents(disk, p) \in Nodes
      /\ Contents(disk, p) # Absent => Contents(disk, p) = disk[Target(disk, p)]
  BY <1>1, TargetFacts
<1>3. CASE Contents(disk, p) = Absent
  BY <1>2, <1>3 DEF Absent, Textual
<1>4. CASE Contents(disk, p) # Absent
  BY <1>1, <1>2, <1>4 DEF FilesOK
<1> QED BY <1>2, <1>3, <1>4

\* The library and the documents of an interface.
LEMMA DocsOK ==
  ASSUME NEW n \in Nodes, n.is \in Interface,
         n.is \in Textual => ClosedIn(reexports, n.docs)
  PROVE  n.lib \in Libs /\ Docs(n) \in SUBSET Libs /\ ClosedIn(reexports, Docs(n))
<1>1. n.lib \in Libs /\ (n.is \in Textual => n.docs \in SUBSET Libs)
  BY NodeFacts
<1>2. ClosedIn(reexports, {})
  BY DEF ClosedIn
<1> QED BY <1>1, <1>2 DEF Docs

LEMMA HeldOK ==
  ASSUME Inv, NEW l \in Libs
  PROVE  Held[l] \in SUBSET Libs /\ ClosedIn(reexports, Held[l])
<1>1. LibPath[l] \in Paths /\ Tbd(LibPath[l]) \in Paths
  BY TreeAssumption, PathFacts
<1>2. LibFile(l) \in Nodes /\ (LibFile(l).is \in Textual => ClosedIn(reexports, LibFile(l).docs))
  BY <1>1, ContentsOK DEF LibFile
<1>3. ClosedIn(reexports, {})
  BY DEF ClosedIn
<1>4. LibFile(l).is \in Textual => LibFile(l).docs \in SUBSET Libs
  BY <1>2, NodeFacts
<1> HIDE DEF LibFile
<1> QED BY <1>2, <1>3, <1>4 DEF Held

LEMMA CallInlineOK ==
  ASSUME Inv, NEW l \in Libs, NEW docs \in SUBSET Libs, ClosedIn(reexports, docs), CallInline(l, docs)
  PROVE  /\ stack' \in Seq(Frames) /\ stack' # <<>> /\ FramesOK(reexports, stack')
         /\ pc' = IF opts.inline THEN "inline" ELSE "write"
<1>1. reexports \in [Libs -> SUBSET Libs]
  BY DEF Inv, TypeOK
<1>2. stack' = <<[lib |-> l, todo |-> reexports[l], docs |-> docs]>>
  BY DEF CallInline
<1>3. stack' \in Seq(Frames) /\ Len(stack') = 1 /\ FramesOK(reexports, stack')
  BY <1>1, <1>2, FirstFrame
<1> QED BY <1>3 DEF CallInline

\* One step of the recursion.
LEMMA InlineStep ==
  ASSUME Inv, Inl!Step
  PROVE  /\ pc = "inline" /\ pc' \in {"inline", "write", "failed", "overflow"}
         /\ stack' \in Seq(Frames) /\ stack' # <<>> /\ FramesOK(reexports, stack')
         /\ pc' = "write" => Len(stack') = 1 /\ stack'[1].todo = {}
         /\ pc' = "overflow" => Len(stack') = MaxDepth /\ stack'[Len(stack')].todo \ Kept # {}
<1>1. /\ reexports \in [Libs -> SUBSET Libs] /\ stack \in Seq(Frames) /\ FramesOK(reexports, stack)
      /\ pc = "inline" => stack # <<>>
  BY DEF Inv, TypeOK, StackOK
<1>2. pc = "inline"
  BY DEF Inl!Step, Inl!Skip, Inl!Descend, Inl!CannotFind, Inl!Overflow, Inl!inlineLibrary,
         Inl!CannotConvert, Inl!Return
<1>3. stack # <<>> /\ Inl!top = stack[Len(stack)] /\ Inl!top \in Frames
  BY <1>1, <1>2 DEF Inl!top
<1>4. CASE Inl!Skip
  <2>1. PICK l \in stack[Len(stack)].todo : l \in Kept /\ stack' = Inl!Done(l)
    BY <1>3, <1>4 DEF Inl!Skip, Inl!Followed
  <2>2. stack' = WithTodo(stack, stack[Len(stack)].todo \ {l})
    BY <2>1 DEF Inl!Done, WithTodo
  <2>3. stack' \in Seq(Frames) /\ Len(stack') = Len(stack) /\ FramesOK(reexports, stack')
    BY <1>1, <1>3, <2>1, <2>2, SkipFrame
  <2> QED BY <1>2, <1>3, <1>4, <2>3 DEF Inl!Skip
<1>5. CASE Inl!Descend
  <2>1. PICK l \in stack[Len(stack)].todo : l \notin Kept /\ stack' = Append(Inl!Done(l), Inl!Frame(l))
    BY <1>3, <1>5 DEF Inl!Descend, Inl!Followed
  <2>2. l \in Libs /\ Held[l] \in SUBSET Libs /\ ClosedIn(reexports, Held[l])
    BY <1>3, <2>1, HeldOK DEF Frames
  <2>3. stack' = Append(WithTodo(stack, stack[Len(stack)].todo \ {l}),
                        [lib |-> l, todo |-> reexports[l], docs |-> Held[l]])
    BY <2>1 DEF Inl!Done, Inl!Frame, WithTodo
  <2>4. stack' \in Seq(Frames) /\ Len(stack') = Len(stack) + 1 /\ FramesOK(reexports, stack')
    <3> DEFINE docs == Held[l]
    <3>1. stack' = Append(WithTodo(stack, stack[Len(stack)].todo \ {l}),
                          [lib |-> l, todo |-> reexports[l], docs |-> docs])
      BY <2>3
    <3>2. docs \in SUBSET Libs /\ ClosedIn(reexports, docs)
      BY <2>2
    <3> HIDE DEF docs
    <3> QED BY <1>1, <1>3, <2>1, <3>1, <3>2, DescendFrame
  <2> QED BY <1>2, <1>5, <2>4, <1>1 DEF Inl!Descend
<1>6. CASE Inl!inlineLibrary
  <2>1. Len(stack) > 1 /\ stack[Len(stack)].todo = {}
    BY <1>3, <1>6 DEF Inl!inlineLibrary
  <2>2. stack' = [SubSeq(stack, 1, Len(stack) - 1) EXCEPT
                    ![Len(stack) - 1].docs = @ \cup (stack[Len(stack)].docs \cup {stack[Len(stack)].lib})]
    BY <1>3, <1>6 DEF Inl!inlineLibrary, Inl!MovedUp
  <2>3. /\ Len(SubSeq(stack, 1, Len(stack) - 1)) = Len(stack) - 1
        /\ SubSeq(stack, 1, Len(stack) - 1)[Len(stack) - 1] = stack[Len(stack) - 1]
    BY <1>1, <2>1
  <2>4. stack' = WithDocs(SubSeq(stack, 1, Len(stack) - 1),
                          stack[Len(stack) - 1].docs \cup (stack[Len(stack)].docs \cup {stack[Len(stack)].lib}))
    BY <2>2, <2>3 DEF WithDocs
  <2>5. stack' \in Seq(Frames) /\ Len(stack') = Len(stack) - 1 /\ FramesOK(reexports, stack')
    BY <1>1, <2>1, <2>4, ReturnFrame
  <2>6. stack' # <<>>
    BY <2>1, <2>5, <1>1
  <2>7. pc' = "inline"
    BY <1>2, <1>6 DEF Inl!inlineLibrary
  <2> QED BY <1>2, <2>5, <2>6, <2>7
<1>7. CASE Inl!CannotFind \/ Inl!CannotConvert
  BY <1>1, <1>2, <1>3, <1>7 DEF Inl!CannotFind, Inl!CannotConvert
<1>8. CASE Inl!Overflow
  BY <1>1, <1>2, <1>3, <1>8 DEF Inl!Overflow, Inl!Followed
<1>9. CASE Inl!Return
  BY <1>1, <1>2, <1>3, <1>9 DEF Inl!Return
<1> QED BY <1>4, <1>5, <1>6, <1>7, <1>8, <1>9 DEF Inl!Step

\* Nothing is being converted when a run begins or dies.
LEMMA NothingLeft ==
  /\ <<>> \in Seq(Frames) /\ Len(<<>>) = 0
  /\ \A graph : FramesOK(graph, <<>>)
BY DEF FramesOK

LEMMA InvInit == Init => Inv
<1> SUFFICES ASSUME Init PROVE Inv
  OBVIOUS
<1>1. PICK i \in Inputs : disk = i.disk /\ opts = i.opts /\ reexports = i.reexports
  BY DEF Init
<1>2. disk \in [Paths -> Nodes] /\ reexports \in [Libs -> SUBSET Libs] /\ opts \in Options
  BY <1>1, InputsAssumption DEF Options
<1>3. FilesOK
  BY <1>1, StubsAssumption DEF FilesOK, ClosedIn
<1>4. TypeOK
  BY <1>2, NothingLeft, KindsOfNodes, TreeAssumption DEF Init, TypeOK, Ended
<1>5. MapsOK
  BY DEF Init, MapsOK, Absent, Textual
<1>6. StackOK
  BY NothingLeft DEF Init, StackOK
<1> QED BY <1>2, <1>3, <1>4, <1>5, <1>6 DEF Inv

LEMMA RemainingDirs ==
  ASSUME Inv
  PROVE  Remaining \subseteq Dirs
BY TreeAssumption DEF Remaining, Inv, TypeOK

\* What a run starts with again.
LEMMA FreshOK ==
  ASSUME Inv, Fresh, UNCHANGED <<tree, input>>, todo' \subseteq Paths, runs' \in 0 .. MaxRuns,
         pc' \in {"scan", "read", "crashed"}, pc' = "read" => opts.file \in Paths,
         abandoned' \subseteq Dirs
  PROVE  Inv'
<1>1. TypeOK'
  BY NothingLeft, KindsOfNodes DEF Inv, TypeOK, Fresh, tree, input, Ended
<1>2. FilesOK'
  BY DEF Inv, FilesOK, tree, input
<1>3. MapsOK'
  BY DEF Fresh, MapsOK, Absent, Textual, input
<1>4. StackOK'
  BY NothingLeft DEF Fresh, StackOK, input
<1> QED BY <1>1, <1>2, <1>3, <1>4 DEF Inv, input

LEMMA InvBegin == Inv /\ Begin => Inv'
<1> SUFFICES ASSUME Inv, Begin PROVE Inv'
  OBVIOUS
<1>1. runs' \in 0 .. MaxRuns
  BY TreeAssumption DEF Begin, Inv, TypeOK
<1>2. todo' \subseteq Paths
  BY DEF Begin
<1>3. pc' \in {"scan", "read", "crashed"} /\ (pc' = "read" => opts.file \in Paths)
  BY DEF Begin, Inv, Options
<1>4. Fresh /\ UNCHANGED <<tree, input>> /\ abandoned' \subseteq Dirs
  BY DEF Begin, Inv, TypeOK
<1> QED BY <1>1, <1>2, <1>3, <1>4, FreshOK

LEMMA InvCrash == Inv /\ Crash => Inv'
<1> SUFFICES ASSUME Inv, Crash PROVE Inv'
  OBVIOUS
<1>1. Fresh /\ UNCHANGED <<tree, input, runs>> /\ todo' = {} /\ pc' = "crashed"
  BY DEF Crash
<1>2. runs' \in 0 .. MaxRuns
  BY <1>1 DEF Inv, TypeOK
<1>3. abandoned' \subseteq Dirs
  BY RemainingDirs DEF Crash, Inv, TypeOK
<1> QED BY <1>1, <1>2, <1>3, FreshOK

\* What a file of the directory adds to the maps of the scan.
LEMMA ScanEntry ==
  ASSUME Inv, pc = "scan", NEW p \in Paths,
         ScanPrivate(p) \/ ScanLink(p) \/ ScanFile(p) \/ ScanOther(p) \/ ScanError(p)
  PROVE  /\ pc' \in {"scan", "failed"}
         /\ symlinks \subseteq symlinks' /\ symlinks' \subseteq Symlinks
         /\ toDelete' \subseteq Paths \X BOOLEAN
         /\ originalNames' \in [Stems -> Paths \cup {None}]
         /\ dylibs' \in [Stems -> Nodes]
         /\ \A s \in Stems : /\ dylibs[s] # Absent => dylibs'[s] # Absent
                             /\ dylibs'[s] # Absent => dylibs'[s].is \in Interface
                             /\ dylibs'[s].is \in Textual => ClosedIn(reexports, dylibs'[s].docs)
<1>1. /\ symlinks \subseteq Symlinks /\ toDelete \subseteq Paths \X BOOLEAN
      /\ originalNames \in [Stems -> Paths \cup {None}] /\ dylibs \in [Stems -> Nodes]
      /\ disk[p] \in Nodes /\ Stem(p) \in Stems
  BY PathFacts DEF Inv, TypeOK
<1>2. \A s \in Stems : /\ dylibs[s] # Absent => dylibs[s].is \in Interface
                       /\ dylibs[s].is \in Textual => ClosedIn(reexports, dylibs[s].docs)
  BY DEF Inv, MapsOK
<1>3. CASE ScanPrivate(p)
  <2>1. toDelete' = toDelete \cup {<<p, FALSE>>} /\ UNCHANGED <<pc, symlinks, dylibs, originalNames>>
    BY <1>3 DEF ScanPrivate, scan
  <2>2. <<p, FALSE>> \in Paths \X BOOLEAN
    OBVIOUS
  <2>3. toDelete' \subseteq Paths \X BOOLEAN
    BY <1>1, <2>1, <2>2
  <2> QED BY <1>1, <1>2, <2>1, <2>3
<1>4. CASE ScanLink(p)
  <2>1. disk[p].to \in Paths /\ Target(disk, p) \in Paths
    BY <1>1, <1>4, NodeFacts, ContentsOK DEF ScanLink
  <2>2. [target |-> Target(disk, p), src |-> p, to |-> disk[p].to] \in Symlinks
    <3> DEFINE target == Target(disk, p)
               to == disk[p].to
    <3>1. target \in Paths /\ to \in Paths
      BY <2>1
    <3> HIDE DEF target, to
    <3>2. [target |-> target, src |-> p, to |-> to] \in Symlinks
      BY <3>1 DEF Symlinks
    <3> QED BY <3>2 DEF target, to
  <2>3. symlinks' = symlinks \/ symlinks' = symlinks \cup {[target |-> Target(disk, p), src |-> p, to |-> disk[p].to]}
    BY <1>4 DEF ScanLink
  <2>4. symlinks \subseteq symlinks' /\ symlinks' \subseteq Symlinks
    BY <1>1, <2>2, <2>3
  <2>5. UNCHANGED <<pc, dylibs, originalNames, toDelete>>
    BY <1>4 DEF ScanLink
  <2> QED BY <1>1, <1>2, <2>4, <2>5
<1>5. CASE ScanFile(p)
  <2>1. disk[p].is \in Interface /\ disk[p] # Absent
    BY <1>1, <1>5, NodeFacts DEF ScanFile
  <2>2. disk[p].is \in Textual => ClosedIn(reexports, disk[p].docs)
    BY DEF Inv, FilesOK
  <2>3. dylibs' = dylibs \/ dylibs' = [dylibs EXCEPT ![Stem(p)] = disk[p]]
    BY <1>5 DEF ScanFile
  <2>4. originalNames' \in [Stems -> Paths \cup {None}]
    BY <1>1, <1>5 DEF ScanFile
  <2>5. UNCHANGED <<pc, symlinks, toDelete>>
    BY <1>5 DEF ScanFile
  <2>6. CASE dylibs' = dylibs
    BY <1>1, <1>2, <2>4, <2>5, <2>6
  <2>7. CASE dylibs' = [dylibs EXCEPT ![Stem(p)] = disk[p]]
    <3>1. dylibs' \in [Stems -> Nodes]
      BY <1>1, <2>7
    <3>2. \A s \in Stems : dylibs'[s] = IF s = Stem(p) THEN disk[p] ELSE dylibs[s]
      BY <1>1, <2>7
    <3> QED BY <1>1, <1>2, <2>1, <2>2, <2>4, <2>5, <3>1, <3>2
  <2> QED BY <2>3, <2>6, <2>7
<1>6. CASE ScanOther(p)
  BY <1>1, <1>2, <1>6 DEF ScanOther, scan
<1>7. CASE ScanError(p)
  BY <1>1, <1>2, <1>7 DEF ScanError, Fail, scan
<1> QED BY <1>3, <1>4, <1>5, <1>6, <1>7

LEMMA InvScan == Inv /\ Scan => Inv'
<1> SUFFICES ASSUME Inv, Scan PROVE Inv'
  OBVIOUS
<1>1. PICK p \in todo : /\ ScanPrivate(p) \/ ScanLink(p) \/ ScanFile(p) \/ ScanOther(p) \/ ScanError(p)
                        /\ todo' = todo \ {p}
  BY DEF Scan
<1>2. /\ pc = "scan" /\ p \in Paths /\ todo' \subseteq Paths
      /\ UNCHANGED <<tree, input, runs, dir, abandoned, left, current, stack, links, link>>
  BY <1>1 DEF Scan, Inv, TypeOK, history
<1>3. /\ pc' \in {"scan", "failed"}
      /\ symlinks \subseteq symlinks' /\ symlinks' \subseteq Symlinks
      /\ toDelete' \subseteq Paths \X BOOLEAN
      /\ originalNames' \in [Stems -> Paths \cup {None}]
      /\ dylibs' \in [Stems -> Nodes]
      /\ \A s \in Stems : /\ dylibs[s] # Absent => dylibs'[s] # Absent
                          /\ dylibs'[s] # Absent => dylibs'[s].is \in Interface
                          /\ dylibs'[s].is \in Textual => ClosedIn(reexports, dylibs'[s].docs)
  BY <1>1, <1>2, ScanEntry
<1>4. TypeOK'
  BY <1>2, <1>3 DEF Inv, TypeOK, tree, input, Ended
<1>5. FilesOK'
  BY <1>2 DEF Inv, FilesOK, tree, input
<1>6. MapsOK'
  BY <1>2, <1>3 DEF Inv, TypeOK, MapsOK, input
<1>7. StackOK'
  BY <1>2, <1>3 DEF Inv, StackOK, input
<1> QED BY <1>2, <1>4, <1>5, <1>6, <1>7 DEF Inv, input

LEMMA InvScanned == Inv /\ Scanned => Inv'
<1> SUFFICES ASSUME Inv, Scanned PROVE Inv'
  OBVIOUS
<1>1. /\ left' = {s \in Stems : dylibs[s] # Absent} /\ pc' = "next"
      /\ UNCHANGED <<tree, input, runs, todo, dir, abandoned, scan, toDelete, current, stack, links, link>>
  BY DEF Scanned, history
<1>2. TypeOK'
  BY <1>1 DEF Inv, TypeOK, tree, input, scan, Ended
<1>3. FilesOK' /\ MapsOK' /\ StackOK'
  BY <1>1 DEF Inv, FilesOK, MapsOK, StackOK, tree, input, scan
<1> QED BY <1>1, <1>2, <1>3 DEF Inv, input

LEMMA InvConvert == Inv /\ Convert => Inv'
<1> SUFFICES ASSUME Inv, Convert PROVE Inv'
  OBVIOUS
<1>1. PICK s \in left : /\ current' = s /\ left' = left \ {s}
                        /\ IF dylibs[s].lib \in Writable
                           THEN CallInline(dylibs[s].lib, Docs(dylibs[s]))
                           ELSE Fail /\ UNCHANGED stack
  BY DEF Convert
<1>2. UNCHANGED <<tree, input, runs, todo, dir, abandoned, scan, toDelete, links, link>> /\ pc = "next"
  BY DEF Convert, history
<1>3. s \in Stems /\ left' \subseteq left /\ dylibs[s] \in Nodes /\ dylibs[s].is \in Interface
  BY <1>1 DEF Inv, TypeOK, MapsOK
<1>4. /\ dylibs[s].lib \in Libs /\ Docs(dylibs[s]) \in SUBSET Libs
      /\ ClosedIn(reexports, Docs(dylibs[s]))
  BY <1>3, DocsOK DEF Inv, MapsOK
<1>5. /\ stack' \in Seq(Frames) /\ FramesOK(reexports, stack')
      /\ pc' \in {"inline", "write"} => stack' # <<>>
      /\ pc' \in {"inline", "write", "failed"} /\ (pc' = "write" => ~opts.inline)
  <2>1. CASE CallInline(dylibs[s].lib, Docs(dylibs[s]))
    BY <2>1, <1>4, CallInlineOK
  <2>2. CASE Fail /\ UNCHANGED stack
    BY <2>2 DEF Fail, Inv, TypeOK, StackOK
  <2> QED BY <1>1, <2>1, <2>2
<1>6. TypeOK'
  BY <1>1, <1>2, <1>3, <1>5 DEF Inv, TypeOK, tree, input, scan, Ended
<1>7. FilesOK' /\ MapsOK'
  BY <1>2, <1>3, <1>5 DEF Inv, FilesOK, MapsOK, tree, input, scan
<1>8. StackOK'
  BY <1>2, <1>5 DEF StackOK, input
<1> QED BY <1>2, <1>6, <1>7, <1>8 DEF Inv, input

LEMMA InvInline == Inv /\ inlineFrameworks => Inv'
<1> SUFFICES ASSUME Inv, inlineFrameworks PROVE Inv'
  OBVIOUS
<1>1. UNCHANGED <<tree, input, runs, todo, dir, abandoned, scan, toDelete, left, current, links, link>>
  BY DEF inlineFrameworks, history
<1>2. /\ pc = "inline" /\ pc' \in {"inline", "write", "failed", "overflow"}
      /\ stack' \in Seq(Frames) /\ stack' # <<>> /\ FramesOK(reexports, stack')
      /\ pc' = "write" => Len(stack') = 1 /\ stack'[1].todo = {}
      /\ pc' = "overflow" => Len(stack') = MaxDepth /\ stack'[Len(stack')].todo \ Kept # {}
  <2>1. CASE Inl!Step
    BY <2>1, InlineStep
  <2>2. CASE pc = "inline" /\ Fail /\ UNCHANGED stack
    BY <2>2 DEF Fail, Inv, TypeOK, StackOK
  <2> QED BY <2>1, <2>2 DEF inlineFrameworks
<1>3. TypeOK'
  BY <1>1, <1>2 DEF Inv, TypeOK, tree, input, scan, Ended
<1>4. FilesOK' /\ MapsOK'
  BY <1>1, <1>2 DEF Inv, FilesOK, MapsOK, tree, input, scan
<1>5. StackOK'
  BY <1>1, <1>2 DEF StackOK, input
<1> QED BY <1>1, <1>3, <1>4, <1>5 DEF Inv, input

\* A stub on its way to the disk.
LEMMA StubOK ==
  ASSUME Inv, pc = "write"
  PROVE  /\ stack[1].lib \in Libs /\ stack[1].docs \in SUBSET Libs
         /\ stub \in Nodes /\ ClosedIn(reexports, stub.docs)
<1>1. stack \in Seq(Frames) /\ 1 \in 1 .. Len(stack) /\ FrameOK(reexports, stack, 1)
  BY DEF Inv, TypeOK, StackOK, FramesOK
<1>2. stack[1] \in Frames
  BY <1>1
<1>3. stack[1].lib \in Libs /\ stack[1].docs \in SUBSET Libs
  BY <1>2 DEF Frames
<1>4. stub.docs = stack[1].docs
  BY DEF stub, Text
<1> QED BY <1>1, <1>3, <1>4, KindsOfNodes DEF stub, FrameOK

\* The tree after one file of it has changed.
LEMMA OneFileChanged ==
  ASSUME Inv, NEW p, NEW n \in Nodes, n.is \in Textual => ClosedIn(reexports, n.docs),
         disk' = [disk EXCEPT ![p] = n], UNCHANGED reexports
  PROVE  disk' \in [Paths -> Nodes] /\ FilesOK'
<1>1. disk \in [Paths -> Nodes] /\ FilesOK
  BY DEF Inv, TypeOK
<1>2. disk' \in [Paths -> Nodes]
  BY <1>1
<1>3. \A q \in Paths : disk'[q] = disk[q] \/ disk'[q] = n
  BY <1>1
<1>4. FilesOK'
  BY <1>1, <1>3 DEF FilesOK
<1> QED BY <1>2, <1>4

LEMMA InvWriteFile == Inv /\ WriteFile => Inv'
<1> SUFFICES ASSUME Inv, WriteFile PROVE Inv'
  OBVIOUS
<1>1. /\ pc = "write"
      /\ UNCHANGED <<dirs, input, runs, todo, dir, abandoned, scan, left, current, stack, link>>
  BY DEF WriteFile
<1>2. AfterWrite \/ WriteFailed \/ (pc' = "crashed" /\ UNCHANGED <<links, toDelete>>)
  BY DEF WriteFile
<1>3. /\ pc' \in {"deleteInput", "done", "relink", "failed", "crashed"}
      /\ links' \subseteq symlinks /\ toDelete' \subseteq Paths \X BOOLEAN
  <2>1. /\ links \subseteq symlinks /\ toDelete \subseteq Paths \X BOOLEAN /\ current \in Stems
        /\ originalNames \in [Stems -> Paths \cup {None}]
    BY <1>1 DEF Inv, TypeOK
  <2>2. CASE AfterWrite
    <3>1. CASE opts.file # None
      BY <2>1, <2>2, <3>1 DEF AfterWrite
    <3>2. CASE opts.file = None
      <4>1. /\ pc' = "relink" /\ links' \subseteq symlinks
            /\ toDelete' = toDelete \cup (IF opts.deleteInput /\ originalNames[current] # None
                                          THEN {<<originalNames[current], TRUE>>} ELSE {})
        BY <2>2, <3>2 DEF AfterWrite
      <4>2. originalNames[current] # None => <<originalNames[current], TRUE>> \in Paths \X BOOLEAN
        BY <2>1
      <4>3. toDelete' \subseteq Paths \X BOOLEAN
        BY <2>1, <4>1, <4>2
      <4> QED BY <4>1, <4>3
    <3> QED BY <3>1, <3>2
  <2>3. CASE WriteFailed
    BY <2>1, <2>3 DEF WriteFailed, Fail
  <2>4. CASE pc' = "crashed" /\ UNCHANGED <<links, toDelete>>
    BY <2>1, <2>4
  <2> QED BY <1>2, <2>2, <2>3, <2>4
<1>4. disk' \in [Paths -> Nodes] /\ FilesOK'
  <2>0. UNCHANGED reexports
    BY <1>1 DEF input
  <2>1. CASE UNCHANGED disk
    BY <1>1, <2>1 DEF Inv, TypeOK, FilesOK, input
  <2>2. CASE \E p \in Written : disk' = [disk EXCEPT ![p] = stub]
    <3>1. stub \in Nodes /\ ClosedIn(reexports, stub.docs)
      BY <1>1, StubOK
    <3>2. PICK p \in Written : disk' = [disk EXCEPT ![p] = stub]
      BY <2>2
    <3> DEFINE n == stub
    <3>3. n \in Nodes /\ ClosedIn(reexports, n.docs) /\ disk' = [disk EXCEPT ![p] = n]
      BY <3>1, <3>2
    <3> HIDE DEF n
    <3> QED BY <2>0, <3>3, OneFileChanged
  <2>3. CASE \E p \in Written, n \in {Part(stack[1].lib), Damaged, Other} : disk' = [disk EXCEPT ![p] = n]
    <3>1. PICK p \in Written, n \in {Part(stack[1].lib), Damaged, Other} : disk' = [disk EXCEPT ![p] = n]
      BY <2>3
    <3>2. n \in Nodes
      BY <1>1, <3>1, StubOK, KindsOfNodes
    <3>3. n.is \in Textual => n.docs = {}
      BY <3>1 DEF Part, Damaged, Other, Textual
    <3>4. n.is \in Textual => ClosedIn(reexports, n.docs)
      BY <3>3 DEF ClosedIn
    <3> QED BY <2>0, <3>1, <3>2, <3>4, OneFileChanged
  <2> QED BY <2>1, <2>2, <2>3 DEF WriteFile
<1>5. TypeOK'
  BY <1>1, <1>3, <1>4 DEF Inv, TypeOK, input, scan, Ended
<1>6. MapsOK'
  BY <1>1, <1>3 DEF Inv, MapsOK, input, scan
<1>7. StackOK'
  BY <1>1, <1>3 DEF Inv, StackOK, input
<1> QED BY <1>1, <1>4, <1>5, <1>6, <1>7 DEF Inv, input

\* The steps that only remove or relink files, with the maps as they are.
LEMMA KeepsMaps ==
  ASSUME Inv, UNCHANGED <<input, dylibs, left, stack>>, pc' \notin {"read", "write", "overflow"}
  PROVE  MapsOK' /\ StackOK' /\ opts' \in Options
BY DEF Inv, MapsOK, StackOK, input

LEMMA InvRemoveLink == Inv /\ RemoveLink => Inv'
<1> SUFFICES ASSUME Inv, RemoveLink PROVE Inv'
  OBVIOUS
<1>1. /\ pc = "relink"
      /\ UNCHANGED <<dirs, input, runs, todo, dir, abandoned, scan, toDelete, left, current, stack>>
      /\ pc' \in {"link", "failed"} /\ links' \subseteq links /\ (pc' = "link" => link' \in links)
  BY DEF RemoveLink, Fail, history
<1>2. disk' \in [Paths -> Nodes] /\ FilesOK'
  <2>1. UNCHANGED disk \/ \E p : disk' = [disk EXCEPT ![p] = Absent]
    BY DEF RemoveLink
  <2>2. CASE UNCHANGED disk
    BY <1>1, <2>2 DEF Inv, TypeOK, FilesOK, input
  <2>3. CASE \E p : disk' = [disk EXCEPT ![p] = Absent]
    <3>1. Absent \in Nodes /\ Absent.is \notin Textual
      BY KindsOfNodes DEF Absent, Textual
    <3>2. UNCHANGED reexports
      BY <1>1 DEF input
    <3> QED BY <2>3, <3>1, <3>2, OneFileChanged
  <2> QED BY <2>1, <2>2, <2>3
<1>3. TypeOK'
  BY <1>1, <1>2 DEF Inv, TypeOK, input, scan, Ended
<1>4. MapsOK' /\ StackOK' /\ opts' \in Options
  <2>1. UNCHANGED <<input, dylibs, left, stack>> /\ pc' \notin {"read", "write", "overflow"}
    BY <1>1 DEF scan
  <2> QED BY <2>1, KeepsMaps
<1> QED BY <1>2, <1>3, <1>4 DEF Inv

LEMMA InvCreateLink == Inv /\ CreateLink => Inv'
<1> SUFFICES ASSUME Inv, CreateLink PROVE Inv'
  OBVIOUS
<1>1. /\ pc = "link" /\ pc' \in {"relink", "failed"}
      /\ UNCHANGED <<dirs, input, runs, todo, dir, abandoned, scan, left, current, stack, links, link>>
  BY DEF CreateLink, Fail, history
<1>2. link \in Symlinks
  BY <1>1 DEF Inv, TypeOK
<1>3. link.src \in Paths /\ link.to \in Paths
  BY <1>2 DEF Symlinks
<1>4. disk' \in [Paths -> Nodes] /\ FilesOK'
  <2>1. UNCHANGED disk \/ disk' = [disk EXCEPT ![Tbd(link.src)] = Link(TwinTarget)]
    BY DEF CreateLink
  <2>2. CASE UNCHANGED disk
    BY <1>1, <2>2 DEF Inv, TypeOK, FilesOK, input
  <2>3. CASE disk' = [disk EXCEPT ![Tbd(link.src)] = Link(TwinTarget)]
    <3>1. Tbd(link.to) \in Paths
      BY <1>3, PathFacts
    <3>2. Link(TwinTarget) \in Nodes
      BY <3>1, KindsOfNodes DEF TwinTarget
    <3>3. Link(TwinTarget).is \notin Textual
      BY DEF Link, Textual
    <3>4. UNCHANGED reexports
      BY <1>1 DEF input
    <3> QED BY <2>3, <3>2, <3>3, <3>4, OneFileChanged
  <2> QED BY <2>1, <2>2, <2>3
<1>5. toDelete' \subseteq Paths \X BOOLEAN
  <2>1. toDelete \subseteq Paths \X BOOLEAN
    BY DEF Inv, TypeOK
  <2>2. toDelete' = toDelete \/ toDelete' = toDelete \cup {<<link.src, TRUE>>}
    BY DEF CreateLink
  <2>3. <<link.src, TRUE>> \in Paths \X BOOLEAN
    BY <1>3
  <2> QED BY <2>1, <2>2, <2>3
<1>6. TypeOK'
  BY <1>1, <1>4, <1>5 DEF Inv, TypeOK, input, scan, Ended
<1>7. MapsOK' /\ StackOK' /\ opts' \in Options
  <2>1. UNCHANGED <<input, dylibs, left, stack>> /\ pc' \notin {"read", "write", "overflow"}
    BY <1>1 DEF scan
  <2> QED BY <2>1, KeepsMaps
<1> QED BY <1>4, <1>6, <1>7 DEF Inv

LEMMA InvDelete == Inv /\ (Delete \/ DeleteInput) => Inv'
<1> SUFFICES ASSUME Inv, Delete \/ DeleteInput PROVE Inv'
  OBVIOUS
<1>1. /\ pc \in {"delete", "deleteInput"} /\ pc' \in {"delete", "done", "failed"}
      /\ toDelete' \subseteq toDelete /\ dir' \in Dirs \cup {None}
      /\ UNCHANGED <<dirs, input, runs, todo, scan, left, current, stack, links, link, abandoned>>
  <2>1. CASE Delete
    <3>1. /\ pc = "delete"
          /\ UNCHANGED <<dirs, input, runs, todo, scan, left, current, stack, links, link, abandoned>>
      BY <2>1 DEF Delete, history
    <3>2. pc' \in {"delete", "failed"} /\ toDelete' \subseteq toDelete
      BY <2>1, <3>1 DEF Delete, Fail
    <3>3. PICK d \in toDelete : dir' = dir \/ dir' = d[1][1]
      BY <2>1 DEF Delete
    <3>4. d[1] \in Paths /\ dir \in Dirs \cup {None}
      BY <3>3 DEF Inv, TypeOK
    <3>5. d[1][1] \in Dirs
      BY <3>4, TreeAssumption
    <3> QED BY <3>1, <3>2, <3>3, <3>4, <3>5
  <2>2. CASE DeleteInput
    BY <2>2 DEF DeleteInput, Fail, history, Inv, TypeOK
  <2> QED BY <2>1, <2>2
<1>2. disk' \in [Paths -> Nodes] /\ FilesOK'
  <2>1. UNCHANGED disk \/ \E p : disk' = [disk EXCEPT ![p] = Absent]
    BY DEF Delete, DeleteInput
  <2>2. CASE UNCHANGED disk
    BY <1>1, <2>2 DEF Inv, TypeOK, FilesOK, input
  <2>3. CASE \E p : disk' = [disk EXCEPT ![p] = Absent]
    <3>1. Absent \in Nodes /\ Absent.is \notin Textual
      BY KindsOfNodes DEF Absent, Textual
    <3>2. UNCHANGED reexports
      BY <1>1 DEF input
    <3> QED BY <2>3, <3>1, <3>2, OneFileChanged
  <2> QED BY <2>1, <2>2, <2>3
<1>3. TypeOK'
  BY <1>1, <1>2 DEF Inv, TypeOK, input, scan, Ended
<1>4. MapsOK' /\ StackOK' /\ opts' \in Options
  <2>1. UNCHANGED <<input, dylibs, left, stack>> /\ pc' \notin {"read", "write", "overflow"}
    BY <1>1 DEF scan
  <2> QED BY <2>1, KeepsMaps
<1> QED BY <1>2, <1>3, <1>4 DEF Inv

\* The parent of a directory of the input is one of them, if there is one.
LEMMA ParentFacts ==
  ASSUME NEW d \in Dirs, ParentPath(d) # None
  PROVE  /\ ParentPath(d) \in Above[d] \ {d} /\ ParentPath(d) \in Dirs
         /\ Above[ParentPath(d)] = Above[d] \ {d}
<1>1. Above[d] \subseteq Dirs /\ \E e \in Above[d] \ {d} : Above[e] = Above[d] \ {d}
  BY TreeAssumption DEF ParentPath
<1> QED BY <1>1 DEF ParentPath

LEMMA InvRemoveDirectory == Inv /\ RemoveDirectory => Inv'
<1> SUFFICES ASSUME Inv, RemoveDirectory PROVE Inv'
  OBVIOUS
<1>1. /\ dir \in Dirs /\ dirs' \subseteq dirs /\ dir' \in {None, ParentPath(dir)}
      /\ abandoned' \subseteq abandoned \cup Remaining
      /\ UNCHANGED <<disk, input, pc, runs, todo, scan, toDelete, left, current, stack, links, link>>
  BY DEF RemoveDirectory, Inv, TypeOK
<1>2. dir' \in Dirs \cup {None}
  BY <1>1, ParentFacts
<1>3. abandoned' \subseteq Dirs
  BY <1>1, RemainingDirs DEF Inv, TypeOK
<1>4. TypeOK'
  BY <1>1, <1>2, <1>3 DEF Inv, TypeOK, input, scan, Ended
<1>5. FilesOK' /\ MapsOK' /\ StackOK'
  BY <1>1 DEF Inv, FilesOK, MapsOK, StackOK, input, scan
<1> QED BY <1>1, <1>4, <1>5 DEF Inv, input

LEMMA InvProceed == Inv /\ (Converted \/ AllConverted \/ Deleted) => Inv'
<1> SUFFICES ASSUME Inv, Converted \/ AllConverted \/ Deleted PROVE Inv'
  OBVIOUS
<1>1. /\ pc' \in {"next", "delete", "done"}
      /\ UNCHANGED <<tree, input, runs, todo, dir, abandoned, scan, toDelete, left, current, stack, links, link>>
  BY DEF Converted, AllConverted, Deleted, history
<1>2. TypeOK'
  BY <1>1 DEF Inv, TypeOK, tree, input, scan, Ended
<1>3. FilesOK'
  BY <1>1 DEF Inv, FilesOK, tree, input
<1>4. MapsOK' /\ StackOK' /\ opts' \in Options
  <2>1. UNCHANGED <<input, dylibs, left, stack>> /\ pc' \notin {"read", "write", "overflow"}
    BY <1>1 DEF scan
  <2> QED BY <2>1, KeepsMaps
<1> QED BY <1>2, <1>3, <1>4 DEF Inv

LEMMA InvReadInput == Inv /\ ReadInput => Inv'
<1> SUFFICES ASSUME Inv, ReadInput PROVE Inv'
  OBVIOUS
<1> DEFINE node == Contents(disk, opts.file)
           target == Target(disk, opts.file)
<1>1. /\ current' = Stem(target)
      /\ originalNames' = [originalNames EXCEPT ![current'] = target]
      /\ IF node.is \in Interface /\ node.lib \in Writable
         THEN CallInline(node.lib, Docs(node)) \/ (Fail /\ UNCHANGED stack)
         ELSE Fail /\ UNCHANGED stack
      /\ UNCHANGED <<tree, input, runs, todo, dir, abandoned, symlinks, dylibs, toDelete, left, links, link>>
      /\ opts.file \in Paths
  BY DEF ReadInput, Inv, MapsOK, history
<1>2. /\ target \in Paths /\ node \in Nodes
      /\ node.is \in Textual => ClosedIn(reexports, node.docs)
  BY <1>1, ContentsOK
<1> HIDE DEF node, target
<1>3. current' \in Stems /\ originalNames' \in [Stems -> Paths \cup {None}]
  BY <1>1, <1>2, PathFacts DEF Inv, TypeOK
<1>4. /\ stack' \in Seq(Frames) /\ FramesOK(reexports, stack')
      /\ pc' \in {"inline", "write"} => stack' # <<>>
      /\ pc' \in {"inline", "write", "failed"} /\ (pc' = "write" => ~opts.inline)
  <2>1. CASE node.is \in Interface /\ CallInline(node.lib, Docs(node))
    <3>1. node.lib \in Libs /\ Docs(node) \in SUBSET Libs /\ ClosedIn(reexports, Docs(node))
      BY <1>2, <2>1, DocsOK
    <3> QED BY <2>1, <3>1, CallInlineOK
  <2>2. CASE Fail /\ UNCHANGED stack
    BY <2>2 DEF Fail, Inv, TypeOK, StackOK
  <2> QED BY <1>1, <2>1, <2>2
<1>5. TypeOK'
  BY <1>1, <1>3, <1>4 DEF Inv, TypeOK, tree, input, Ended
<1>6. FilesOK' /\ MapsOK'
  BY <1>1, <1>4 DEF Inv, FilesOK, MapsOK, tree, input
<1>7. StackOK'
  BY <1>1, <1>4 DEF StackOK, input
<1> QED BY <1>1, <1>5, <1>6, <1>7 DEF Inv, input

LEMMA InvStep == Inv /\ [Next]_vars => Inv'
<1> SUFFICES ASSUME Inv, [Next]_vars PROVE Inv'
  OBVIOUS
<1>1. CASE UNCHANGED vars
  <2>1. UNCHANGED <<disk, dirs, opts, reexports, pc, runs, todo, symlinks, dylibs, originalNames,
                    toDelete, left, current, stack, links, link, dir, abandoned>>
    BY <1>1 DEF vars, tree, input, scan, history
  <2>2. TypeOK'
    BY <2>1 DEF Inv, TypeOK
  <2>3. FilesOK' /\ MapsOK' /\ StackOK' /\ opts' \in Options
    BY <2>1 DEF Inv, FilesOK, MapsOK, StackOK
  <2> QED BY <2>2, <2>3 DEF Inv
<1> QED BY <1>1, InvBegin, InvCrash, InvScan, InvScanned, InvConvert, InvInline, InvWriteFile,
           InvRemoveLink, InvCreateLink, InvDelete, InvRemoveDirectory, InvProceed, InvReadInput DEF Next, Step

\* All that a step may change but the directories; their removal leaves it as it is.
Seen == <<disk, opts, reexports, pc, runs, todo, symlinks, dylibs, originalNames, toDelete,
          left, current, stack, links, link, first, after, cut>>

LEMMA NextCases ==
  [Next]_vars =>
    \/ Begin \/ Scan \/ Scanned \/ Convert \/ inlineFrameworks \/ WriteFile \/ RemoveLink
    \/ CreateLink \/ Converted \/ AllConverted \/ Delete \/ Deleted \/ ReadInput
    \/ DeleteInput \/ Crash \/ UNCHANGED Seen
<1>1. RemoveDirectory => UNCHANGED Seen
  BY DEF RemoveDirectory, Seen, input, scan
<1>2. UNCHANGED vars => UNCHANGED Seen
  BY DEF vars, Seen, tree, input, scan, history
<1> QED BY <1>1, <1>2 DEF Next, Step

LEMMA Invariance == Spec => []Inv
BY InvInit, InvStep, PTL DEF Spec

\* The tree, the maps of a run and the frames of the recursion keep their types.
THEOREM TypeCorrect == Spec => []TypeOK
<1>1. Inv => TypeOK
  BY DEF Inv
<1> QED BY <1>1, Invariance, PTL

\* Whatever the graph of reexports, whatever the files hold by then and whatever fails in
\* between, a stub is only written once it holds what it and its documents reexport.
THEOREM StubsAreSelfContained == Spec => []SelfContained
<1>1. ASSUME Inv PROVE SelfContained
  <2> SUFFICES ASSUME opts.inline, pc = "write", stack # <<>>
               PROVE  /\ Inl!Private(stack[1].lib) \subseteq stack[1].docs
                      /\ Inl!Closed(stack[1].docs)
    BY DEF SelfContained, Inl!SelfContained
  <2>1. Len(stack) = 1 /\ stack[1].todo = {} /\ FrameOK(reexports, stack, 1)
    BY <1>1 DEF Inv, StackOK, FramesOK
  <2> QED BY <2>1 DEF FrameOK, ClosedIn, Inl!Private, Inl!Closed
<1> QED BY <1>1, Invariance, PTL

\* A path through private reexports that comes back to a library it has been at is a
\* cycle.
LEMMA RepetitionIsCycle ==
  ASSUME NEW graph, NEW n \in Nat, NEW f \in [1 .. n -> Libs],
         \A k \in 1 .. n : k < n => f[k + 1] \in graph[f[k]] \ Kept,
         NEW i \in 1 .. n, NEW j \in 1 .. n, i < j, f[i] = f[j]
  PROVE  \E cycle \in SUBSET Libs \ {{}} : \A l \in cycle : (graph[l] \ Kept) \cap cycle # {}
<1> DEFINE cycle == {f[k] : k \in i .. j - 1}
<1>1. cycle \in SUBSET Libs /\ f[i] \in cycle
  OBVIOUS
<1>2. ASSUME NEW l \in cycle PROVE (graph[l] \ Kept) \cap cycle # {}
  <2>1. PICK k \in i .. j - 1 : l = f[k]
    OBVIOUS
  <2>2. k \in 1 .. n /\ k < n /\ f[k + 1] \in graph[l] \ Kept
    BY <2>1
  <2>3. f[k + 1] \in cycle
    <3>1. CASE k + 1 = j
      BY <3>1, <1>1
    <3>2. CASE k + 1 # j
      <4>1. k + 1 \in i .. j - 1
        BY <3>2, <2>1
      <4> QED BY <4>1
    <3> QED BY <3>1, <3>2
  <2> QED BY <2>2, <2>3
<1> HIDE DEF cycle
<1> QED BY <1>1, <1>2

\* However deep the stack of the process and whatever the graph, running out of it takes
\* a cycle of private libraries.
THEOREM OverflowTakesCycle == Spec => []OverflowMeansCycle
<1>1. ASSUME Inv, pc = "overflow"
      PROVE  \E cycle \in SUBSET Libs \ {{}} : \A l \in cycle : (reexports[l] \ Kept) \cap cycle # {}
  <2>1. /\ reexports \in [Libs -> SUBSET Libs] /\ stack \in Seq(Frames)
        /\ FramesOK(reexports, stack) /\ Len(stack) = MaxDepth
        /\ stack[Len(stack)].todo \ Kept # {}
    BY <1>1 DEF Inv, TypeOK, StackOK
  <2>2. PICK next \in stack[MaxDepth].todo : next \notin Kept
    BY <2>1
  <2>3. MaxDepth \in Nat \ {0} /\ MaxDepth + 1 \in Nat
    BY TreeAssumption
  <2>4. \A k \in 1 .. MaxDepth : stack[k] \in Frames /\ FrameOK(reexports, stack, k)
    BY <2>1, <2>3 DEF FramesOK
  <2>5. next \in reexports[stack[MaxDepth].lib] \ Kept /\ next \in Libs
    BY <2>2, <2>3, <2>4 DEF FrameOK, Frames
  <2> DEFINE f == [k \in 1 .. MaxDepth + 1 |-> IF k <= MaxDepth THEN stack[k].lib ELSE next]
  <2>6. f \in [1 .. MaxDepth + 1 -> Libs]
    BY <2>3, <2>4, <2>5 DEF Frames
  <2>7. ASSUME NEW k \in 1 .. MaxDepth + 1, k < MaxDepth + 1
        PROVE  f[k + 1] \in reexports[f[k]] \ Kept
    <3>1. k \in 1 .. MaxDepth /\ f[k] = stack[k].lib
      BY <2>3, <2>7
    <3>2. CASE k = MaxDepth
      <4>1. f[k + 1] = next
        BY <3>2, <2>3
      <4> QED BY <4>1, <3>1, <3>2, <2>5
    <3>3. CASE k # MaxDepth
      <4>1. f[k + 1] = stack[k + 1].lib /\ k < Len(stack)
        BY <3>1, <3>3, <2>1, <2>3
      <4> QED BY <4>1, <3>1, <2>4 DEF FrameOK
    <3> QED BY <3>2, <3>3
  <2>8. \E i, j \in 1 .. MaxDepth + 1 : i # j /\ f[i] = f[j]
    <3>1. IsFiniteSet(1 .. MaxDepth + 1) /\ Cardinality(1 .. MaxDepth + 1) = MaxDepth + 1
      BY <2>3, FS_Interval
    <3>2. Cardinality(Libs) \in Nat /\ Cardinality(Libs) < MaxDepth + 1 /\ IsFiniteSet(Libs)
      BY <2>3, DepthAssumption, FS_CardinalityType
    <3>3. Cardinality(Libs) < Cardinality(1 .. MaxDepth + 1)
      BY <3>1, <3>2
    <3> HIDE DEF f
    <3> QED BY <3>1, <3>2, <3>3, <2>6, FS_PigeonHole
  <2>9. PICK i \in 1 .. MaxDepth + 1, j \in 1 .. MaxDepth + 1 : i < j /\ f[i] = f[j]
    <3> HIDE DEF f
    <3> QED BY <2>3, <2>8
  <2> HIDE DEF f
  <2> QED BY <2>3, <2>6, <2>7, <2>9, RepetitionIsCycle
<1>2. ASSUME Inv PROVE OverflowMeansCycle
  BY <1>1, <1>2 DEF OverflowMeansCycle, Inl!OverflowMeansCycle, Inl!Private
<1> QED BY <1>2, Invariance, PTL
=============================================================================
